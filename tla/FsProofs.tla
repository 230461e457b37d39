------------------------------ MODULE FsProofs ------------------------------
(* Theorems about Fs, for any number of processes, files and inodes.       *)
EXTENDS Fs, FiniteSetTheorems, TLAPS

(* What is in memory of the file system. *)
BlockName == {"inode", "bitmap", "data"} \X Int

MemType ==
    [inode : [Inum -> InodeType], used : SUBSET Block,
     dir : [Addr -> [0 .. DPB - 1 -> Dirent]],
     ref : [Inum -> Int], valid : [Inum -> BOOLEAN], copy : [Inum -> InodeType],
     wrote : SUBSET BlockName, ok : BOOLEAN]

(* The disk can be read, and the cache is write-through: what is cached of *)
(* an inode is what is on disk, and the inode has a link.                  *)
Healthy(s) ==
    /\ s \in MemType /\ Readable(Image(s))
    /\ \A i \in Inum :
          /\ s.valid[i] => s.copy[i] = s.inode[i] /\ s.inode[i].nlink > 0
          /\ s.copy[i].type \in {"free", s.inode[i].type}

LocalType ==
    [call : {"none", "exit"} \cup Create \cup Lookup, elems : Seq(Name \cup {".", ".."}),
     mode : Mode, ip : Inum \cup {0}, dp : Inum \cup {0}, ok : BOOLEAN,
     f : File \cup {Nil}, n : Nat, at : 0 .. MAXFILE * DPB, n1 : Nat]

FileType == [ref : Nat, type : {"none", "inode"}, ip : Inum \cup {0},
             off : 0 .. MAXFILE * DPB, write : BOOLEAN]

TypeInv ==
    /\ ops \subseteq Proc /\ ftlock \in Proc \cup {Nil}
    /\ lock \in [Inum -> Proc \cup {Nil}]
    /\ file \in [File -> FileType]
    /\ ofile \in [Proc -> [Fd -> File \cup {Nil}]]
    /\ cwd \in [Proc -> Inum \cup {0}]
    /\ pc \in [Proc -> PC] /\ loc \in [Proc -> LocalType]
    /\ ncalls \in 0 .. MaxCalls

(* The disk and what is in memory of it. *)
MemInv ==
    /\ Healthy(fs) /\ fs.wrote = {} /\ fs.ok /\ Readable(disk)
    /\ \A i \in Inum : fs.ref[i] \in Nat

LogInv == DOMAIN wrote = Proc /\ \A p \in Proc : wrote[p] \subseteq logged

(* Descriptors of a file, when the processes have the descriptors o. *)
RefsIn(o, f) == {d \in Proc \X Fd : o[d[1]][d[2]] = f}
Refs(f)      == RefsIn(ofile, f)

Linked(s, i) == i \in Inum /\ s.inode[i].nlink > 0

(* A process at l with locals r has opened f, and has yet to say what it is. *)
Opening(l, r, f) == l = "end" /\ r.ok /\ r.call \in {"open", "creat"} /\ r.f = f

(* A file that is closed for the last time keeps ftable.lock to its closer.*)
Closing == {"cbegin", "cput", "cend"}
Writing == {"wbegin", "wlock", "wadv", "wend"}

FileOK(f) ==
    /\ file[f].write => file[f].type = "inode"
    /\ file[f].type = "inode" => Linked(fs, file[f].ip)
    /\ file[f].ref = 0 /\ file[f].type = "inode" =>
          \E p \in Proc : pc[p] \in Closing /\ loc[p].f = f

(* What a process has open, opens, closes and writes. *)
DescIs(p, l, r, g, o, k) ==
    /\ \A fd \in Fd : o[p][fd] # Nil => g[o[p][fd]].type = "inode" \/ Opening(l, r, o[p][fd])
    /\ Opening(l, r, r.f) =>
          r.f \in File /\ g[r.f].type = "none" /\ \E fd \in Fd : RefsIn(o, r.f) = {<<p, fd>>}
    /\ l = "unused" => \A fd \in Fd : o[p][fd] = Nil
    /\ l \in Closing => k = p /\ r.f \in File /\ g[r.f].type = "inode" /\ g[r.f].ref = 0
    /\ l \in Writing =>
          /\ r.f \in File /\ g[r.f].type = "inode" /\ r.n > 0
          /\ \E fd \in Fd : o[p][fd] = r.f

DescOK(p) == DescIs(p, pc[p], loc[p], file, ofile, ftlock)

(* Where a call is, and what it has found. *)
CallIs(s, l, c, r) ==
    /\ l \in {"walk", "create", "exist", "alloc"} => Linked(s, r.ip)
    /\ l \in {"walk", "create", "exist", "ialloc", "fill", "alloc"} =>
          r.call \in Create \cup Lookup /\ ~r.ok
    /\ l \in {"create", "exist", "ialloc", "fill"} => r.call \in Create /\ r.elems # <<>>
    /\ l = "alloc" => r.call \in {"open", "creat"}
    /\ r.ok => l = "end" /\ Linked(s, r.ip) /\ r.call \in {"open", "creat", "chdir"}
    /\ l \in {"ialloc", "fill"} => Linked(s, r.dp) /\ s.valid[r.dp]
    /\ l = "fill" => /\ r.ip \in Inum /\ s.inode[r.ip].nlink = 0
                     /\ s.inode[r.ip].type = Made[r.call] /\ s.inode[r.ip].size = 0
    /\ IF l = "unused" THEN c = 0 ELSE Linked(s, c)

CallOK(p) == CallIs(fs, pc[p], cwd[p], loc[p])

(* Two calls that make an inode make two. *)
FillsApart ==
    \A p, q \in Proc : pc[p] = "fill" /\ pc[q] = "fill" /\ loc[p].ip = loc[q].ip => p = q

(* Who has locked an inode, and what a writer keeps under the lock. *)
Part(n) == IF n < PIECE THEN n ELSE PIECE

LockIs(p, s, l, r, g, k) ==
    /\ l = "alloc" => k[r.ip] = p
    /\ l \in {"ialloc", "fill"} => k[r.dp] = p
    /\ l = "wadv" =>
          LET i == g[r.f].ip IN
          /\ k[i] = p /\ s.copy[i].type = s.inode[i].type
          /\ s.copy[i].type # "dev" => r.at + r.n1 <= MAXFILE * DPB

LockOK(p) == LockIs(p, fs, pc[p], loc[p], file, lock)

(* What is logged belongs to the calls in a transaction. *)
InOp(l, r) ==
    \/ l \in {"create", "exist", "ialloc", "fill", "alloc", "end", "wlock", "wadv", "wend",
              "cput", "cend"}
    \/ l = "walk" /\ r.call # "exec"

OpsOK(p) == (InOp(pc[p], loc[p]) <=> p \in ops) /\ (p \notin ops => wrote[p] = {})

(* What holds until something panics, ... *)
Running ==
    /\ \A f \in File : FileOK(f)
    /\ \A p \in Proc : DescOK(p) /\ CallOK(p) /\ LockOK(p) /\ OpsOK(p)
    /\ FillsApart
    /\ \A i \in Inum : fs.ref[i] = Uses(i)

(* ... and what holds always. *)
FsInv == /\ TypeInv /\ MemInv /\ LogInv
         /\ \A f \in File : file[f].ref = Cardinality(Refs(f))
         /\ OffsetUnderLock
         /\ ~Panicked => Running

(* What a call that makes an inode has logged: nothing before ialloc, one   *)
(* block after it, and six in all.                                         *)
Six(w) == \E a, b, c, d, e, f \in BlockName : w \subseteq {a, b, c, d, e, f}

CreateIs(l, r, w) ==
    r.call \in Create =>
       /\ l \in {"walk", "create", "exist", "ialloc", "fill", "alloc", "end", "panic"}
       /\ l \in {"walk", "create", "exist", "ialloc"} => w = {}
       /\ l = "fill" => w \subseteq {InodeBlock(r.ip)}
       /\ Six(w)

CreateInv == \A p \in Proc : CreateIs(pc[p], loc[p], wrote[p])

-----------------------------------------------------------------------------
(* A set of natural numbers has a least one. *)
LEMMA LeastNumber ==
    ASSUME NEW S \in SUBSET Nat, S # {}
    PROVE  Min(S) \in S /\ \A n \in S : Min(S) <= n
  <1>1. PICK k \in S : \A n \in S : ~ (<<n, k>> \in OpToRel(<, Nat))
    BY NatLessThanWellFounded, WFMin
  <1>2. \A n \in S : k <= n
    <2> TAKE n \in S
    <2>1. k \in Nat /\ n \in Nat
      OBVIOUS
    <2>2. ~ (n < k)
      BY <1>1, <2>1 DEF OpToRel
    <2> QED
      BY <2>1, <2>2
  <1> QED
    BY <1>2 DEF Min

(* ... and one that is bounded a greatest one. *)
LEMMA GreatestNumber ==
    ASSUME NEW m \in Nat, NEW S \in SUBSET (0 .. m), S # {}
    PROVE  Max(S) \in S /\ \A n \in S : n <= Max(S)
  <1> DEFINE T == {m - k : k \in S}
  <1>1. T \in SUBSET Nat /\ T # {}
    <2>1. \A k \in S : m - k \in Nat
      OBVIOUS
    <2> QED
      BY <2>1
  <1>2. Min(T) \in T /\ \A u \in T : Min(T) <= u
    BY <1>1, LeastNumber
  <1>3. PICK k \in S : Min(T) = m - k
    BY <1>2
  <1>4. \A n \in S : k >= n
    <2> TAKE n \in S
    <2>1. m - n \in T
      OBVIOUS
    <2>2. m - k <= m - n
      BY <1>2, <1>3, <2>1
    <2>3. m \in Int /\ n \in Int /\ k \in Int
      OBVIOUS
    <2> HIDE DEF T
    <2> QED
      BY <2>2, <2>3
  <1> QED
    BY <1>4 DEF Max

(* Induction up to m, for a set. *)
LEMMA UpTo ==
    ASSUME NEW m \in Nat, NEW S, 0 \in S, \A k \in 0 .. m - 1 : k \in S => k + 1 \in S
    PROVE  \A k \in 0 .. m : k \in S
  <1> DEFINE T == {k \in 0 .. m : k \notin S}
  <1> SUFFICES ASSUME T # {} PROVE FALSE
    OBVIOUS
  <1>1. Min(T) \in T /\ \A n \in T : Min(T) <= n
    BY LeastNumber
  <1>2. Min(T) # 0 /\ Min(T) - 1 \in 0 .. m - 1
    BY <1>1
  <1>3. Min(T) - 1 \notin T
    BY <1>1, <1>2
  <1> QED
    BY <1>1, <1>2, <1>3

(* The blocks of a writei, one after the other. *)
Blocks(s, i, first, m) ==
    FoldLeft(LAMBDA u, bn : WriteBlock(u, i, bn), s, [k \in 1 .. m |-> first + k - 1])

Steps(g, s, i, first, m) ==
    /\ g[0] = s
    /\ \A k \in 1 .. m : g[k] = WriteBlock(g[k - 1], i, first + k - 1)
    /\ g[m] = Blocks(s, i, first, m)

(* The fold of writei over its blocks is a chain of WriteBlock. *)
LEMMA WriteiSteps ==
    ASSUME NEW s, NEW i, NEW first \in Int, NEW m \in Nat
    PROVE  \E g : Steps(g, s, i, first, m)
  <1> DEFINE q          == [k \in 1 .. m |-> first + k - 1]
             Step(h, z) == IF z = {} THEN s ELSE WriteBlock(h[z \ {Max(z)}], i, q[Max(z)])
             Is(h, D)   == h = [z \in SUBSET D |-> Step(h, z)]
             S          == {n \in 0 .. m : \E h : Is(h, 1 .. n)}
             iter       == CHOOSE h : Is(h, DOMAIN q)
  <1>1. Blocks(s, i, first, m) = iter[DOMAIN q]
    BY DEF Blocks, FoldLeft, MapThenFoldSet
  <1>2. ASSUME NEW n \in Nat, NEW z \in SUBSET (1 .. n), z # {}
        PROVE  Max(z) \in z /\ Max(z) \in 1 .. n /\ (n \in z => Max(z) = n)
    <2>1. z \in SUBSET (0 .. n)
      OBVIOUS
    <2>2. Max(z) \in z /\ \A k \in z : k <= Max(z)
      BY <1>2, <2>1, GreatestNumber
    <2>3. Max(z) \in 1 .. n
      BY <2>2
    <2>4. n \in z => n <= Max(z)
      BY <2>2
    <2> QED
      BY <2>2, <2>3, <2>4
  <1>3. 0 \in S
    <2>1. Is([z \in SUBSET (1 .. 0) |-> s], 1 .. 0)
      OBVIOUS
    <2> QED
      BY <2>1
  <1>4. ASSUME NEW k \in 0 .. m - 1, k \in S PROVE k + 1 \in S
    <2>1. PICK h : Is(h, 1 .. k)
      BY <1>4
    <2> DEFINE e == [z \in SUBSET (1 .. k + 1) |->
                       IF k + 1 \in z THEN WriteBlock(h[z \ {k + 1}], i, q[k + 1]) ELSE h[z]]
    <2>2. ASSUME NEW z \in SUBSET (1 .. k + 1) PROVE e[z] = Step(e, z)
      <3>1. CASE k + 1 \in z
        <4>1. Max(z) = k + 1
          BY <1>2, <3>1
        <4>2. z \ {k + 1} \in SUBSET (1 .. k) /\ z \ {k + 1} \in SUBSET (1 .. k + 1)
          OBVIOUS
        <4>3. e[z \ {k + 1}] = h[z \ {k + 1}]
          BY <4>2
        <4> HIDE DEF q
        <4> QED
          BY <3>1, <4>1, <4>3
      <3>2. CASE k + 1 \notin z
        <4>1. z \in SUBSET (1 .. k)
          BY <3>2
        <4>2. e[z] = h[z] /\ h[z] = Step(h, z)
          BY <2>1, <3>2, <4>1
        <4>3. CASE z # {}
          <5>1. Max(z) \in 1 .. k
            BY <1>2, <4>1, <4>3
          <5>2. z \ {Max(z)} \in SUBSET (1 .. k) /\ z \ {Max(z)} \in SUBSET (1 .. k + 1)
                /\ k + 1 \notin z \ {Max(z)}
            BY <3>2, <4>1
          <5>3. e[z \ {Max(z)}] = h[z \ {Max(z)}]
            BY <5>2
          <5> QED
            BY <4>2, <5>3
        <4> QED
          BY <4>2, <4>3
      <3> QED
        BY <3>1, <3>2
    <2>3. Is(e, 1 .. k + 1)
      <3>1. e = [z \in SUBSET (1 .. k + 1) |-> e[z]]
        OBVIOUS
      <3> HIDE DEF e, Step
      <3> QED
        BY <2>2, <3>1
    <2>4. k + 1 \in 0 .. m
      OBVIOUS
    <2> HIDE DEF Is, e
    <2> QED
      BY <2>3, <2>4
  <1>5. DOMAIN q = 1 .. m /\ Is(iter, 1 .. m)
    <2>0. DOMAIN q = 1 .. m
      OBVIOUS
    <2> HIDE DEF Is, q
    <2>1. \A k \in 0 .. m : k \in S
      <3> HIDE DEF S
      <3> QED
        BY <1>3, <1>4, UpTo
    <2> QED
      BY <2>0, <2>1
  <1> DEFINE g == [k \in 0 .. m |-> iter[1 .. k]]
  <1>6. g[0] = s
    <2>1. 1 .. 0 = {} /\ {} \in SUBSET (1 .. m)
      OBVIOUS
    <2> HIDE DEF iter
    <2> QED
      BY <1>5, <2>1
  <1>7. ASSUME NEW k \in 1 .. m PROVE g[k] = WriteBlock(g[k - 1], i, first + k - 1)
    <2>1. 1 .. k \in SUBSET (1 .. m) /\ 1 .. k \in SUBSET (1 .. k) /\ 1 .. k # {} /\ k \in 1 .. k
      OBVIOUS
    <2>2. Max(1 .. k) = k /\ (1 .. k) \ {k} = 1 .. k - 1 /\ q[k] = first + k - 1
      <3>1. k \in Nat /\ (1 .. k) \ {k} = 1 .. k - 1
        OBVIOUS
      <3> QED
        BY <1>2, <2>1, <3>1
    <2> HIDE DEF iter
    <2>3. iter[1 .. k] = Step(iter, 1 .. k)
      BY <1>5, <2>1
    <2>4. Step(iter, 1 .. k) = WriteBlock(iter[1 .. k - 1], i, first + k - 1)
      BY <2>1, <2>2
    <2>5. k \in 0 .. m /\ k - 1 \in 0 .. m
      OBVIOUS
    <2> QED
      BY <2>3, <2>4, <2>5
  <1>8. g[m] = iter[DOMAIN q] /\ m \in 0 .. m
    BY <1>5
  <1> HIDE DEF iter, g
  <1> QED
    BY <1>1, <1>6, <1>7, <1>8 DEF Steps

-----------------------------------------------------------------------------
(* The sizes of things. *)
LEMMA Sizes1 ==
    /\ NBLOCKS \in Nat /\ NINODES \in Nat /\ NINODE \in Nat /\ DPB \in Nat /\ IPB \in Nat
    /\ NDIRECT \in Nat /\ NINDIRECT \in Nat
    /\ NBLOCKS > 0 /\ NINODES > 1 /\ NINODE > 0 /\ DPB > 0 /\ IPB > 0 /\ NDIRECT > 0 /\ NINDIRECT > 0
    /\ MAXFILE \in Nat /\ MAXFILE > 0 /\ Inum \in SUBSET Nat /\ 0 \notin Inum /\ Block \in SUBSET Nat
    /\ 0 \notin Block /\ ROOTINO \in Inum
    /\ Block \subseteq Addr /\ Off \in Addr /\ Addr \in SUBSET Int /\ 0 \notin Addr /\ Off \notin Block
  BY InodeAssumption DEF MAXFILE, Inum, Block, ROOTINO, Addr, Off

(* Multiplication by a natural number keeps the order. *)
LEMMA Product == ASSUME NEW a \in Int, NEW b \in Int, NEW d \in Nat, a <= b PROVE a * d <= b * d
  OBVIOUS

(* The block of an offset. *)
LEMMA BlockOf ==
    ASSUME NEW off \in Nat
    PROVE  /\ off \div DPB \in Nat /\ off % DPB \in 0 .. DPB - 1
           /\ (off \div DPB) * DPB <= off /\ off < (off \div DPB) * DPB + DPB
           /\ off < MAXFILE * DPB => off \div DPB \in 0 .. MAXFILE - 1
  <1> DEFINE k == off \div DPB
  <1>1. k \in Nat /\ off % DPB \in 0 .. DPB - 1 /\ off = (DPB * k) + (off % DPB)
    BY Sizes1
  <1>2. k * DPB <= off /\ off < k * DPB + DPB
    <2> HIDE DEF k
    <2> QED
      BY <1>1, Sizes1
  <1>3. ASSUME off < MAXFILE * DPB PROVE k <= MAXFILE - 1
    <2> SUFFICES ASSUME MAXFILE <= k PROVE FALSE
      BY <1>1, Sizes1
    <2>1. MAXFILE * DPB <= k * DPB
      BY <1>1, Sizes1, Product
    <2> QED
      BY <1>1, <1>2, <1>3, <2>1, Sizes1
  <1> QED
    BY <1>1, <1>2, <1>3, Sizes1

-----------------------------------------------------------------------------
(* Blocks. *)
LEMMA BlockNames ==
    /\ \A i \in Inum : InodeBlock(i) \in BlockName
    /\ Bitmap \in BlockName
    /\ \A b \in Addr \cup {0} : Data(b) \in BlockName
  <1>1. \A i \in Inum : i \div IPB \in Int
    BY Sizes1
  <1>2. \A b \in Addr \cup {0} : b \in Int
    BY Sizes1
  <1> QED
    BY <1>1, <1>2 DEF BlockName, InodeBlock, Bitmap, Data

(* Only the first free block is taken. *)
LEMMA FirstFree ==
    ASSUME NEW s, s.used \in SUBSET Block
    PROVE  NextBlock(s) \in Addr /\ (NextBlock(s) # Off => NextBlock(s) \in Block)
  <1>1. CASE s.used # Block
    <2>1. Block \ s.used \in SUBSET Nat /\ Block \ s.used # {}
      BY <1>1, Sizes1
    <2>2. Min(Block \ s.used) \in Block \ s.used
      BY <2>1, LeastNumber
    <2> QED
      BY <1>1, <2>2, Sizes1 DEF NextBlock
  <1> QED
    BY <1>1, Sizes1 DEF NextBlock

(* What bmap leaves as it was in a state s, when it works on inode i: the  *)
(* inodes on disk, the references, the other inodes; an entry that it      *)
(* changes is empty.                                                       *)
Mapped(s, t, i) ==
    /\ t \in MemType
    /\ t.inode = s.inode /\ t.ref = s.ref /\ t.valid = s.valid
    /\ \A b \in Addr : \A o \in 0 .. DPB - 1 : t.dir[b][o] \in {NoEnt, s.dir[b][o]}
    /\ \A j \in Inum \ {i} : t.copy[j] = s.copy[j]
    /\ t.copy[i].type = s.copy[i].type /\ t.copy[i].nlink = s.copy[i].nlink
    /\ t.copy[i].size = s.copy[i].size
    /\ \A bn \in 0 .. MAXFILE - 1 : s.copy[i].addrs[bn] # 0 => t.copy[i].addrs[bn] = s.copy[i].addrs[bn]
    /\ s.copy[i].ind # 0 => t.copy[i].ind = s.copy[i].ind
    /\ t.ok => s.ok

(* Two changes to the map of an inode make one. *)
LEMMA MappedTwice ==
    ASSUME NEW s, NEW t, NEW u, NEW i \in Inum, Mapped(s, t, i), Mapped(t, u, i)
    PROVE  Mapped(s, u, i)
  <1>1. \A b \in Addr : \A o \in 0 .. DPB - 1 : u.dir[b][o] \in {NoEnt, s.dir[b][o]}
    BY DEF Mapped
  <1>2. /\ u \in MemType
        /\ u.inode = s.inode /\ u.ref = s.ref /\ u.valid = s.valid /\ (u.ok => s.ok)
        /\ u.copy[i].type = s.copy[i].type /\ u.copy[i].nlink = s.copy[i].nlink
        /\ u.copy[i].size = s.copy[i].size
        /\ s.copy[i].ind # 0 => u.copy[i].ind = s.copy[i].ind
    BY DEF Mapped
  <1>3. \A j \in Inum \ {i} : u.copy[j] = s.copy[j]
    BY DEF Mapped
  <1>4. \A bn \in 0 .. MAXFILE - 1 : s.copy[i].addrs[bn] # 0 => u.copy[i].addrs[bn] = s.copy[i].addrs[bn]
    BY DEF Mapped
  <1> QED
    BY <1>1, <1>2, <1>3, <1>4 DEF Mapped

(* ... and so does none. *)
LEMMA MappedItself == ASSUME NEW s \in MemType, NEW i PROVE Mapped(s, s, i)
  BY DEF Mapped

(* balloc *)
LEMMA BallocEffect ==
    ASSUME NEW s \in MemType
    PROVE  LET t == Balloc(s)
               b == NextBlock(s)
           IN  /\ \A i : Mapped(s, t, i)
               /\ t.copy = s.copy
               /\ b \in Addr
               /\ t.wrote \subseteq s.wrote \cup {Bitmap, Data(b)}
  <1> DEFINE t == Balloc(s)
             b == NextBlock(s)
  <1>0. /\ s.used \in SUBSET Block /\ s.dir \in [Addr -> [0 .. DPB - 1 -> Dirent]]
        /\ s.wrote \in SUBSET BlockName
        /\ DOMAIN s = {"inode", "used", "dir", "ref", "valid", "copy", "wrote", "ok"}
    BY DEF MemType
  <1>1. b \in Addr /\ (b # Off => b \in Block)
    BY <1>0, FirstFree
  <1>2. CASE b = Off
    BY <1>1, <1>2 DEF Balloc, Mapped, MemType
  <1>3. CASE b # Off
    <2>0. t = [s EXCEPT !.used = @ \cup {b}, !.dir[b] = Zeroes, !.wrote = @ \cup {Bitmap, Data(b)}]
      BY <1>3 DEF Balloc
    <2>1. Zeroes \in [0 .. DPB - 1 -> Dirent] /\ \A o \in 0 .. DPB - 1 : Zeroes[o] = NoEnt
      BY DEF Zeroes, Dirent
    <2>2. {Bitmap, Data(b)} \in SUBSET BlockName
      BY <1>1, BlockNames
    <2>3. /\ t.used = s.used \cup {b} /\ t.dir = [s.dir EXCEPT ![b] = Zeroes]
          /\ t.wrote = s.wrote \cup {Bitmap, Data(b)}
          /\ t.inode = s.inode /\ t.ref = s.ref /\ t.valid = s.valid /\ t.copy = s.copy /\ t.ok = s.ok
      BY <1>0, <2>0
    <2>4. t \in MemType
      <3>1. t.used \in SUBSET Block /\ t.dir \in [Addr -> [0 .. DPB - 1 -> Dirent]]
            /\ t.wrote \in SUBSET BlockName
        BY <1>0, <1>1, <1>3, <2>1, <2>2, <2>3
      <3>2. t = [inode |-> t.inode, used |-> t.used, dir |-> t.dir, ref |-> t.ref,
                 valid |-> t.valid, copy |-> t.copy, wrote |-> t.wrote, ok |-> t.ok]
        BY <2>0, <2>3 DEF MemType
      <3> QED
        BY <2>3, <3>1, <3>2 DEF MemType
    <2>5. \A c \in Addr : \A o \in 0 .. DPB - 1 : t.dir[c][o] \in {NoEnt, s.dir[c][o]}
      BY <1>0, <1>1, <2>1, <2>3
    <2> QED
      BY <1>1, <1>3, <2>3, <2>4, <2>5 DEF Mapped
  <1> QED
    BY <1>2, <1>3

(* A cached inode changes its addresses, or anything else. *)
LEMMA CopyStored ==
    ASSUME NEW s \in MemType, NEW i \in Inum, NEW c \in InodeType
    PROVE  LET t == [s EXCEPT !.copy[i] = c] IN
           /\ t \in MemType
           /\ t.inode = s.inode /\ t.used = s.used /\ t.dir = s.dir /\ t.ref = s.ref
           /\ t.valid = s.valid /\ t.wrote = s.wrote /\ t.ok = s.ok
           /\ t.copy = [s.copy EXCEPT ![i] = c]
           /\ t.copy[i] = c /\ \A j \in Inum \ {i} : t.copy[j] = s.copy[j]
  BY DEF MemType

(* The fields of an inode. *)
LEMMA InodeFields ==
    ASSUME NEW c \in InodeType
    PROVE  /\ c.type \in Type /\ c.nlink \in Nat /\ c.size \in 0 .. MAXFILE * DPB
           /\ c.ind \in Addr \cup {0}
           /\ \A bn \in 0 .. MAXFILE - 1 : c.addrs[bn] \in Addr \cup {0}
  <1> DEFINE D == 0 .. MAXFILE - 1
             Z == 0 .. MAXFILE * DPB
  <1>1. InodeType = [type : Type, nlink : Nat, size : Z, addrs : [D -> Addr \cup {0}],
                     ind : Addr \cup {0}]
    BY DEF InodeType
  <1> HIDE DEF D, Z
  <1>2. c \in [type : Type, nlink : Nat, size : Z, addrs : [D -> Addr \cup {0}], ind : Addr \cup {0}]
    BY <1>1
  <1>3. /\ c.type \in Type /\ c.nlink \in Nat /\ c.size \in Z /\ c.ind \in Addr \cup {0}
        /\ \A bn \in D : c.addrs[bn] \in Addr \cup {0}
    BY <1>2
  <1> QED
    BY <1>3 DEF D, Z

(* An inode that is given an indirect block. *)
LEMMA IndSet ==
    ASSUME NEW c \in InodeType, NEW b \in Addr \cup {0}
    PROVE  LET d == [c EXCEPT !.ind = b] IN
           /\ d \in InodeType /\ d.ind = b /\ d.addrs = c.addrs /\ d.type = c.type
           /\ d.nlink = c.nlink /\ d.size = c.size
  <1> DEFINE D == 0 .. MAXFILE - 1
             Z == 0 .. MAXFILE * DPB
  <1>1. InodeType = [type : Type, nlink : Nat, size : Z, addrs : [D -> Addr \cup {0}],
                     ind : Addr \cup {0}]
    BY DEF InodeType
  <1> HIDE DEF D, Z
  <1>2. c \in [type : Type, nlink : Nat, size : Z, addrs : [D -> Addr \cup {0}], ind : Addr \cup {0}]
    BY <1>1
  <1> QED
    BY <1>1, <1>2

(* An inode with block bn at b. *)
WithAddr(c, bn, b) == [c EXCEPT !.addrs[bn] = b]

(* An inode that is given a block. *)
LEMMA AddrSet ==
    ASSUME NEW c \in InodeType, NEW b \in Addr \cup {0}, NEW bn \in 0 .. MAXFILE - 1
    PROVE  LET d == WithAddr(c, bn, b) IN
           /\ d \in InodeType /\ d.ind = c.ind /\ d.addrs[bn] = b /\ d.type = c.type
           /\ d.nlink = c.nlink /\ d.size = c.size
           /\ \A k \in 0 .. MAXFILE - 1 : k # bn => d.addrs[k] = c.addrs[k]
  <1> DEFINE D == 0 .. MAXFILE - 1
             Z == 0 .. MAXFILE * DPB
  <1>1. InodeType = [type : Type, nlink : Nat, size : Z, addrs : [D -> Addr \cup {0}],
                     ind : Addr \cup {0}]
    BY DEF InodeType
  <1> HIDE DEF D, Z
  <1>2. c \in [type : Type, nlink : Nat, size : Z, addrs : [D -> Addr \cup {0}], ind : Addr \cup {0}]
    BY <1>1
  <1>3. bn \in D
    BY DEF D
  <1> DEFINE d == WithAddr(c, bn, b)
  <1>4. c.addrs \in [D -> Addr \cup {0}] /\ [c.addrs EXCEPT ![bn] = b] \in [D -> Addr \cup {0}]
    BY <1>2, <1>3
  <1>5. /\ d \in InodeType /\ d.ind = c.ind /\ d.type = c.type
        /\ d.nlink = c.nlink /\ d.size = c.size /\ d.addrs = [c.addrs EXCEPT ![bn] = b]
    BY <1>1, <1>2, <1>4 DEF WithAddr
  <1>6. d.addrs[bn] = b /\ \A k \in D : k # bn => d.addrs[k] = c.addrs[k]
    BY <1>3, <1>4, <1>5
  <1> QED
    BY <1>5, <1>6 DEF D

(* The size, and the number of links. *)
LEMMA SizeSet ==
    ASSUME NEW c \in InodeType, NEW n \in 0 .. MAXFILE * DPB
    PROVE  LET d == [c EXCEPT !.size = n] IN
           /\ d \in InodeType /\ d.ind = c.ind /\ d.addrs = c.addrs /\ d.type = c.type
           /\ d.nlink = c.nlink /\ d.size = n
  <1> DEFINE D == 0 .. MAXFILE - 1
             Z == 0 .. MAXFILE * DPB
  <1>1. InodeType = [type : Type, nlink : Nat, size : Z, addrs : [D -> Addr \cup {0}],
                     ind : Addr \cup {0}]
    BY DEF InodeType
  <1> HIDE DEF D, Z
  <1>2. c \in [type : Type, nlink : Nat, size : Z, addrs : [D -> Addr \cup {0}], ind : Addr \cup {0}]
    BY <1>1
  <1>3. n \in Z
    BY DEF Z
  <1> QED
    BY <1>1, <1>2, <1>3

(* An inode that is given a number of links. *)
LEMMA NlinkSet ==
    ASSUME NEW c \in InodeType, NEW n \in Nat
    PROVE  LET d == [c EXCEPT !.nlink = n] IN
           /\ d \in InodeType /\ d.ind = c.ind /\ d.addrs = c.addrs /\ d.type = c.type
           /\ d.nlink = n /\ d.size = c.size
  <1> DEFINE D == 0 .. MAXFILE - 1
             Z == 0 .. MAXFILE * DPB
  <1>1. InodeType = [type : Type, nlink : Nat, size : Z, addrs : [D -> Addr \cup {0}],
                     ind : Addr \cup {0}]
    BY DEF InodeType
  <1> HIDE DEF D, Z
  <1>2. c \in [type : Type, nlink : Nat, size : Z, addrs : [D -> Addr \cup {0}], ind : Addr \cup {0}]
    BY <1>1
  <1> QED
    BY <1>1, <1>2

(* The inodes of the cache and of the disk are inodes. *)
LEMMA CopyTyped == \A s \in MemType : \A i \in Inum : s.copy[i] \in InodeType /\ s.inode[i] \in InodeType
  BY DEF MemType

(* The indirect block of bmap. *)
LEMMA BmapIndEffect ==
    ASSUME NEW s \in MemType, NEW i \in Inum, NEW bn \in 0 .. MAXFILE - 1
    PROVE  LET t == BmapInd(s, i, bn)
           IN  /\ Mapped(s, t, i) /\ t.copy[i].addrs = s.copy[i].addrs
               /\ t.wrote \subseteq s.wrote \cup {Bitmap, Data(t.copy[i].ind)}
               /\ bn < NDIRECT => t = s
  <1> DEFINE t == BmapInd(s, i, bn)
             b == NextBlock(s)
             u == Balloc(s)
  <1>1. CASE bn < NDIRECT \/ s.copy[i].ind # 0
    BY <1>1, MappedItself DEF BmapInd
  <1>2. CASE ~(bn < NDIRECT \/ s.copy[i].ind # 0)
    <2>1. t = [u EXCEPT !.copy[i].ind = b, !.ok = @ /\ b # Off] /\ s.copy[i].ind = 0
      BY <1>2 DEF BmapInd, SetInd
    <2>2. /\ Mapped(s, u, i) /\ u.copy = s.copy /\ b \in Addr
          /\ u.wrote \subseteq s.wrote \cup {Bitmap, Data(b)}
      BY BallocEffect
    <2>3. u \in MemType
      BY <2>2 DEF Mapped
    <2> DEFINE c == [u.copy[i] EXCEPT !.ind = b]
             v == [u EXCEPT !.copy[i] = c]
    <2>4. t = [v EXCEPT !.ok = @ /\ b # Off] /\ c \in InodeType
      <3>1. c \in InodeType
        BY <2>2, <2>3, CopyTyped, IndSet
      <3>2. [u EXCEPT !.copy[i].ind = b, !.ok = @ /\ b # Off] = [v EXCEPT !.ok = @ /\ b # Off]
        BY <2>3 DEF MemType
      <3> QED
        BY <2>1, <3>1, <3>2
    <2>5. /\ c.ind = b /\ c.addrs = u.copy[i].addrs /\ c.type = u.copy[i].type
          /\ c.nlink = u.copy[i].nlink /\ c.size = u.copy[i].size
      BY <2>2, <2>3, CopyTyped, IndSet
    <2> HIDE DEF c, u, t
    <2>6. Mapped(u, t, i) /\ t.copy[i] = c /\ t.wrote = u.wrote
      <3>1. /\ v \in MemType
            /\ v.inode = u.inode /\ v.used = u.used /\ v.dir = u.dir /\ v.ref = u.ref
            /\ v.valid = u.valid /\ v.wrote = u.wrote /\ v.ok = u.ok
            /\ v.copy[i] = c /\ \A j \in Inum \ {i} : v.copy[j] = u.copy[j]
        BY <2>3, <2>4, CopyStored
      <3> HIDE DEF v
      <3>2. /\ t \in MemType
            /\ t.inode = v.inode /\ t.used = v.used /\ t.dir = v.dir /\ t.ref = v.ref
            /\ t.valid = v.valid /\ t.wrote = v.wrote /\ t.copy = v.copy /\ (t.ok => v.ok)
        <4> DEFINE k == v.ok /\ b # Off
        <4>1. t = [v EXCEPT !.ok = k] /\ k \in BOOLEAN /\ (k => v.ok)
          BY <2>4, <3>1 DEF MemType
        <4> HIDE DEF k
        <4> QED
          BY <3>1, <4>1 DEF MemType
      <3>3. u.copy[i].ind = 0
        BY <2>1, <2>2
      <3>4. t.copy[i] = c /\ \A j \in Inum \ {i} : t.copy[j] = u.copy[j]
        BY <3>1, <3>2
      <3>5. \A a \in Addr : \A o \in 0 .. DPB - 1 : t.dir[a][o] \in {NoEnt, u.dir[a][o]}
        BY <3>1, <3>2
      <3>6. t.ok => u.ok
        BY <3>1, <3>2
      <3> QED
        BY <2>5, <3>1, <3>2, <3>3, <3>4, <3>5, <3>6 DEF Mapped
    <2>7. Mapped(s, t, i)
      BY <2>2, <2>6, MappedTwice
    <2> QED
      BY <1>2, <2>2, <2>5, <2>6, <2>7 DEF t
  <1> QED
    BY <1>1, <1>2

(* bmap: the block has an address after it. *)
LEMMA BmapEffect ==
    ASSUME NEW s \in MemType, NEW i \in Inum, NEW bn \in 0 .. MAXFILE - 1
    PROVE  LET t == Bmap(s, i, bn)
           IN  /\ Mapped(s, t, i)
               /\ s.copy[i].addrs[bn] # 0 => t = s
               /\ t.ok => t.copy[i].addrs[bn] # 0
               /\ t.wrote \subseteq s.wrote \cup
                     {Bitmap, Data(t.copy[i].addrs[bn]), Data(t.copy[i].ind)}
               /\ bn < NDIRECT => t.wrote \subseteq s.wrote \cup {Bitmap, Data(t.copy[i].addrs[bn])}
  <1> DEFINE r == BmapInd(s, i, bn)
             b == NextBlock(r)
             u == Balloc(r)
             t == Bmap(s, i, bn)
  <1>1. CASE s.copy[i].addrs[bn] # 0
    BY <1>1, MappedItself DEF Bmap
  <1>2. CASE s.copy[i].addrs[bn] = 0
    <2> DEFINE W == IF bn < NDIRECT THEN {} ELSE {Data(r.copy[i].ind)}
               v == [u EXCEPT !.copy[i].addrs[bn] = b]
    <2>1. t = [v EXCEPT !.wrote = @ \cup W]
      BY <1>2 DEF Bmap
    <2>2. /\ Mapped(s, r, i) /\ r.copy[i].addrs = s.copy[i].addrs
          /\ r.wrote \subseteq s.wrote \cup {Bitmap, Data(r.copy[i].ind)}
          /\ bn < NDIRECT => r = s
      BY BmapIndEffect
    <2>3. r \in MemType
      BY <2>2 DEF Mapped
    <2>4. /\ Mapped(r, u, i) /\ u.copy = r.copy /\ b \in Addr
          /\ u.wrote \subseteq r.wrote \cup {Bitmap, Data(b)}
      BY <2>3, BallocEffect
    <2>5. u \in MemType
      BY <2>4 DEF Mapped
    <2> DEFINE c == WithAddr(u.copy[i], bn, b)
    <2>6. v = [u EXCEPT !.copy[i] = c] /\ c \in InodeType
      BY <2>4, <2>5, CopyTyped, AddrSet DEF MemType, WithAddr
    <2>7. /\ c.ind = u.copy[i].ind /\ c.type = u.copy[i].type
          /\ c.nlink = u.copy[i].nlink /\ c.size = u.copy[i].size
          /\ c.addrs[bn] = b /\ \A k \in 0 .. MAXFILE - 1 : k # bn => c.addrs[k] = u.copy[i].addrs[k]
      <3>1. u.copy[i] \in InodeType
        BY <2>5, CopyTyped
      <3>2. b \in Addr \cup {0}
        BY <2>4
      <3> HIDE DEF u, b
      <3> DEFINE w == u.copy[i]
      <3> HIDE DEF w
      <3>3. LET d == WithAddr(w, bn, b) IN
            /\ d.ind = w.ind /\ d.addrs[bn] = b /\ d.type = w.type
            /\ d.nlink = w.nlink /\ d.size = w.size
            /\ \A k \in 0 .. MAXFILE - 1 : k # bn => d.addrs[k] = w.addrs[k]
        <4>1. w \in InodeType
          BY <3>1 DEF w
        <4> QED
          BY <4>1, <3>2, AddrSet
      <3> QED
        BY <3>3 DEF w
    <2> HIDE DEF c, u, v, t, r
    <2>8. /\ v \in MemType
          /\ v.inode = u.inode /\ v.used = u.used /\ v.dir = u.dir /\ v.ref = u.ref
          /\ v.valid = u.valid /\ v.wrote = u.wrote /\ v.ok = u.ok
          /\ v.copy[i] = c /\ \A j \in Inum \ {i} : v.copy[j] = u.copy[j]
      BY <2>5, <2>6, CopyStored
    <2>9. W \in SUBSET BlockName
      <3>1. r.copy[i].ind \in Addr \cup {0}
        BY <2>3, CopyTyped, InodeFields
      <3> QED
        BY <3>1, BlockNames
    <2> HIDE DEF W
    <2>10. /\ t \in MemType
           /\ t.inode = u.inode /\ t.dir = u.dir /\ t.ref = u.ref
           /\ t.valid = u.valid /\ t.wrote = u.wrote \cup W /\ t.ok = u.ok
           /\ t.copy = v.copy
      BY <2>1, <2>8, <2>9 DEF MemType
    <2>11. Mapped(u, t, i)
      <3>1. u.copy[i].addrs[bn] = 0
        BY <1>2, <2>2, <2>4
      <3> QED
        BY <2>7, <2>8, <2>10, <3>1 DEF Mapped
    <2>12. Mapped(s, t, i)
      BY <2>2, <2>4, <2>11, MappedTwice
    <2>13. /\ t.wrote \subseteq s.wrote \cup {Bitmap, Data(t.copy[i].addrs[bn]), Data(t.copy[i].ind)}
           /\ bn < NDIRECT => t.wrote \subseteq s.wrote \cup {Bitmap, Data(t.copy[i].addrs[bn])}
      <3>1. t.copy[i].addrs[bn] = b /\ t.copy[i].ind = r.copy[i].ind
        BY <2>4, <2>7, <2>8, <2>10
      <3> QED
        BY <2>2, <2>4, <2>10, <3>1 DEF W
    <2>14. t.ok => t.copy[i].addrs[bn] # 0
      BY <2>4, <2>7, <2>8, <2>10, Sizes1
    <2> QED
      BY <1>2, <2>12, <2>13, <2>14 DEF t
  <1> QED
    BY <1>1, <1>2

(* One block of a writei. *)
LEMMA WriteBlockEffect ==
    ASSUME NEW s \in MemType, NEW i \in Inum, NEW bn \in 0 .. MAXFILE - 1
    PROVE  LET t == WriteBlock(s, i, bn)
           IN  /\ Mapped(s, t, i)
               /\ s.copy[i].addrs[bn] # 0 => t.copy = s.copy /\ t.dir = s.dir
               /\ t.ok => t.copy[i].addrs[bn] # 0
               /\ t.wrote \subseteq s.wrote \cup
                     {Bitmap, Data(t.copy[i].addrs[bn]), Data(t.copy[i].ind)}
               /\ bn < NDIRECT => t.wrote \subseteq s.wrote \cup {Bitmap, Data(t.copy[i].addrs[bn])}
  <1> DEFINE u == Bmap(s, i, bn)
             t == WriteBlock(s, i, bn)
             W == {Data(u.copy[i].addrs[bn])}
  <1>1. /\ Mapped(s, u, i)
        /\ s.copy[i].addrs[bn] # 0 => u = s
        /\ u.ok => u.copy[i].addrs[bn] # 0
        /\ u.wrote \subseteq s.wrote \cup {Bitmap, Data(u.copy[i].addrs[bn]), Data(u.copy[i].ind)}
        /\ bn < NDIRECT => u.wrote \subseteq s.wrote \cup {Bitmap, Data(u.copy[i].addrs[bn])}
    BY BmapEffect
  <1>2. u \in MemType
    BY <1>1 DEF Mapped
  <1>3. W \in SUBSET BlockName
    <2>1. u.copy[i].addrs[bn] \in Addr \cup {0}
      BY <1>2, CopyTyped, InodeFields
    <2> QED
      BY <2>1, BlockNames
  <1>4. t = [u EXCEPT !.wrote = @ \cup W]
    BY DEF WriteBlock
  <1> HIDE DEF t, u
  <1>5. /\ t \in MemType
        /\ t.inode = u.inode /\ t.dir = u.dir /\ t.ref = u.ref
        /\ t.valid = u.valid /\ t.wrote = u.wrote \cup W /\ t.ok = u.ok
        /\ t.copy = u.copy
    BY <1>2, <1>3, <1>4 DEF MemType
  <1>6. Mapped(s, t, i)
    BY <1>1, <1>5 DEF Mapped
  <1> QED
    BY <1>1, <1>5, <1>6 DEF t

-----------------------------------------------------------------------------
(* iupdate *)
LEMMA IupdateEffect ==
    ASSUME NEW s \in MemType, NEW i \in Inum
    PROVE  LET t == Iupdate(s, i) IN
           /\ t \in MemType
           /\ t.used = s.used /\ t.dir = s.dir /\ t.ref = s.ref
           /\ t.valid = s.valid /\ t.copy = s.copy /\ t.ok = s.ok
           /\ t.inode[i] = s.copy[i] /\ \A j \in Inum \ {i} : t.inode[j] = s.inode[j]
           /\ t.wrote = s.wrote \cup {InodeBlock(i)}
  <1> DEFINE t == Iupdate(s, i)
  <1>1. {InodeBlock(i)} \in SUBSET BlockName
    BY BlockNames
  <1>2. /\ s.wrote \in SUBSET BlockName /\ s.copy[i] \in InodeType
        /\ s.inode \in [Inum -> InodeType]
    BY DEF MemType
  <1>3. /\ t.used = s.used /\ t.dir = s.dir /\ t.ref = s.ref
        /\ t.valid = s.valid /\ t.copy = s.copy /\ t.ok = s.ok
        /\ t.inode = [s.inode EXCEPT ![i] = s.copy[i]]
        /\ t.wrote = s.wrote \cup {InodeBlock(i)}
    BY DEF MemType, Iupdate
  <1>4. [s.inode EXCEPT ![i] = s.copy[i]] \in [Inum -> InodeType]
        /\ s.wrote \cup {InodeBlock(i)} \in SUBSET BlockName
    BY <1>1, <1>2
  <1>6. t \in MemType
    BY <1>4 DEF MemType, Iupdate
  <1> QED
    BY <1>2, <1>3, <1>6 DEF t

-----------------------------------------------------------------------------
(* writei *)

(* The blocks of a write that is not refused lie in the file.              *)
LEMMA WriteRange ==
    ASSUME NEW off \in Nat, NEW n \in Nat \ {0}, off + n <= MAXFILE * DPB
    PROVE  LET first == off \div DPB
               last  == (off + n - 1) \div DPB
           IN  /\ first \in 0 .. MAXFILE - 1 /\ last \in 0 .. MAXFILE - 1
               /\ first <= last /\ first * DPB <= off
               /\ last * DPB < off + n /\ off + n <= last * DPB + DPB
  <1> DEFINE first == off \div DPB
             last  == (off + n - 1) \div DPB
  <1>1. off + n - 1 \in Nat /\ off <= off + n - 1 /\ off + n - 1 < MAXFILE * DPB
        /\ off < MAXFILE * DPB
    BY Sizes1
  <1>2. first \in 0 .. MAXFILE - 1 /\ first * DPB <= off
    BY <1>1, BlockOf
  <1>3. last \in 0 .. MAXFILE - 1 /\ last * DPB <= off + n - 1 /\ off + n - 1 < last * DPB + DPB
    BY <1>1, BlockOf
  <1> HIDE DEF first, last
  <1>4. first <= last
    <2> SUFFICES ASSUME last + 1 <= first PROVE FALSE
      BY <1>2, <1>3, Sizes1
    <2>1. (last + 1) * DPB <= first * DPB
      BY <1>2, <1>3, Sizes1, Product
    <2>2. (last + 1) * DPB = last * DPB + DPB
      BY <1>3, Sizes1
    <2>3. last * DPB \in Int /\ first * DPB \in Int
      BY <1>2, <1>3, Sizes1
    <2> QED
      BY <1>1, <1>2, <1>3, <2>1, <2>2, <2>3, Sizes1
  <1>5. last * DPB < off + n /\ off + n <= last * DPB + DPB
    <2>1. last * DPB \in Int
      BY <1>3, Sizes1
    <2> QED
      BY <1>3, <2>1, Sizes1
  <1> QED
    BY <1>2, <1>3, <1>4, <1>5 DEF first, last

(* After the loop of writei, its blocks have addresses; a write into the   *)
(* file changes no inode.                                                  *)
LEMMA WriteLoop ==
    ASSUME NEW s \in MemType, NEW i \in Inum, NEW off \in Nat, NEW n \in Nat \ {0},
           off + n <= MAXFILE * DPB
    PROVE  LET first == off \div DPB
               last  == (off + n - 1) \div DPB
           IN  \E t \in MemType :
                 /\ Mapped(s, t, i)
                 /\ t.ok => \A bn \in first .. last : t.copy[i].addrs[bn] # 0
                 /\ (\A bn \in first .. last : s.copy[i].addrs[bn] # 0) => t.copy = s.copy
                 /\ n = 1 => t = WriteBlock(s, i, first)
                 /\ Writei(s, i, off, n) = IF t.ok /\ off + n > s.copy[i].size
                                           THEN Iupdate([t EXCEPT !.copy[i].size = off + n], i) ELSE t
  <1> DEFINE first == off \div DPB
             last  == (off + n - 1) \div DPB
             m     == last - first + 1
  <1>1. /\ first \in 0 .. MAXFILE - 1 /\ last \in 0 .. MAXFILE - 1 /\ first <= last
    BY WriteRange
  <1>2. first \in Int /\ m \in Nat /\ m > 0
    <2> HIDE DEF first, last
    <2> QED
      BY <1>1, Sizes1
  <1>3. PICK g : Steps(g, s, i, first, m)
    <2>1. first \in Int
      BY <1>2
    <2>2. m \in Nat
      BY <1>2
    <2> HIDE DEF first, last, m
    <2> QED
      BY <2>1, <2>2, WriteiSteps
  <1>4. g[0] = s /\ \A k \in 1 .. m : g[k] = WriteBlock(g[k - 1], i, first + k - 1)
    BY <1>3 DEF Steps
  <1> DEFINE t == g[m]
             S == {k \in 0 .. m :
                     /\ Mapped(s, g[k], i)
                     /\ g[k].ok => \A bn \in first .. first + k - 1 : g[k].copy[i].addrs[bn] # 0
                     /\ (\A bn \in first .. last : s.copy[i].addrs[bn] # 0) => g[k].copy = s.copy}
  <1>5. 0 \in S
    <2>1. Mapped(s, s, i)
      BY MappedItself
    <2> HIDE DEF first, last, m
    <2> QED
      BY <1>1, <1>2, <1>4, <2>1
  <1>6. ASSUME NEW k \in 0 .. m - 1, k \in S PROVE k + 1 \in S
    <2> DEFINE u == g[k]
               v == g[k + 1]
               bn == first + k
    <2>1. /\ Mapped(s, u, i)
          /\ u.ok => \A b \in first .. first + k - 1 : u.copy[i].addrs[b] # 0
          /\ (\A b \in first .. last : s.copy[i].addrs[b] # 0) => u.copy = s.copy
      BY <1>6
    <2> HIDE DEF first, last
    <2>2. bn \in 0 .. MAXFILE - 1 /\ bn \in first .. last /\ k + 1 \in 1 .. m /\ k + 1 \in 0 .. m
          /\ (k + 1) - 1 = k /\ first + (k + 1) - 1 = bn
      BY <1>1, Sizes1
    <2> HIDE DEF m
    <2>3. v = WriteBlock(u, i, bn)
      BY <1>4, <2>2
    <2>4. u \in MemType
      BY <2>1 DEF Mapped
    <2> HIDE DEF bn, u, v
    <2>5. /\ Mapped(u, v, i)
          /\ u.copy[i].addrs[bn] # 0 => v.copy = u.copy
          /\ v.ok => v.copy[i].addrs[bn] # 0
      BY <2>2, <2>3, <2>4, WriteBlockEffect
    <2>6. Mapped(s, v, i)
      BY <2>1, <2>5, MappedTwice
    <2>7. v.ok => \A b \in first .. first + (k + 1) - 1 : v.copy[i].addrs[b] # 0
      <3> SUFFICES ASSUME v.ok, NEW b \in first .. first + (k + 1) - 1
                   PROVE  v.copy[i].addrs[b] # 0
        OBVIOUS
      <3>1. b = bn \/ b \in first .. first + k - 1
        BY <1>1, <2>2 DEF bn
      <3>2. u.ok
        BY <2>5 DEF Mapped
      <3>3. b \in 0 .. MAXFILE - 1
        BY <1>1, <2>2, Sizes1
      <3>4. CASE b \in first .. first + k - 1
        BY <2>1, <2>5, <3>2, <3>3, <3>4 DEF Mapped
      <3> QED
        BY <2>5, <3>1, <3>4
    <2>8. (\A b \in first .. last : s.copy[i].addrs[b] # 0) => v.copy = s.copy
      BY <2>1, <2>2, <2>5
    <2> QED
      BY <2>2, <2>6, <2>7, <2>8 DEF v
  <1>7. m \in S
    <2> HIDE DEF S, first, last, m
    <2>1. \A k \in 0 .. m : k \in S
      BY <1>2, <1>5, <1>6, UpTo
    <2> QED
      BY <1>2, <2>1
  <1>8. /\ Mapped(s, t, i)
        /\ t.ok => \A bn \in first .. last : t.copy[i].addrs[bn] # 0
        /\ (\A bn \in first .. last : s.copy[i].addrs[bn] # 0) => t.copy = s.copy
    <2>1. first + m - 1 = last
      <3> HIDE DEF first, last
      <3> QED
        BY <1>1
    <2> HIDE DEF first, last, m
    <2> QED
      BY <1>7, <2>1
  <1>9. t \in MemType /\ t.copy[i].size = s.copy[i].size
    BY <1>8 DEF Mapped
  <1>10. n = 1 => t = WriteBlock(s, i, first)
    <2> SUFFICES ASSUME n = 1 PROVE t = WriteBlock(s, i, first)
      OBVIOUS
    <2>1. last = first
      <3>1. off + n - 1 = off
        OBVIOUS
      <3> QED
        BY <3>1
    <2> HIDE DEF first, last
    <2>2. m = 1 /\ 1 \in 1 .. m /\ first + 1 - 1 = first /\ 1 - 1 = 0
      BY <1>1, <2>1
    <2> QED
      BY <1>4, <2>2
  <1>11. Writei(s, i, off, n) = IF t.ok /\ off + n > t.copy[i].size
                                THEN Iupdate([t EXCEPT !.copy[i].size = off + n], i) ELSE t
    <2> DEFINE x == off + n
    <2>1. Writei(s, i, off, n) =
            LET r == Blocks(s, i, first, m)
            IN  IF r.ok /\ off + n > s.copy[i].size
                THEN Iupdate([r EXCEPT !.copy[i].size = off + n], i) ELSE r
      BY DEF Writei, Blocks
    <2> HIDE DEF m, first, last
    <2> QED
      BY <1>3, <1>9, <2>1 DEF Steps
  <1> HIDE DEF first, last, m, t
  <1> QED
    BY <1>8, <1>9, <1>10, <1>11 DEF first, last

-----------------------------------------------------------------------------
(* What writei and dirlink leave as it was in s when they write to inode i. *)
Written(s, t, i) ==
    /\ t \in MemType
    /\ t.ref = s.ref /\ t.valid = s.valid /\ (t.ok => s.ok)
    /\ \A j \in Inum \ {i} : t.copy[j] = s.copy[j] /\ t.inode[j] = s.inode[j]
    /\ t.copy[i].type = s.copy[i].type /\ t.copy[i].nlink = s.copy[i].nlink
    /\ s.copy[i].ind # 0 => t.copy[i].ind = s.copy[i].ind
    /\ \A bn \in 0 .. MAXFILE - 1 : s.copy[i].addrs[bn] # 0 => t.copy[i].addrs[bn] = s.copy[i].addrs[bn]
    /\ t.ok => t.inode[i] = t.copy[i] /\ HoleFree(t.copy[i])

(* The blocks that the write of one entry, in block bn, logs.              *)
OneWrite(s, t, i, bn) ==
    /\ t.wrote \subseteq s.wrote \cup {Bitmap, InodeBlock(i), Data(t.copy[i].addrs[bn]), Data(t.copy[i].ind)}
    /\ bn < NDIRECT => t.wrote \subseteq s.wrote \cup {Bitmap, InodeBlock(i), Data(t.copy[i].addrs[bn])}

(* writei writes to its inode only, leaves no hole in it, and logs the     *)
(* blocks of one entry when it writes one.                                 *)
LEMMA WriteiEffect ==
    ASSUME NEW s \in MemType, NEW i \in Inum, NEW off \in Nat, NEW n \in Nat \ {0},
           ~WriteRefused(s, i, off, n), HoleFree(s.copy[i]), s.copy[i] = s.inode[i]
    PROVE  LET t     == Writei(s, i, off, n)
               first == off \div DPB
               last  == (off + n - 1) \div DPB
           IN  /\ Written(s, t, i)
               /\ \A b \in Addr : \A o \in 0 .. DPB - 1 : t.dir[b][o] \in {NoEnt, s.dir[b][o]}
               /\ t.ok => t.copy[i].size = IF off + n > s.copy[i].size THEN off + n ELSE s.copy[i].size
               /\ t.ok => \A bn \in first .. last : t.copy[i].addrs[bn] # 0
               /\ n = 1 => OneWrite(s, t, i, first)
  <1> DEFINE w     == Writei(s, i, off, n)
             first == off \div DPB
             last  == (off + n - 1) \div DPB
             size  == s.copy[i].size
             end   == off + n
  <1>0. /\ s.copy[i] \in InodeType /\ size \in 0 .. MAXFILE * DPB /\ MAXFILE * DPB \in Nat
        /\ off <= size /\ end <= MAXFILE * DPB /\ end \in 0 .. MAXFILE * DPB
    <2>1. s.copy[i] \in InodeType /\ MAXFILE * DPB \in Nat
      BY CopyTyped, Sizes1
    <2>2. size \in 0 .. MAXFILE * DPB
      BY <2>1, InodeFields
    <2> QED
      BY <2>1, <2>2 DEF WriteRefused
  <1>1. /\ first \in 0 .. MAXFILE - 1 /\ last \in 0 .. MAXFILE - 1 /\ first <= last
        /\ first * DPB <= off /\ last * DPB < end /\ end <= last * DPB + DPB
    BY <1>0, WriteRange
  <1>2. PICK t \in MemType :
          /\ Mapped(s, t, i)
          /\ t.ok => \A bn \in first .. last : t.copy[i].addrs[bn] # 0
          /\ (\A bn \in first .. last : s.copy[i].addrs[bn] # 0) => t.copy = s.copy
          /\ n = 1 => t = WriteBlock(s, i, first)
          /\ w = IF t.ok /\ end > size THEN Iupdate([t EXCEPT !.copy[i].size = end], i) ELSE t
    BY <1>0, WriteLoop, ZenonT(60)
  <1> HIDE DEF w, size, first, last, end
  <1>3. n = 1 => OneWrite(s, t, i, first)
    BY <1>1, <1>2, WriteBlockEffect DEF OneWrite
  <1>4. CASE ~t.ok
    BY <1>0, <1>2, <1>3, <1>4 DEF Mapped, Written, first, last, w
  <1>5. CASE t.ok /\ end <= size
    <2>1. \A bn \in first .. last : s.copy[i].addrs[bn] # 0
      <3> TAKE bn \in first .. last
      <3>1. bn \in 0 .. MAXFILE - 1 /\ bn \in Int /\ last \in Int /\ bn <= last
        BY <1>1, Sizes1
      <3>2. bn * DPB <= last * DPB
        BY <3>1, Sizes1, Product
      <3>3. bn * DPB \in Int /\ last * DPB \in Int
        BY <3>1, Sizes1
      <3>4. bn * DPB < size
        BY <1>0, <1>1, <1>5, <3>2, <3>3
      <3> QED
        BY <3>1, <3>4 DEF HoleFree, size
    <2>2. t.copy = s.copy /\ w = t
      BY <1>0, <1>2, <1>5, <2>1
    <2>3. Written(s, w, i)
      BY <1>2, <2>2 DEF Mapped, Written
    <2>4. w.dir = t.dir /\ w.ok /\ w.copy[i].size = size
      BY <1>5, <2>2 DEF size
    <2>5. \A b \in Addr : \A o \in 0 .. DPB - 1 : w.dir[b][o] \in {NoEnt, s.dir[b][o]}
      BY <1>2, <2>4 DEF Mapped
    <2>6. size = IF end > size THEN end ELSE size
      BY <1>0, <1>5
    <2>7. \A bn \in first .. last : w.copy[i].addrs[bn] # 0
      BY <1>2, <1>5, <2>2
    <2>8. n = 1 => OneWrite(s, w, i, first)
      BY <1>3, <2>2
    <2> QED
      BY <2>3, <2>4, <2>5, <2>6, <2>7, <2>8 DEF first, last, w, size, end
  <1>6. CASE t.ok /\ end > size
    <2> DEFINE c == [t.copy[i] EXCEPT !.size = end]
               v == [t EXCEPT !.copy[i] = c]
    <2>1. t.copy[i] \in InodeType
      BY CopyTyped
    <2>2. /\ c \in InodeType /\ c.ind = t.copy[i].ind /\ c.addrs = t.copy[i].addrs
          /\ c.type = t.copy[i].type /\ c.nlink = t.copy[i].nlink /\ c.size = end
      BY <1>0, <2>1, SizeSet
    <2>3. [t EXCEPT !.copy[i].size = end] = v
      BY DEF MemType
    <2> HIDE DEF c
    <2>4. /\ v \in MemType
          /\ v.inode = t.inode /\ v.used = t.used /\ v.dir = t.dir /\ v.ref = t.ref
          /\ v.valid = t.valid /\ v.wrote = t.wrote /\ v.ok = t.ok
          /\ v.copy[i] = c /\ \A j \in Inum \ {i} : v.copy[j] = t.copy[j]
      BY <2>2, CopyStored
    <2>5. w = Iupdate(v, i)
      BY <1>2, <1>6, <2>3
    <2> HIDE DEF v
    <2>6. /\ w \in MemType
          /\ w.used = v.used /\ w.dir = v.dir /\ w.ref = v.ref
          /\ w.valid = v.valid /\ w.copy = v.copy /\ w.ok = v.ok
          /\ w.inode[i] = v.copy[i] /\ \A j \in Inum \ {i} : w.inode[j] = v.inode[j]
          /\ w.wrote = v.wrote \cup {InodeBlock(i)}
      BY <2>4, <2>5, IupdateEffect
    <2>7. w.copy[i] = c
      BY <2>4, <2>6
    <2>8. HoleFree(c)
      <3> SUFFICES ASSUME NEW bn \in 0 .. MAXFILE - 1, bn * DPB < end PROVE c.addrs[bn] # 0
        BY <2>2 DEF HoleFree
      <3>1. bn \in Int /\ bn * DPB \in Int /\ first \in Int /\ last \in Int /\ DPB \in Nat
            /\ last * DPB \in Int /\ first * DPB \in Int
        BY <1>1, Sizes1
      <3>2. CASE bn < first
        <4>1. (bn + 1) * DPB <= first * DPB
          BY <3>1, <3>2, Product
        <4>2. (bn + 1) * DPB = bn * DPB + DPB
          BY <3>1
        <4>3. bn * DPB < size
          BY <1>0, <1>1, <3>1, <4>1, <4>2, Sizes1
        <4>4. s.copy[i].addrs[bn] # 0
          BY <4>3 DEF HoleFree, size
        <4> QED
          BY <1>2, <2>2, <4>4 DEF Mapped
      <3>3. CASE bn > last
        <4>1. (last + 1) * DPB <= bn * DPB
          BY <3>1, <3>3, Product
        <4>2. (last + 1) * DPB = last * DPB + DPB
          BY <3>1
        <4> QED
          BY <1>0, <1>1, <3>1, <4>1, <4>2
      <3>4. CASE bn \in first .. last
        BY <1>2, <1>6, <2>2, <3>4
      <3> QED
        BY <3>1, <3>2, <3>3, <3>4
    <2>9. Written(s, w, i)
      <3>1. w \in MemType /\ w.ref = s.ref /\ w.valid = s.valid /\ (w.ok => s.ok)
        BY <1>2, <2>4, <2>6 DEF Mapped
      <3>2. \A j \in Inum \ {i} : w.copy[j] = s.copy[j] /\ w.inode[j] = s.inode[j]
        BY <1>2, <2>4, <2>6 DEF Mapped
      <3>3. w.copy[i].type = s.copy[i].type /\ w.copy[i].nlink = s.copy[i].nlink
        BY <1>2, <2>2, <2>7 DEF Mapped
      <3>4. /\ s.copy[i].ind # 0 => w.copy[i].ind = s.copy[i].ind
            /\ \A bn \in 0 .. MAXFILE - 1 :
                  s.copy[i].addrs[bn] # 0 => w.copy[i].addrs[bn] = s.copy[i].addrs[bn]
        BY <1>2, <2>2, <2>7 DEF Mapped
      <3>5. w.inode[i] = w.copy[i] /\ HoleFree(w.copy[i])
        BY <2>4, <2>6, <2>7, <2>8
      <3> QED
        BY <3>1, <3>2, <3>3, <3>4, <3>5 DEF Written
    <2>10. n = 1 => OneWrite(s, w, i, first)
      BY <1>3, <2>2, <2>4, <2>6, <2>7 DEF OneWrite
    <2>11. \A b \in Addr : \A o \in 0 .. DPB - 1 : w.dir[b][o] \in {NoEnt, s.dir[b][o]}
      BY <1>2, <2>4, <2>6 DEF Mapped
    <2>12. w.copy[i].size = end /\ \A bn \in first .. last : w.copy[i].addrs[bn] # 0
      BY <1>2, <1>6, <2>2, <2>7
    <2> QED
      BY <1>6, <2>9, <2>10, <2>11, <2>12 DEF first, last, w, size, end
  <1>7. end \in Nat /\ size \in Nat
    BY <1>0, Sizes1
  <1> QED
    BY <1>4, <1>5, <1>6, <1>7

-----------------------------------------------------------------------------
(* What is said of a directory entry, and of an inode.                     *)
EntryOK(s, e)  == e.inum # 0 => s.inode[e.inum].nlink > 0
InodeOK(s, i)  ==
    /\ HoleFree(s.inode[i])
    /\ s.inode[i].type = "free" => s.inode[i].nlink = 0
    /\ s.valid[i] => s.copy[i] = s.inode[i] /\ s.inode[i].nlink > 0
    /\ s.copy[i].type \in {"free", s.inode[i].type}

(* Healthy, one inode and one entry at a time. *)
LEMMA HealthyIs ==
    ASSUME NEW s \in MemType
    PROVE  Healthy(s) <=>
             /\ \A i \in Inum : InodeOK(s, i)
             /\ \A b \in Addr : \A o \in 0 .. DPB - 1 : EntryOK(s, s.dir[b][o])
             /\ s.inode[ROOTINO].nlink > 0
  <1>1. Image(s) \in DiskType /\ Image(s).inode = s.inode /\ Image(s).dir = s.dir
    BY DEF MemType, Image, DiskType
  <1>2. (\A i \in Inum : InodeOK(s, i)) <=>
           /\ \A i \in Inum : HoleFree(s.inode[i]) /\ (s.inode[i].type = "free" => s.inode[i].nlink = 0)
           /\ \A i \in Inum : /\ s.valid[i] => s.copy[i] = s.inode[i] /\ s.inode[i].nlink > 0
                              /\ s.copy[i].type \in {"free", s.inode[i].type}
    BY DEF InodeOK
  <1> QED
    BY <1>1, <1>2, ZenonT(60) DEF Healthy, Readable, EntryOK

(* An entry of a directory without holes is in one of its blocks.          *)
LEMMA EntryPlace ==
    ASSUME NEW ino \in InodeType, HoleFree(ino), NEW off \in 0 .. ino.size - 1
    PROVE  ino.addrs[off \div DPB] \in Addr /\ off % DPB \in 0 .. DPB - 1
  <1>1. ino.size \in 0 .. MAXFILE * DPB /\ MAXFILE * DPB \in Nat
    BY InodeFields, Sizes1
  <1>2. off \in Nat /\ off < MAXFILE * DPB /\ off < ino.size
    BY <1>1
  <1> DEFINE bn == off \div DPB
  <1>3. bn \in 0 .. MAXFILE - 1 /\ off % DPB \in 0 .. DPB - 1 /\ bn * DPB <= off
    BY <1>2, BlockOf
  <1> HIDE DEF bn
  <1>4. bn * DPB \in Int
    BY <1>3, Sizes1
  <1>5. bn * DPB < ino.size
    BY <1>1, <1>2, <1>3, <1>4
  <1>6. ino.addrs[bn] # 0 /\ ino.addrs[bn] \in Addr \cup {0}
    BY <1>3, <1>5, InodeFields DEF HoleFree
  <1> QED
    BY <1>3, <1>6 DEF bn

(* The entries of a directory are entries. *)
LEMMA DirTyped ==
    ASSUME NEW s \in MemType, NEW b \in Addr, NEW o \in 0 .. DPB - 1
    PROVE  s.dir[b][o] \in Dirent
  <1>1. s.dir \in [Addr -> [0 .. DPB - 1 -> Dirent]]
    BY DEF MemType
  <1>2. s.dir[b] \in [0 .. DPB - 1 -> Dirent]
    BY <1>1
  <1> QED
    BY <1>2

(* dirlookup finds an inode that has a link, or nothing.                   *)
LEMMA LookupLinked ==
    ASSUME NEW s \in MemType, Healthy(s), NEW i \in Inum, s.valid[i], NEW name
    PROVE  LET n == Dirlookup(s, s.copy[i], name) IN
           n # 0 => n \in Inum /\ s.inode[n].nlink > 0
  <1> DEFINE ino == s.copy[i]
             H   == Hits(s, ino, name)
             n   == Dirlookup(s, ino, name)
  <1> SUFFICES ASSUME n # 0 PROVE n \in Inum /\ s.inode[n].nlink > 0
    OBVIOUS
  <1>1. ino \in InodeType /\ HoleFree(ino) /\ ino.size \in Int
    <2>1. ino \in InodeType /\ HoleFree(ino)
      BY CopyTyped, HealthyIs DEF InodeOK
    <2>2. ino.size \in Int
      BY <2>1, InodeFields, Sizes1
    <2> QED
      BY <2>1, <2>2
  <1>2. H \in SUBSET Nat
    BY <1>1 DEF Hits
  <1>3. H # {} /\ n = Entry(s, ino, Min(H)).inum
    BY DEF Dirlookup
  <1>4. Min(H) \in H
    BY <1>2, <1>3, LeastNumber
  <1> DEFINE off == Min(H)
  <1>5. off \in 0 .. ino.size - 1
    BY <1>4 DEF Hits
  <1> HIDE DEF ino, H, off, n
  <1>6. ino.addrs[off \div DPB] \in Addr /\ off % DPB \in 0 .. DPB - 1
    BY <1>1, <1>5, EntryPlace
  <1>7. n = s.dir[ino.addrs[off \div DPB]][off % DPB].inum
    BY <1>3 DEF Entry, off
  <1> DEFINE b == ino.addrs[off \div DPB]
             o == off % DPB
  <1> HIDE DEF b, o
  <1>8. b \in Addr /\ o \in 0 .. DPB - 1 /\ n = s.dir[b][o].inum
    BY <1>6, <1>7 DEF b, o
  <1>9. EntryOK(s, s.dir[b][o])
    BY <1>8, HealthyIs
  <1>10. s.dir[b][o] \in Dirent
    BY <1>8, DirTyped
  <1> QED
    BY <1>8, <1>9, <1>10 DEF EntryOK, Dirent, NoEnt, n

(* dirlink writes into the directory, or behind its last entry.            *)
LEMMA FreeEntryIn ==
    ASSUME NEW s, NEW ino \in InodeType
    PROVE  FreeEntry(s, ino) \in 0 .. ino.size
  <1> DEFINE F == {off \in 0 .. ino.size - 1 : Entry(s, ino, off).inum = 0} \cup {ino.size}
  <1>1. ino.size \in Nat
    BY InodeFields, Sizes1
  <1>2. F \in SUBSET Nat /\ F # {} /\ F \in SUBSET (0 .. ino.size)
    BY <1>1
  <1>3. Min(F) \in F
    BY <1>2, LeastNumber
  <1> QED
    BY <1>2, <1>3 DEF FreeEntry

-----------------------------------------------------------------------------
(* A write of one entry. *)
LEMMA OneEntry ==
    ASSUME NEW s \in MemType, NEW i \in Inum, NEW off \in Nat,
           ~WriteRefused(s, i, off, 1), HoleFree(s.copy[i]), s.copy[i] = s.inode[i]
    PROVE  LET t  == Writei(s, i, off, 1)
               bn == off \div DPB
           IN  /\ Written(s, t, i)
               /\ \A b \in Addr : \A k \in 0 .. DPB - 1 : t.dir[b][k] \in {NoEnt, s.dir[b][k]}
               /\ t.ok => t.copy[i].size = IF off + 1 > s.copy[i].size THEN off + 1 ELSE s.copy[i].size
               /\ t.ok => \A n \in bn .. (off + 1 - 1) \div DPB : t.copy[i].addrs[n] # 0
               /\ OneWrite(s, t, i, bn)
  <1> DEFINE t  == Writei(s, i, off, 1)
             bn == off \div DPB
  <1>1. 1 \in Nat \ {0} /\ 1 = 1
    OBVIOUS
  <1>2. Written(s, t, i)
    BY <1>1, WriteiEffect
  <1>3. \A b \in Addr : \A k \in 0 .. DPB - 1 : t.dir[b][k] \in {NoEnt, s.dir[b][k]}
    BY <1>1, WriteiEffect
  <1>4. t.ok => t.copy[i].size = IF off + 1 > s.copy[i].size THEN off + 1 ELSE s.copy[i].size
    BY <1>1, WriteiEffect
  <1>5. t.ok => \A n \in bn .. (off + 1 - 1) \div DPB : t.copy[i].addrs[n] # 0
    BY <1>1, WriteiEffect
  <1>6. OneWrite(s, t, i, bn)
    BY <1>1, WriteiEffect
  <1> QED
    BY <1>2, <1>3, <1>4, <1>5, <1>6

(* dirlink *)
LEMMA DirlinkEffect ==
    ASSUME NEW s \in MemType, NEW i \in Inum, NEW name \in Name \cup {".", ".."}, NEW inum \in Inum,
           s.ok => Healthy(s) /\ s.valid[i] /\ s.inode[inum].nlink > 0
    PROVE  LET t  == Dirlink(s, i, name, inum)
               bn == FreeEntry(s, s.copy[i]) \div DPB
           IN  /\ t \in MemType
               /\ t.ok => /\ s.ok /\ Healthy(t) /\ Written(s, t, i)
                          /\ OneWrite(s, t, i, bn) /\ bn \in 0 .. MAXFILE - 1
                          /\ t.copy[i].addrs[bn] # 0
                          /\ t.copy[i].size <= s.copy[i].size + 1
  <1> DEFINE off == FreeEntry(s, s.copy[i])
             bn  == off \div DPB
             o   == off % DPB
             w   == Writei(s, i, off, 1)
             t   == Dirlink(s, i, name, inum)
             e   == [name |-> name, inum |-> inum]
             v   == PutEntry(w, w.copy[i].addrs[bn], o, e)
             stop == DirlinkFails(s, i, name, off)
  <1>0. t = IF stop THEN [s EXCEPT !.ok = FALSE] ELSE IF ~w.ok THEN w ELSE v
    BY DEF Dirlink
  <1>1. CASE stop
    <2> HIDE DEF t, w, v, stop
    <2>1. t = [s EXCEPT !.ok = FALSE]
      BY <1>0, <1>1
    <2>2. t \in MemType /\ ~t.ok
      BY <2>1 DEF MemType
    <2> QED
      BY <2>2 DEF t
  <1>2. CASE ~stop
    <2>1. Healthy(s) /\ s.valid[i] /\ s.inode[inum].nlink > 0 /\ ~WriteRefused(s, i, off, 1) /\ s.ok
      BY <1>2 DEF DirlinkFails
    <2>2. s.copy[i] = s.inode[i] /\ HoleFree(s.copy[i]) /\ s.copy[i] \in InodeType
      BY <2>1, HealthyIs, CopyTyped DEF InodeOK
    <2>3. off \in 0 .. s.copy[i].size /\ s.copy[i].size \in 0 .. MAXFILE * DPB
          /\ MAXFILE * DPB \in Nat
      BY <2>2, FreeEntryIn, InodeFields, Sizes1
    <2>4. off \in Nat /\ off + 1 <= MAXFILE * DPB /\ off + 1 - 1 = off /\ s.copy[i].size \in Nat
      BY <2>1, <2>3 DEF WriteRefused
    <2>5. t = IF ~w.ok THEN w ELSE v
      <3> HIDE DEF t, w, v, stop
      <3> QED
        BY <1>0, <1>2
    <2>6. /\ Written(s, w, i)
          /\ \A b \in Addr : \A k \in 0 .. DPB - 1 : w.dir[b][k] \in {NoEnt, s.dir[b][k]}
          /\ w.ok => w.copy[i].size = IF off + 1 > s.copy[i].size THEN off + 1 ELSE s.copy[i].size
          /\ w.ok => \A n \in bn .. (off + 1 - 1) \div DPB : w.copy[i].addrs[n] # 0
          /\ OneWrite(s, w, i, bn)
      <3>1. off \in Nat /\ ~WriteRefused(s, i, off, 1) /\ HoleFree(s.copy[i]) /\ s.copy[i] = s.inode[i]
        BY <2>1, <2>2, <2>4
      <3> HIDE DEF off
      <3> QED
        BY <3>1, OneEntry
    <2>7. bn \in 0 .. MAXFILE - 1 /\ o \in 0 .. DPB - 1
      <3>1. off < MAXFILE * DPB
        BY <2>3, <2>4
      <3> HIDE DEF off
      <3> QED
        BY <2>4, <3>1, BlockOf
    <2>8. w.ok => w.copy[i].addrs[bn] # 0
      <3>1. bn \in bn .. bn
        BY <2>7
      <3> HIDE DEF off, w
      <3> QED
        BY <2>4, <2>6, <3>1
    <2> HIDE DEF off, bn, o, w, v, t
    <2>9. w \in MemType
      BY <2>6 DEF Written
    <2>10. CASE ~w.ok
      BY <2>5, <2>9, <2>10 DEF t
    <2>11. CASE w.ok
      <3> DEFINE b == w.copy[i].addrs[bn]
      <3>1. b \in Addr
        <4>1. w.copy[i] \in InodeType
          BY <2>9, CopyTyped
        <4>2. b \in Addr \cup {0}
          BY <2>7, <4>1, InodeFields
        <4> QED
          BY <2>8, <2>11, <4>2
      <3>2. e \in Dirent /\ e.inum = inum
        BY DEF Dirent
      <3> HIDE DEF b, e
      <3>3. t = [w EXCEPT !.dir[b][o] = e]
        BY <2>5, <2>11 DEF v, b, PutEntry
      <3>4. /\ t \in MemType
            /\ t.dir = [w.dir EXCEPT ![b][o] = e] /\ w.dir \in [Addr -> [0 .. DPB - 1 -> Dirent]]
        <4> DEFINE D == 0 .. DPB - 1
        <4>1. w \in [inode : [Inum -> InodeType], used : SUBSET Block,
                     dir : [Addr -> [D -> Dirent]], ref : [Inum -> Int], valid : [Inum -> BOOLEAN],
                     copy : [Inum -> InodeType], wrote : SUBSET BlockName, ok : BOOLEAN]
          BY <2>9 DEF MemType
        <4>2. o \in D
          BY <2>7
        <4> HIDE DEF D
        <4>3. [w.dir EXCEPT ![b][o] = e] \in [Addr -> [D -> Dirent]]
          BY <3>1, <3>2, <4>1, <4>2
        <4>4. t \in [inode : [Inum -> InodeType], used : SUBSET Block,
                     dir : [Addr -> [D -> Dirent]], ref : [Inum -> Int], valid : [Inum -> BOOLEAN],
                     copy : [Inum -> InodeType], wrote : SUBSET BlockName, ok : BOOLEAN]
              /\ t.dir = [w.dir EXCEPT ![b][o] = e]
          BY <3>3, <4>1, <4>3
        <4> QED
          BY <4>1, <4>4 DEF MemType, D
      <3>5. /\ t.inode = w.inode /\ t.used = w.used /\ t.ref = w.ref /\ t.valid = w.valid
            /\ t.copy = w.copy /\ t.wrote = w.wrote /\ t.ok = w.ok
        BY <2>9, <3>3 DEF MemType
      <3>6. Written(s, t, i) /\ OneWrite(s, t, i, bn)
        BY <2>6, <3>4, <3>5 DEF Written, OneWrite
      <3>7. \A j \in Inum : InodeOK(t, j) /\ t.inode[j].nlink = s.inode[j].nlink
        <4> TAKE j \in Inum
        <4>1. InodeOK(s, j)
          BY <2>1, HealthyIs
        <4>2. CASE j # i
          <5>1. t.copy[j] = s.copy[j] /\ t.inode[j] = s.inode[j] /\ t.valid[j] = s.valid[j]
            BY <3>6, <4>2 DEF Written
          <5> QED
            BY <4>1, <5>1 DEF InodeOK
        <4>3. CASE j = i
          <5>1. /\ t.inode[i] = t.copy[i] /\ HoleFree(t.copy[i]) /\ t.copy[i].type = s.copy[i].type
                /\ t.copy[i].nlink = s.copy[i].nlink
            BY <2>11, <3>5, <3>6 DEF Written
          <5> QED
            BY <2>1, <2>2, <4>1, <4>3, <5>1 DEF InodeOK
        <4> QED
          BY <4>2, <4>3
      <3>8. \A c \in Addr : \A k \in 0 .. DPB - 1 : EntryOK(t, t.dir[c][k])
        <4> TAKE c \in Addr
        <4> TAKE k \in 0 .. DPB - 1
        <4>1. EntryOK(s, s.dir[c][k])
          BY <2>1, HealthyIs
        <4>2. t.dir[c][k] = e \/ t.dir[c][k] = w.dir[c][k]
          BY <3>4
        <4>3. w.dir[c][k] = NoEnt \/ w.dir[c][k] = s.dir[c][k]
          BY <2>6
        <4>4. s.dir[c][k] \in Dirent
          BY DirTyped
        <4>5. s.dir[c][k].inum # 0 => s.dir[c][k].inum \in Inum
          BY <4>4 DEF Dirent, NoEnt
        <4>6. CASE t.dir[c][k] = e
          BY <2>1, <3>2, <3>7, <4>6 DEF EntryOK
        <4>7. CASE t.dir[c][k] = NoEnt
          BY <4>7 DEF EntryOK, NoEnt
        <4>8. CASE t.dir[c][k] = s.dir[c][k]
          BY <3>7, <4>1, <4>5, <4>8 DEF EntryOK
        <4> QED
          BY <4>2, <4>3, <4>6, <4>7, <4>8
      <3>9. t.inode[ROOTINO].nlink > 0
        BY <2>1, <3>7, HealthyIs, Sizes1
      <3>10. Healthy(t)
        BY <3>4, <3>7, <3>8, <3>9, HealthyIs
      <3>11. t.copy[i].size <= s.copy[i].size + 1
        BY <2>3, <2>4, <2>6, <2>11, <3>5
      <3> QED
        BY <2>1, <2>7, <2>8, <2>11, <3>4, <3>5, <3>6, <3>10, <3>11 DEF t, bn, off
    <2> QED
      BY <2>10, <2>11
  <1> QED
    BY <1>1, <1>2

-----------------------------------------------------------------------------
(* What a call may do to the file system in memory, s: inodes keep their   *)
(* kind and do not lose their last link, an inode without links is left    *)
(* alone except for those of F, a cached inode in use stays valid.         *)
Grows(s, t, F) ==
    /\ Healthy(t)
    /\ \A j \in Inum :
          /\ s.inode[j].nlink > 0 => t.inode[j].nlink > 0
          /\ s.inode[j].type # "free" => t.inode[j].type = s.inode[j].type
          /\ j \notin F /\ s.inode[j].type # "free" /\ s.inode[j].nlink = 0 => t.inode[j] = s.inode[j]
          /\ s.copy[j].type # "free" => t.copy[j].type = s.copy[j].type
          /\ s.valid[j] /\ s.ref[j] > 0 => t.valid[j]

(* What is healthy has its type. *)
LEMMA HealthyTyped == \A s : Healthy(s) => s \in MemType
  BY DEF Healthy

(* Nothing that is done keeps everything. *)
LEMMA GrowsItself == ASSUME NEW s, Healthy(s) PROVE Grows(s, s, {})
  BY DEF Grows

(* Nothing is said of references and of blocks that have been logged.      *)
LEMMA HealthyWith ==
    ASSUME NEW s, Healthy(s), NEW t \in MemType, t.inode = s.inode, t.dir = s.dir,
           t.valid = s.valid, t.copy = s.copy
    PROVE  Healthy(t)
  <1>1. s \in MemType
    BY DEF Healthy
  <1>2. \A i \in Inum : InodeOK(t, i)
    BY <1>1, HealthyIs DEF InodeOK
  <1>3. \A b \in Addr : \A o \in 0 .. DPB - 1 : EntryOK(t, t.dir[b][o])
    BY <1>1, HealthyIs DEF EntryOK
  <1> QED
    BY <1>1, <1>2, <1>3, HealthyIs

(* ilock reads an inode that has a link. *)
LEMMA IlockEffect ==
    ASSUME NEW s, Healthy(s), NEW i \in Inum, s.inode[i].nlink > 0
    PROVE  LET t == Ilock(s, i) IN
           /\ t \in MemType /\ Grows(s, t, {})
           /\ t.ref = s.ref /\ t.wrote = s.wrote /\ t.ok = s.ok
           /\ t.inode = s.inode /\ t.valid[i] /\ t.copy[i] = s.inode[i]
           /\ \A j \in Inum : s.valid[j] => t.valid[j]
  <1> DEFINE t == Ilock(s, i)
  <1>0. s \in MemType /\ (\A j \in Inum : InodeOK(s, j))
    BY HealthyTyped, HealthyIs
  <1>1. CASE s.valid[i]
    <2>1. t = s
      BY <1>1 DEF Ilock
    <2> HIDE DEF t
    <2> QED
      BY <1>0, <1>1, <2>1, GrowsItself DEF InodeOK, t
  <1>2. CASE ~s.valid[i]
    <2>1. s.inode[i].type # "free" /\ s.inode[i] \in InodeType
      BY <1>0, CopyTyped DEF InodeOK
    <2>2. t = [s EXCEPT !.copy[i] = s.inode[i], !.valid[i] = TRUE, !.ok = @ /\ s.inode[i].type # "free"]
      BY <1>2 DEF Ilock
    <2>3. /\ t \in MemType
          /\ t.inode = s.inode /\ t.used = s.used /\ t.dir = s.dir /\ t.ref = s.ref
          /\ t.wrote = s.wrote /\ t.ok = s.ok
          /\ t.copy = [s.copy EXCEPT ![i] = s.inode[i]] /\ t.valid = [s.valid EXCEPT ![i] = TRUE]
      <3>1. (s.ok /\ s.inode[i].type # "free") = s.ok
        BY <1>0, <2>1 DEF MemType
      <3>2. t = [s EXCEPT !.copy[i] = s.inode[i], !.valid[i] = TRUE, !.ok = s.ok]
        BY <2>2, <3>1
      <3> HIDE DEF t
      <3> QED
        BY <1>0, <2>1, <3>2 DEF MemType
    <2> HIDE DEF t
    <2>4. s.copy \in [Inum -> InodeType] /\ s.valid \in [Inum -> BOOLEAN]
      BY <1>0 DEF MemType
    <2>5. \A j \in Inum : InodeOK(t, j)
      <3> TAKE j \in Inum
      <3>1. InodeOK(s, j)
        BY <1>0
      <3>2. CASE j = i
        BY <2>3, <2>4, <3>1, <3>2 DEF InodeOK
      <3>3. CASE j # i
        BY <2>3, <2>4, <3>1, <3>3 DEF InodeOK
      <3> QED
        BY <3>2, <3>3
    <2>6. \A b \in Addr : \A o \in 0 .. DPB - 1 : EntryOK(t, t.dir[b][o])
      BY <1>0, <2>3, HealthyIs DEF EntryOK
    <2>7. Healthy(t)
      BY <1>0, <2>3, <2>5, <2>6, HealthyIs
    <2>8. Grows(s, t, {})
      <3> SUFFICES ASSUME NEW j \in Inum
                   PROVE  /\ s.copy[j].type # "free" => t.copy[j].type = s.copy[j].type
                          /\ s.valid[j] => t.valid[j]
        BY <2>3, <2>7 DEF Grows
      <3>1. InodeOK(s, j)
        BY <1>0
      <3>2. CASE j = i
        BY <2>3, <2>4, <3>1, <3>2 DEF InodeOK
      <3>3. CASE j # i
        BY <2>3, <2>4, <3>3
      <3> QED
        BY <3>2, <3>3
    <2> QED
      BY <2>3, <2>4, <2>8 DEF t
  <1> QED
    BY <1>1, <1>2

(* With other references, and other valid copies. *)
WithRefs(s, r, v) == [s EXCEPT !.ref = r, !.valid = v]

(* Other references keep the rest. *)
LEMMA RefsStored ==
    ASSUME NEW s \in MemType, NEW r \in [Inum -> Int], NEW v \in [Inum -> BOOLEAN]
    PROVE  LET t == WithRefs(s, r, v) IN
           /\ t \in MemType
           /\ t.inode = s.inode /\ t.dir = s.dir /\ t.ref = r
           /\ t.valid = v /\ t.copy = s.copy /\ t.wrote = s.wrote /\ t.ok = s.ok
  BY DEF MemType, WithRefs

(* iget *)
LEMMA IgetEffect ==
    ASSUME NEW s, NEW u, NEW F, Grows(s, u, F), NEW i \in Inum, u.ref[i] \in Nat,
           \A j \in Inum : s.ref[j] > 0 => u.ref[j] > 0
    PROVE  LET t == Iget(u, i) IN
           t.ok => /\ u.ok /\ t \in MemType /\ Grows(s, t, F)
                   /\ t.ref = [u.ref EXCEPT ![i] = @ + 1]
                   /\ t.inode = u.inode /\ t.copy = u.copy /\ t.wrote = u.wrote
                   /\ \A j \in Inum : u.ref[j] > 0 /\ u.valid[j] => t.valid[j]
  <1> DEFINE t == Iget(u, i)
  <1>3. SUFFICES ASSUME t.ok
               PROVE  /\ u.ok /\ t \in MemType /\ Grows(s, t, F)
                      /\ t.ref = [u.ref EXCEPT ![i] = @ + 1]
                      /\ t.inode = u.inode /\ t.copy = u.copy /\ t.wrote = u.wrote
                      /\ \A j \in Inum : u.ref[j] > 0 /\ u.valid[j] => t.valid[j]
    OBVIOUS
  <1>0. u \in MemType /\ Healthy(u)
    BY HealthyTyped DEF Grows
  <1>1. CASE u.ref[i] > 0
    <2>1. t = [u EXCEPT !.ref[i] = @ + 1]
      BY <1>1 DEF Iget
    <2>2. /\ t \in MemType
          /\ t.inode = u.inode /\ t.dir = u.dir /\ t.ref = [u.ref EXCEPT ![i] = @ + 1]
          /\ t.valid = u.valid /\ t.copy = u.copy /\ t.wrote = u.wrote /\ t.ok = u.ok
      <3> DEFINE r == [u.ref EXCEPT ![i] = @ + 1]
      <3>1. r \in [Inum -> Int] /\ u.valid \in [Inum -> BOOLEAN]
        BY <1>0 DEF MemType
      <3>2. t = WithRefs(u, r, u.valid)
        BY <1>0, <2>1 DEF MemType, WithRefs
      <3> HIDE DEF t, r
      <3>3. /\ t \in MemType
            /\ t.inode = u.inode /\ t.dir = u.dir /\ t.ref = r
            /\ t.valid = u.valid /\ t.copy = u.copy /\ t.wrote = u.wrote /\ t.ok = u.ok
        BY <1>0, <3>1, <3>2, RefsStored
      <3> QED
        BY <3>3 DEF r
    <2> HIDE DEF t
    <2>3. Healthy(t)
      BY <1>0, <2>2, HealthyWith
    <2>4. Grows(s, t, F)
      BY <2>2, <2>3 DEF Grows
    <2> QED
      BY <1>3, <2>2, <2>4
  <1>2. CASE u.ref[i] = 0
    <2>1. t = [u EXCEPT !.ref[i] = 1, !.valid[i] = FALSE]
      <3>1. t = IF Cardinality({j \in Inum : u.ref[j] > 0}) = NINODE THEN [u EXCEPT !.ok = FALSE]
                ELSE [u EXCEPT !.ref[i] = 1, !.valid[i] = FALSE]
        BY <1>2 DEF Iget
      <3> HIDE DEF t
      <3>2. t # [u EXCEPT !.ok = FALSE]
        BY <1>0, <1>3 DEF MemType
      <3> QED
        BY <3>1, <3>2
    <2>2. /\ t \in MemType
          /\ t.inode = u.inode /\ t.dir = u.dir /\ t.ref = [u.ref EXCEPT ![i] = 1]
          /\ t.valid = [u.valid EXCEPT ![i] = FALSE] /\ t.copy = u.copy /\ t.wrote = u.wrote
          /\ t.ok = u.ok
      <3> DEFINE r == [u.ref EXCEPT ![i] = 1]
                 v == [u.valid EXCEPT ![i] = FALSE]
      <3>1. r \in [Inum -> Int] /\ v \in [Inum -> BOOLEAN]
        BY <1>0 DEF MemType
      <3>2. t = WithRefs(u, r, v)
        BY <1>0, <2>1 DEF MemType, WithRefs
      <3> HIDE DEF t, r, v
      <3>3. /\ t \in MemType
            /\ t.inode = u.inode /\ t.dir = u.dir /\ t.ref = r
            /\ t.valid = v /\ t.copy = u.copy /\ t.wrote = u.wrote /\ t.ok = u.ok
        BY <1>0, <3>1, <3>2, RefsStored
      <3> QED
        BY <3>3 DEF r, v
    <2> HIDE DEF t
    <2>3. u.valid \in [Inum -> BOOLEAN]
      BY <1>0 DEF MemType
    <2>4. \A j \in Inum : InodeOK(t, j)
      BY <1>0, <2>2, <2>3, HealthyIs DEF InodeOK
    <2>5. \A b \in Addr : \A o \in 0 .. DPB - 1 : EntryOK(t, t.dir[b][o])
      BY <1>0, <2>2, HealthyIs DEF EntryOK
    <2>6. Healthy(t)
      BY <1>0, <2>2, <2>4, <2>5, HealthyIs
    <2>7. Grows(s, t, F)
      BY <1>2, <2>2, <2>3, <2>6 DEF Grows
    <2>8. \A j \in Inum : u.ref[j] > 0 /\ u.valid[j] => t.valid[j]
      BY <1>2, <2>2, <2>3
    <2> QED
      BY <1>2, <1>3, <2>2, <2>7, <2>8
  <1> QED
    BY <1>1, <1>2

(* iput and idup *)
One(a, b) == IF a = b THEN 1 ELSE 0

(* iput and idup change the references of one inode, by one. *)
LEMMA RefEffect ==
    ASSUME NEW s, NEW u, NEW F, Grows(s, u, F), NEW i \in Inum, NEW t,
           t = Iput(u, i) \/ t = Idup(u, i)
    PROVE  /\ t \in MemType /\ Grows(s, t, F) /\ u \in MemType
           /\ t.ok = u.ok /\ t.inode = u.inode /\ t.copy = u.copy /\ t.wrote = u.wrote /\ t.valid = u.valid
           /\ t = Iput(u, i) => \A j \in Inum : t.ref[j] = u.ref[j] - One(i, j) /\ u.ref[j] \in Int
           /\ t = Idup(u, i) => \A j \in Inum : t.ref[j] = u.ref[j] + One(i, j) /\ u.ref[j] \in Int
  <1>0. u \in MemType /\ Healthy(u)
    BY HealthyTyped DEF Grows
  <1> DEFINE r == IF t = Iput(u, i) THEN [u.ref EXCEPT ![i] = @ - 1] ELSE [u.ref EXCEPT ![i] = @ + 1]
  <1>1. r \in [Inum -> Int] /\ u.valid \in [Inum -> BOOLEAN]
    BY <1>0 DEF MemType
  <1>2. t = WithRefs(u, r, u.valid)
    <2>1. Iput(u, i) = [u EXCEPT !.ref = [u.ref EXCEPT ![i] = @ - 1], !.valid = u.valid]
      BY <1>0 DEF MemType, Iput
    <2>2. Idup(u, i) = [u EXCEPT !.ref = [u.ref EXCEPT ![i] = @ + 1], !.valid = u.valid]
      BY <1>0 DEF MemType, Idup
    <2> QED
      BY <2>1, <2>2 DEF WithRefs
  <1>3. Iput(u, i) # Idup(u, i)
    BY <1>0 DEF MemType, Iput, Idup
  <1>4. /\ t \in MemType
        /\ t.inode = u.inode /\ t.dir = u.dir
        /\ t.valid = u.valid /\ t.copy = u.copy /\ t.wrote = u.wrote /\ t.ok = u.ok /\ t.ref = r
    <2> HIDE DEF r
    <2> QED
      BY <1>0, <1>1, <1>2, RefsStored
  <1>5. /\ t = Iput(u, i) => \A j \in Inum : t.ref[j] = u.ref[j] - One(i, j) /\ u.ref[j] \in Int
        /\ t = Idup(u, i) => \A j \in Inum : t.ref[j] = u.ref[j] + One(i, j) /\ u.ref[j] \in Int
    BY <1>0, <1>3, <1>4 DEF MemType, One
  <1>6. Healthy(t)
    BY <1>0, <1>4, HealthyWith
  <1> QED
    BY <1>0, <1>4, <1>5, <1>6 DEF Grows

-----------------------------------------------------------------------------
(* An inode gets n links, and is written. *)
WithLinks(s, i, n) == Iupdate([s EXCEPT !.copy[i].nlink = n], i)

(* An inode with another number of links, written back. *)
LEMMA Relinked ==
    ASSUME NEW s \in MemType, NEW i \in Inum, NEW n \in Nat \ {0},
           s.valid[i], s.copy[i] = s.inode[i], s.inode[i].type # "free", HoleFree(s.inode[i]),
           \A j \in Inum \ {i} : InodeOK(s, j),
           \A b \in Addr : \A o \in 0 .. DPB - 1 : EntryOK(s, s.dir[b][o]),
           i # ROOTINO => s.inode[ROOTINO].nlink > 0
    PROVE  LET t == WithLinks(s, i, n) IN
           /\ t \in MemType /\ Healthy(t)
           /\ t.ref = s.ref /\ t.valid = s.valid /\ t.ok = s.ok
           /\ t.wrote = s.wrote \cup {InodeBlock(i)}
           /\ \A j \in Inum \ {i} : t.inode[j] = s.inode[j] /\ t.copy[j] = s.copy[j]
           /\ t.inode[i] = t.copy[i]
           /\ t.copy[i].nlink = n /\ t.copy[i].type = s.copy[i].type /\ t.copy[i].size = s.copy[i].size
           /\ t.copy[i].addrs = s.copy[i].addrs /\ t.copy[i].ind = s.copy[i].ind
  <1> DEFINE c == [s.copy[i] EXCEPT !.nlink = n]
             v == [s EXCEPT !.copy[i] = c]
             t == Iupdate(v, i)
  <1>1. s.copy[i] \in InodeType
    BY CopyTyped
  <1>2. /\ c \in InodeType /\ c.ind = s.copy[i].ind /\ c.addrs = s.copy[i].addrs
        /\ c.type = s.copy[i].type /\ c.nlink = n /\ c.size = s.copy[i].size
    BY <1>1, NlinkSet
  <1>3. [s EXCEPT !.copy[i].nlink = n] = v
    BY DEF MemType
  <1> HIDE DEF c
  <1>4. /\ v \in MemType
        /\ v.inode = s.inode /\ v.dir = s.dir /\ v.ref = s.ref
        /\ v.valid = s.valid /\ v.wrote = s.wrote /\ v.ok = s.ok
        /\ v.copy[i] = c /\ \A j \in Inum \ {i} : v.copy[j] = s.copy[j]
    BY <1>2, CopyStored
  <1> HIDE DEF v
  <1>5. /\ t \in MemType
        /\ t.dir = v.dir /\ t.ref = v.ref
        /\ t.valid = v.valid /\ t.copy = v.copy /\ t.ok = v.ok
        /\ t.inode[i] = v.copy[i] /\ \A j \in Inum \ {i} : t.inode[j] = v.inode[j]
        /\ t.wrote = v.wrote \cup {InodeBlock(i)}
    BY <1>4, IupdateEffect
  <1> HIDE DEF t
  <1>6. t.copy[i] = c /\ t.inode[i] = c /\ HoleFree(c)
    BY <1>2, <1>4, <1>5 DEF HoleFree
  <1>7. \A j \in Inum \ {i} : t.inode[j] = s.inode[j] /\ t.copy[j] = s.copy[j]
    BY <1>4, <1>5
  <1>8. \A j \in Inum : InodeOK(t, j)
    <2> TAKE j \in Inum
    <2>1. CASE j = i
      BY <1>2, <1>6, <2>1 DEF InodeOK
    <2>2. CASE j # i
      <3>1. InodeOK(s, j) /\ t.valid[j] = s.valid[j]
        BY <1>4, <1>5, <2>2
      <3> QED
        BY <1>7, <2>2, <3>1 DEF InodeOK
    <2> QED
      BY <2>1, <2>2
  <1>9. \A j \in Inum : s.inode[j].nlink > 0 => t.inode[j].nlink > 0
    BY <1>2, <1>6, <1>7
  <1>10. \A b \in Addr : \A o \in 0 .. DPB - 1 : EntryOK(t, t.dir[b][o])
    <2> TAKE b \in Addr
    <2> TAKE o \in 0 .. DPB - 1
    <2>1. s.dir[b][o] \in Dirent /\ EntryOK(s, s.dir[b][o]) /\ t.dir[b][o] = s.dir[b][o]
      BY <1>4, <1>5, DirTyped
    <2>2. s.dir[b][o].inum # 0 => s.dir[b][o].inum \in Inum
      BY <2>1 DEF Dirent, NoEnt
    <2> QED
      BY <1>9, <2>1, <2>2 DEF EntryOK
  <1>11. t.inode[ROOTINO].nlink > 0
    BY <1>2, <1>6, <1>9, Sizes1
  <1>12. Healthy(t)
    BY <1>5, <1>8, <1>10, <1>11, HealthyIs
  <1>13. WithLinks(s, i, n) = t
    BY <1>3 DEF t, WithLinks
  <1> HIDE DEF t
  <1>14. t.ref = s.ref /\ t.valid = s.valid /\ t.ok = s.ok /\ t.wrote = s.wrote \cup {InodeBlock(i)}
    BY <1>4, <1>5
  <1> QED
    BY <1>2, <1>5, <1>6, <1>7, <1>12, <1>13, <1>14

(* create: the inode that ialloc gave is read, and gets its link.          *)
Filling(p) ==
    /\ Healthy(fs) /\ fs.wrote = {} /\ fs.ok
    /\ loc[p].ip \in Inum /\ fs.inode[loc[p].ip].nlink = 0 /\ fs.inode[loc[p].ip].type # "free"
    /\ fs.inode[loc[p].ip].size = 0
    /\ loc[p].dp \in Inum /\ fs.inode[loc[p].dp].nlink > 0 /\ fs.valid[loc[p].dp]
    /\ Name1(p) \in Name \cup {".", ".."}

(* create gives its inode a link, and changes no other. *)
LEMMA FreshEffect ==
    ASSUME NEW p, Filling(p)
    PROVE  LET i == loc[p].ip
               t == Fresh(p)
           IN  /\ t \in MemType /\ Healthy(t)
               /\ t.ref = fs.ref /\ t.ok /\ t.wrote = {InodeBlock(i)}
               /\ t.valid[i] /\ \A j \in Inum : fs.valid[j] => t.valid[j]
               /\ \A j \in Inum \ {i} : t.inode[j] = fs.inode[j] /\ t.copy[j] = fs.copy[j]
               /\ t.inode[i] = t.copy[i]
               /\ t.copy[i].nlink = 1 /\ t.copy[i].type = fs.inode[i].type
               /\ t.copy[i].size = fs.inode[i].size
  <1> DEFINE i == loc[p].ip
             s == Ilock(fs, i)
             t == Fresh(p)
             c == fs.inode[i]
  <1>0. /\ fs \in MemType /\ i \in Inum /\ c.nlink = 0 /\ c.type # "free" /\ fs.ok
        /\ fs.wrote = {} /\ \A j \in Inum : InodeOK(fs, j)
    BY HealthyTyped, HealthyIs DEF Filling
  <1>1. ~fs.valid[i]
    BY <1>0 DEF InodeOK
  <1>2. c \in InodeType /\ fs.valid \in [Inum -> BOOLEAN] /\ fs.copy \in [Inum -> InodeType]
    BY <1>0, CopyTyped DEF MemType
  <1>3. /\ s \in MemType /\ s.inode = fs.inode /\ s.dir = fs.dir /\ s.ref = fs.ref
        /\ s.wrote = fs.wrote /\ s.ok
        /\ s.copy = [fs.copy EXCEPT ![i] = c] /\ s.valid = [fs.valid EXCEPT ![i] = TRUE]
    <2>1. s = [fs EXCEPT !.copy[i] = c, !.valid[i] = TRUE, !.ok = TRUE]
      BY <1>0, <1>1 DEF Ilock
    <2> HIDE DEF s, i, c
    <2> QED
      BY <1>0, <1>2, <2>1 DEF MemType
  <1>4. t = WithLinks(s, i, 1)
    BY DEF Fresh, WithLinks
  <1> HIDE DEF s, t
  <1>5. s.valid[i] /\ s.copy[i] = c /\ s.inode[i] = c /\ HoleFree(c)
    BY <1>0, <1>2, <1>3 DEF InodeOK
  <1>6. \A j \in Inum \ {i} : InodeOK(s, j) /\ s.copy[j] = fs.copy[j]
    <2> TAKE j \in Inum \ {i}
    <2>1. InodeOK(fs, j) /\ s.copy[j] = fs.copy[j] /\ s.valid[j] = fs.valid[j]
      BY <1>0, <1>2, <1>3
    <2> QED
      BY <1>3, <2>1 DEF InodeOK
  <1>7. /\ \A b \in Addr : \A o \in 0 .. DPB - 1 : EntryOK(s, s.dir[b][o])
        /\ s.inode[ROOTINO].nlink > 0
    <2>1. /\ \A b \in Addr : \A o \in 0 .. DPB - 1 : EntryOK(fs, fs.dir[b][o])
          /\ fs.inode[ROOTINO].nlink > 0
      <3>1. fs \in MemType /\ Healthy(fs)
        BY <1>0 DEF Filling
      <3> QED
        BY <3>1, HealthyIs
    <2>2. s.dir = fs.dir /\ s.inode = fs.inode
      BY <1>3
    <2> HIDE DEF s
    <2> QED
      BY <2>1, <2>2 DEF EntryOK
  <1>8. /\ t \in MemType /\ Healthy(t)
        /\ t.ref = s.ref /\ t.valid = s.valid /\ t.ok = s.ok
        /\ t.wrote = s.wrote \cup {InodeBlock(i)}
        /\ \A j \in Inum \ {i} : t.inode[j] = s.inode[j] /\ t.copy[j] = s.copy[j]
        /\ t.inode[i] = t.copy[i]
        /\ t.copy[i].nlink = 1 /\ t.copy[i].type = s.copy[i].type /\ t.copy[i].size = s.copy[i].size
    <2>1. 1 \in Nat \ {0} /\ s \in MemType /\ i \in Inum
      BY <1>0, <1>3
    <2>2. s.valid[i] /\ s.copy[i] = s.inode[i] /\ s.inode[i].type # "free" /\ HoleFree(s.inode[i])
      BY <1>0, <1>5
    <2>3. /\ \A j \in Inum \ {i} : InodeOK(s, j)
          /\ i # ROOTINO => s.inode[ROOTINO].nlink > 0
      BY <1>6, <1>7
    <2>4. \A b \in Addr : \A o \in 0 .. DPB - 1 : EntryOK(s, s.dir[b][o])
      BY <1>7
    <2> HIDE DEF i, c
    <2> QED
      BY <1>4, <2>1, <2>2, <2>3, <2>4, Relinked
  <1>9. \A j \in Inum : fs.valid[j] => t.valid[j]
    BY <1>2, <1>3, <1>8
  <1>10. t.valid[i]
    BY <1>5, <1>8
  <1>11. /\ t.ref = fs.ref /\ t.ok /\ t.wrote = {InodeBlock(i)}
         /\ t.copy[i].type = c.type /\ t.copy[i].size = c.size
    BY <1>0, <1>3, <1>5, <1>8
  <1>12. \A j \in Inum \ {i} : t.inode[j] = fs.inode[j] /\ t.copy[j] = fs.copy[j]
    BY <1>3, <1>6, <1>8
  <1> QED
    BY <1>8, <1>9, <1>10, <1>11, <1>12 DEF t

-----------------------------------------------------------------------------
(* What a write to inode i leaves as it was. *)
Touched(u, t, i) ==
    /\ t.ref = u.ref /\ t.valid = u.valid
    /\ \A j \in Inum \ {i} : t.inode[j] = u.inode[j] /\ t.copy[j] = u.copy[j]
    /\ t.copy[i].type = u.copy[i].type

(* A dirlink after other steps of create. *)
LEMMA GrowsTouched ==
    ASSUME NEW s \in MemType, NEW u, NEW t, NEW F, Grows(s, u, F), NEW i \in Inum, u.valid[i],
           i \in F \/ s.inode[i].nlink > 0, Healthy(t), Touched(u, t, i)
    PROVE  Grows(s, t, F) /\ t.inode[i].nlink > 0 /\ t.valid[i] /\ t.ref = u.ref /\ t.copy[i] = t.inode[i]
  <1>1. u \in MemType /\ t \in MemType /\ Healthy(u)
    BY HealthyTyped DEF Grows
  <1>3. u.copy[i] = u.inode[i] /\ u.inode[i].nlink > 0
    BY <1>1, HealthyIs DEF InodeOK
  <1>4. t.valid[i] /\ t.copy[i] = t.inode[i] /\ t.inode[i].nlink > 0
    BY <1>1, HealthyIs DEF InodeOK, Touched
  <1>5. t.inode[i].type = u.inode[i].type
    BY <1>3, <1>4 DEF Touched
  <1>6. ASSUME NEW j \in Inum
        PROVE  /\ s.inode[j].nlink > 0 => t.inode[j].nlink > 0
               /\ s.inode[j].type # "free" => t.inode[j].type = s.inode[j].type
               /\ j \notin F /\ s.inode[j].type # "free" /\ s.inode[j].nlink = 0 => t.inode[j] = s.inode[j]
               /\ s.copy[j].type # "free" => t.copy[j].type = s.copy[j].type
               /\ s.valid[j] /\ s.ref[j] > 0 => t.valid[j]
    <2>1. CASE j = i
      BY <1>4, <1>5, <2>1 DEF Grows, Touched
    <2>2. CASE j # i
      <3>1. t.inode[j] = u.inode[j] /\ t.copy[j] = u.copy[j] /\ t.valid = u.valid
        BY <2>2 DEF Touched
      <3> QED
        BY <3>1 DEF Grows
    <2> QED
      BY <2>1, <2>2
  <1> QED
    BY <1>4, <1>6 DEF Grows, Touched

(* dirlink *)
LEMMA DirlinkTouches ==
    ASSUME NEW s \in MemType, NEW u \in MemType, NEW F, NEW i \in Inum,
           NEW name \in Name \cup {".", ".."}, NEW inum \in Inum,
           u.ok => Grows(s, u, F) /\ u.valid[i] /\ u.inode[inum].nlink > 0,
           i \in F \/ s.inode[i].nlink > 0
    PROVE  LET t  == Dirlink(u, i, name, inum)
               bn == FreeEntry(u, u.copy[i]) \div DPB
           IN  /\ t \in MemType
               /\ t.ok => /\ u.ok /\ Grows(s, t, F) /\ Touched(u, t, i) /\ t.inode[i].nlink > 0
                          /\ Written(u, t, i)
                          /\ OneWrite(u, t, i, bn) /\ bn \in 0 .. MAXFILE - 1
                          /\ t.copy[i].addrs[bn] # 0
                          /\ t.copy[i].size <= u.copy[i].size + 1
  <1> DEFINE t  == Dirlink(u, i, name, inum)
             bn == FreeEntry(u, u.copy[i]) \div DPB
  <1>1. u.ok => Healthy(u)
    BY DEF Grows
  <1>2. /\ t \in MemType
        /\ t.ok => /\ u.ok /\ Healthy(t) /\ Written(u, t, i)
                   /\ OneWrite(u, t, i, bn) /\ bn \in 0 .. MAXFILE - 1
                   /\ t.copy[i].addrs[bn] # 0
                   /\ t.copy[i].size <= u.copy[i].size + 1
    BY <1>1, DirlinkEffect
  <1> HIDE DEF t, bn
  <1>3. ASSUME t.ok PROVE Touched(u, t, i)
    BY <1>2, <1>3 DEF Touched, Written
  <1>4. ASSUME t.ok PROVE Grows(s, t, F) /\ t.inode[i].nlink > 0
    BY <1>2, <1>3, <1>4, GrowsTouched
  <1> QED
    BY <1>2, <1>3, <1>4 DEF t, bn

(* What dirlink makes of u, when it panics and when it does not. *)
LinkedBy(s, u, t, F, i) ==
    LET bn == FreeEntry(u, u.copy[i]) \div DPB IN
    /\ t \in MemType
    /\ t.ok => /\ u.ok /\ Grows(s, t, F) /\ Touched(u, t, i) /\ t.inode[i].nlink > 0
               /\ Written(u, t, i)
               /\ OneWrite(u, t, i, bn) /\ bn \in 0 .. MAXFILE - 1
               /\ t.copy[i].addrs[bn] # 0
               /\ t.copy[i].size <= u.copy[i].size + 1

(* dirlink, with what it makes under one name. *)
LEMMA DirlinkLinks ==
    ASSUME NEW s \in MemType, NEW u \in MemType, NEW F, NEW i \in Inum,
           NEW name \in Name \cup {".", ".."}, NEW inum \in Inum,
           u.ok => Grows(s, u, F) /\ u.valid[i] /\ u.inode[inum].nlink > 0,
           i \in F \/ s.inode[i].nlink > 0
    PROVE  LinkedBy(s, u, Dirlink(u, i, name, inum), F, i)
  BY DirlinkTouches, ZenonT(60) DEF LinkedBy

(* The inode of create, as it is in the cache after its ilock. *)
LEMMA FreshGrows ==
    ASSUME NEW p, Filling(p)
    PROVE  LET i == loc[p].ip
               t == Fresh(p)
           IN  /\ t \in MemType /\ Grows(fs, t, {i})
               /\ t.ref = fs.ref /\ t.ok /\ t.wrote = {InodeBlock(i)}
               /\ t.valid[i] /\ \A j \in Inum : fs.valid[j] => t.valid[j]
               /\ t.inode[i].nlink > 0 /\ t.copy[i].size = 0
  <1> DEFINE i == loc[p].ip
             t == Fresh(p)
  <1>1. /\ t \in MemType /\ Healthy(t)
        /\ t.ref = fs.ref /\ t.ok /\ t.wrote = {InodeBlock(i)}
        /\ t.valid[i] /\ \A j \in Inum : fs.valid[j] => t.valid[j]
        /\ \A j \in Inum \ {i} : t.inode[j] = fs.inode[j] /\ t.copy[j] = fs.copy[j]
        /\ t.inode[i] = t.copy[i]
        /\ t.copy[i].nlink = 1 /\ t.copy[i].type = fs.inode[i].type
        /\ t.copy[i].size = fs.inode[i].size
    BY FreshEffect
  <1>2. fs \in MemType /\ i \in Inum /\ fs.inode[i].nlink = 0 /\ fs.inode[i].size = 0 /\ InodeOK(fs, i)
    BY HealthyTyped, HealthyIs DEF Filling
  <1> HIDE DEF t, i
  <1>3. ASSUME NEW j \in Inum
        PROVE  /\ fs.inode[j].nlink > 0 => t.inode[j].nlink > 0
               /\ fs.inode[j].type # "free" => t.inode[j].type = fs.inode[j].type
               /\ j \notin {i} /\ fs.inode[j].type # "free" /\ fs.inode[j].nlink = 0 => t.inode[j] = fs.inode[j]
               /\ fs.copy[j].type # "free" => t.copy[j].type = fs.copy[j].type
               /\ fs.valid[j] /\ fs.ref[j] > 0 => t.valid[j]
    <2>1. CASE j = i
      BY <1>1, <1>2, <2>1 DEF InodeOK
    <2>2. CASE j # i
      BY <1>1, <2>2
    <2> QED
      BY <2>1, <2>2
  <1>4. Grows(fs, t, {i})
    BY <1>1, <1>3 DEF Grows
  <1> QED
    BY <1>1, <1>2, <1>4 DEF t, i

-----------------------------------------------------------------------------
(* Another link for an inode. *)
Relink(s, i) == WithLinks(s, i, s.copy[i].nlink + 1)

(* The link of the parent, after other steps of create. *)
LEMMA RelinkTouches ==
    ASSUME NEW s \in MemType, NEW u, NEW F, Grows(s, u, F), NEW i \in Inum, u.valid[i],
           i \in F \/ s.inode[i].nlink > 0
    PROVE  LET t == Relink(u, i) IN
           /\ t \in MemType /\ Grows(s, t, F)
           /\ t.ref = u.ref /\ t.valid = u.valid /\ t.ok = u.ok
           /\ t.wrote = u.wrote \cup {InodeBlock(i)}
           /\ \A j \in Inum \ {i} : t.copy[j] = u.copy[j] /\ t.inode[j] = u.inode[j]
  <1> DEFINE n == u.copy[i].nlink + 1
             t == WithLinks(u, i, n)
  <1>1. u \in MemType /\ Healthy(u)
    BY HealthyTyped DEF Grows
  <1>2. /\ \A j \in Inum : InodeOK(u, j)
        /\ \A b \in Addr : \A o \in 0 .. DPB - 1 : EntryOK(u, u.dir[b][o])
        /\ u.inode[ROOTINO].nlink > 0
    BY <1>1, HealthyIs
  <1>3. /\ u.copy[i] = u.inode[i] /\ HoleFree(u.inode[i]) /\ u.inode[i].nlink \in Nat
        /\ u.inode[i].nlink > 0 /\ u.inode[i].type # "free"
    BY <1>1, <1>2, CopyTyped, InodeFields DEF InodeOK
  <1>4. n \in Nat \ {0}
    BY <1>3
  <1>5. \A j \in Inum \ {i} : InodeOK(u, j)
    BY <1>2
  <1> HIDE DEF n
  <1>6. /\ t \in MemType /\ Healthy(t)
        /\ t.ref = u.ref /\ t.valid = u.valid /\ t.ok = u.ok
        /\ t.wrote = u.wrote \cup {InodeBlock(i)}
        /\ \A j \in Inum \ {i} : t.inode[j] = u.inode[j] /\ t.copy[j] = u.copy[j]
        /\ t.copy[i].type = u.copy[i].type
    BY <1>1, <1>2, <1>3, <1>4, <1>5, Relinked
  <1> HIDE DEF t
  <1>7. Touched(u, t, i)
    BY <1>6 DEF Touched
  <1>8. Grows(s, t, F)
    BY <1>6, <1>7, GrowsTouched
  <1>9. Relink(u, i) = t
    BY DEF Relink, t, n
  <1> QED
    BY <1>6, <1>8, <1>9

(* The new inode, with its dots if it is a directory. *)
LEMMA FurnishedEffect ==
    ASSUME NEW p, Filling(p)
    PROVE  LET i == loc[p].ip
               dp == loc[p].dp
               t == Furnished(p)
           IN  /\ t \in MemType
               /\ t.ok =>
                  /\ Grows(fs, t, {i}) /\ t.ref = fs.ref /\ t.valid[i] /\ t.valid[dp]
                  /\ t.inode[i].nlink > 0
                  /\ DPB >= 2 => \E b \in Addr \cup {0} :
                        t.wrote \subseteq {InodeBlock(i), InodeBlock(dp), Bitmap, Data(b)}
  <1> DEFINE i  == loc[p].ip
             dp == loc[p].dp
             u  == Fresh(p)
             v  == Relink(u, dp)
             w  == Dot(v, i)
             x  == Dots(v, i, dp)
             t  == Furnished(p)
  <1>0. fs \in MemType /\ i \in Inum /\ dp \in Inum /\ i # dp /\ fs.inode[dp].nlink > 0
    BY HealthyTyped DEF Filling
  <1>1. /\ u \in MemType /\ Grows(fs, u, {i})
        /\ u.ref = fs.ref /\ u.ok /\ u.wrote = {InodeBlock(i)}
        /\ u.valid[i] /\ u.valid[dp]
        /\ u.inode[i].nlink > 0 /\ u.copy[i].size = 0
    BY FreshGrows DEF Filling
  <1>2. CASE loc[p].call # "mkdir"
    <2>1. t = u
      BY <1>2 DEF Furnished
    <2>2. u.wrote \subseteq {InodeBlock(i), InodeBlock(dp), Bitmap, Data(0)}
      BY <1>1
    <2> HIDE DEF t, u, i, dp
    <2>3. \E b \in Addr \cup {0} : t.wrote \subseteq {InodeBlock(i), InodeBlock(dp), Bitmap, Data(b)}
      BY <2>1, <2>2
    <2> QED
      BY <1>1, <2>1, <2>3 DEF t, i, dp
  <1>3. CASE loc[p].call = "mkdir"
    <2>1. t = x
      <3>1. t = Dots(Iupdate([u EXCEPT !.copy[dp].nlink = @ + 1], dp), i, dp)
        BY <1>3 DEF Furnished
      <3>2. [u EXCEPT !.copy[dp].nlink = @ + 1] = [u EXCEPT !.copy[dp].nlink = u.copy[dp].nlink + 1]
        BY <1>0, <1>1 DEF MemType
      <3>3. v = Iupdate([u EXCEPT !.copy[dp].nlink = u.copy[dp].nlink + 1], dp)
        BY DEF WithLinks, Relink
      <3> HIDE DEF t, v, u
      <3> QED
        BY <3>1, <3>2, <3>3
    <2> HIDE DEF u
    <2>2. /\ v \in MemType /\ Grows(fs, v, {i})
          /\ v.ref = u.ref /\ v.valid = u.valid /\ v.ok = u.ok
          /\ v.wrote = u.wrote \cup {InodeBlock(dp)}
          /\ v.copy[i] = u.copy[i] /\ v.inode[i] = u.inode[i]
      <3>1. Grows(fs, u, {i}) /\ u.valid[dp]
        BY <1>1
      <3> HIDE DEF i, dp
      <3> QED
        BY <1>0, <3>1, RelinkTouches
    <2> HIDE DEF v
    <2>3. "." \in Name \cup {".", ".."} /\ ".." \in Name \cup {".", ".."} /\ i \in {i}
      OBVIOUS
    <2> DEFINE bw == FreeEntry(v, v.copy[i]) \div DPB
               bx == FreeEntry(w, w.copy[i]) \div DPB
    <2>4. /\ w \in MemType
          /\ w.ok => /\ v.ok /\ Grows(fs, w, {i}) /\ Touched(v, w, i) /\ w.inode[i].nlink > 0
                     /\ Written(v, w, i)
                     /\ OneWrite(v, w, i, bw) /\ bw \in 0 .. MAXFILE - 1
                     /\ w.copy[i].addrs[bw] # 0
                     /\ w.copy[i].size <= v.copy[i].size + 1
      <3>1. w = Dirlink(v, i, ".", i)
        BY DEF Dot
      <3> HIDE DEF w, i
      <3>2. v.ok => Grows(fs, v, {i}) /\ v.valid[i] /\ v.inode[i].nlink > 0
        BY <1>1, <2>2
      <3>3. v \in MemType /\ fs \in MemType /\ i \in Inum
        BY <1>0, <2>2
      <3>4. LinkedBy(fs, v, w, {i}, i)
        BY <2>3, <3>1, <3>2, <3>3, DirlinkLinks
      <3> QED
        BY <3>4 DEF LinkedBy
    <2>5. w.ok => w.valid[i]
      BY <1>1, <2>2, <2>4 DEF Touched
    <2>6. w.ok => w.inode[dp].nlink > 0
      BY <1>0, <2>4 DEF Grows
    <2> HIDE DEF bw
    <2>7. /\ x \in MemType
          /\ x.ok => /\ w.ok /\ Grows(fs, x, {i}) /\ Touched(w, x, i) /\ x.inode[i].nlink > 0
                     /\ Written(w, x, i)
                     /\ OneWrite(w, x, i, bx)
      <3>1. x = Dirlink(w, i, "..", dp)
        BY DEF Dots
      <3> HIDE DEF w, x, i, dp
      <3> QED
        BY <1>0, <2>3, <2>4, <2>5, <2>6, <3>1, DirlinkTouches
    <2>8. ASSUME x.ok PROVE x.ref = fs.ref /\ x.valid[i] /\ x.valid[dp]
      <3> HIDE DEF x, w, i, dp
      <3> QED
        BY <1>0, <1>1, <2>2, <2>4, <2>7, <2>8 DEF Touched
    <2>9. ASSUME x.ok, DPB >= 2
          PROVE  \E b \in Addr \cup {0} :
                    x.wrote \subseteq {InodeBlock(i), InodeBlock(dp), Bitmap, Data(b)}
      <3> HIDE DEF x, i, dp
      <3>1. v.copy[i].size = 0 /\ w.copy[i].size \in Nat /\ w.copy[i].size <= 1
        <4> HIDE DEF w
        <4>1. w.copy[i] \in InodeType /\ MAXFILE * DPB \in Nat
          BY <1>0, <2>4, CopyTyped, Sizes1
        <4>2. w.copy[i].size \in Nat
          BY <4>1, InodeFields
        <4> QED
          BY <1>1, <2>2, <2>4, <2>7, <2>9, <4>2
      <3>2. bw = 0
        <4>1. FreeEntry(v, v.copy[i]) = 0
          BY <1>0, <2>2, <3>1, FreeEntryIn, CopyTyped
        <4> QED
          BY <4>1, BlockOf, Sizes1, <2>9 DEF bw
      <3>3. bx = 0
        <4> HIDE DEF w
        <4>1. FreeEntry(w, w.copy[i]) \in {0, 1}
          BY <1>0, <2>4, <3>1, FreeEntryIn, CopyTyped
        <4>2. DPB \in Nat
          BY Sizes1
        <4> QED
          BY <4>1, <4>2, <2>9 DEF bx
      <3> HIDE DEF bx, w
      <3>4. 0 < NDIRECT /\ 0 \in 0 .. MAXFILE - 1
        BY Sizes1
      <3>5. /\ w.wrote \subseteq v.wrote \cup {Bitmap, InodeBlock(i), Data(w.copy[i].addrs[0])}
            /\ x.wrote \subseteq w.wrote \cup {Bitmap, InodeBlock(i), Data(x.copy[i].addrs[0])}
        BY <2>4, <2>7, <2>9, <3>2, <3>3, <3>4 DEF OneWrite
      <3>6. x.copy[i].addrs[0] = w.copy[i].addrs[0]
        BY <2>4, <2>7, <2>9, <3>2, <3>4 DEF Written
      <3>7. w.copy[i].addrs[0] \in Addr \cup {0}
        BY <1>0, <2>4, <3>4, CopyTyped, InodeFields
      <3> DEFINE b == w.copy[i].addrs[0]
      <3>8. x.wrote \subseteq {InodeBlock(i), InodeBlock(dp), Bitmap, Data(b)}
        BY <1>1, <2>2, <3>5, <3>6
      <3> QED
        BY <3>7, <3>8
    <2> HIDE DEF t, x, i, dp
    <2> QED
      BY <2>1, <2>7, <2>8, <2>9 DEF t, i, dp
  <1> QED
    BY <1>2, <1>3

(* create, under the locks of the new inode and of its directory. *)
LEMMA FilledEffect ==
    ASSUME NEW p, Filling(p)
    PROVE  LET i == loc[p].ip
               dp == loc[p].dp
               t == Filled(p)
           IN  /\ t \in MemType
               /\ t.ok =>
                  /\ Grows(fs, t, {i}) /\ t.ref = fs.ref /\ t.valid[i]
                  /\ t.inode[i].nlink > 0
                  /\ DPB >= 2 => \E b, c, d \in BlockName :
                        t.wrote \subseteq {InodeBlock(i), InodeBlock(dp), Bitmap, b, c, d}
  <1> DEFINE i  == loc[p].ip
             dp == loc[p].dp
             u  == Furnished(p)
             t  == Filled(p)
             bn == FreeEntry(u, u.copy[dp]) \div DPB
  <1>0. fs \in MemType /\ i \in Inum /\ dp \in Inum /\ fs.inode[dp].nlink > 0
        /\ Name1(p) \in Name \cup {".", ".."}
    BY HealthyTyped DEF Filling
  <1>1. /\ u \in MemType
        /\ u.ok =>
            /\ Grows(fs, u, {i}) /\ u.ref = fs.ref /\ u.valid[i] /\ u.valid[dp]
            /\ u.inode[i].nlink > 0
            /\ DPB >= 2 => \E b \in Addr \cup {0} :
                  u.wrote \subseteq {InodeBlock(i), InodeBlock(dp), Bitmap, Data(b)}
    BY FurnishedEffect
  <1>2. t = Dirlink(u, dp, Name1(p), i)
    BY DEF Filled
  <1> HIDE DEF t, u, i, dp
  <1>3. /\ t \in MemType
        /\ t.ok => /\ u.ok /\ Grows(fs, t, {i}) /\ Touched(u, t, dp) /\ t.inode[dp].nlink > 0
                   /\ OneWrite(u, t, dp, bn) /\ bn \in 0 .. MAXFILE - 1
    BY <1>0, <1>1, <1>2, DirlinkTouches
  <1>4. SUFFICES ASSUME t.ok
                 PROVE  /\ Grows(fs, t, {i}) /\ t.ref = fs.ref /\ t.valid[i]
                        /\ t.inode[i].nlink > 0
                        /\ DPB >= 2 => \E b, c, d \in BlockName :
                              t.wrote \subseteq {InodeBlock(i), InodeBlock(dp), Bitmap, b, c, d}
    BY <1>3 DEF t, i, dp
  <1>5. t.ref = fs.ref /\ t.valid[i]
    BY <1>1, <1>3, <1>4 DEF Touched
  <1>6. t.inode[i].nlink > 0
    BY <1>0, <1>3, <1>4, <1>5, HealthyIs DEF Grows, InodeOK
  <1>7. ASSUME DPB >= 2
        PROVE  \E b, c, d \in BlockName :
                  t.wrote \subseteq {InodeBlock(i), InodeBlock(dp), Bitmap, b, c, d}
    <2>1. PICK b \in Addr \cup {0} :
              u.wrote \subseteq {InodeBlock(i), InodeBlock(dp), Bitmap, Data(b)}
      BY <1>1, <1>3, <1>4, <1>7
    <2> DEFINE c == t.copy[dp].addrs[bn]
               d == t.copy[dp].ind
    <2>2. c \in Addr \cup {0} /\ d \in Addr \cup {0}
      BY <1>0, <1>3, <1>4, CopyTyped, InodeFields
    <2>3. t.wrote \subseteq u.wrote \cup {Bitmap, InodeBlock(dp), Data(c), Data(d)}
      BY <1>3, <1>4 DEF OneWrite
    <2>4. Data(b) \in BlockName /\ Data(c) \in BlockName /\ Data(d) \in BlockName
      BY <2>2, BlockNames
    <2>5. t.wrote \subseteq {InodeBlock(i), InodeBlock(dp), Bitmap, Data(b), Data(c), Data(d)}
      BY <2>1, <2>3
    <2> HIDE DEF c, d
    <2> QED
      BY <2>4, <2>5
  <1> QED
    BY <1>3, <1>4, <1>5, <1>6, <1>7

-----------------------------------------------------------------------------
(* ialloc, before its iget. *)
Typed(s, i, type) ==
    [s EXCEPT !.inode[i] = NewInode(type, 0), !.wrote = @ \cup {InodeBlock(i)}]

(* ialloc types an inode that was free. *)
LEMMA TypedEffect ==
    ASSUME NEW s, Healthy(s), NEW i \in FreeInum(s), NEW type \in Type
    PROVE  LET t == Typed(s, i, type) IN
           /\ t \in MemType /\ Grows(s, t, {})
           /\ t.ref = s.ref /\ t.ok = s.ok /\ t.wrote = s.wrote \cup {InodeBlock(i)}
           /\ t.inode[i] = NewInode(type, 0)
  <1> DEFINE t == Typed(s, i, type)
             c == NewInode(type, 0)
  <1>0. s \in MemType /\ i \in Inum /\ s.inode[i].type = "free"
    BY HealthyTyped DEF FreeInum
  <1>1. /\ \A j \in Inum : InodeOK(s, j)
        /\ \A b \in Addr : \A o \in 0 .. DPB - 1 : EntryOK(s, s.dir[b][o])
        /\ s.inode[ROOTINO].nlink > 0
    BY <1>0, HealthyIs
  <1>2. c \in InodeType /\ HoleFree(c) /\ c.nlink = 0
    <2>1. 0 \in 0 .. MAXFILE * DPB /\ MAXFILE \in Nat /\ DPB \in Nat
      BY Sizes1
    <2>2. c = [type |-> type, nlink |-> 0, size |-> 0,
               addrs |-> [bn \in 0 .. MAXFILE - 1 |-> 0], ind |-> 0]
      BY DEF NewInode
    <2>3. [bn \in 0 .. MAXFILE - 1 |-> 0] \in [0 .. MAXFILE - 1 -> Addr \cup {0}]
      OBVIOUS
    <2>4. c \in InodeType /\ c.nlink = 0 /\ c.size = 0
      BY <2>1, <2>2, <2>3 DEF InodeType
    <2>5. \A bn \in 0 .. MAXFILE - 1 : ~ (bn * DPB < 0)
      BY <2>1
    <2> QED
      BY <2>4, <2>5 DEF HoleFree
  <1> HIDE DEF c
  <1>3. InodeBlock(i) \in BlockName
    BY <1>0, BlockNames
  <1>4. /\ t \in MemType
        /\ t.inode = [s.inode EXCEPT ![i] = c] /\ t.dir = s.dir /\ t.ref = s.ref /\ t.valid = s.valid
        /\ t.copy = s.copy /\ t.ok = s.ok /\ t.wrote = s.wrote \cup {InodeBlock(i)}
    BY <1>0, <1>2, <1>3 DEF MemType, Typed, c
  <1> HIDE DEF t
  <1>5. t.inode[i] = c /\ \A j \in Inum \ {i} : t.inode[j] = s.inode[j]
    BY <1>0, <1>2, <1>4 DEF MemType
  <1>6. s.inode[i].nlink = 0 /\ ~s.valid[i] /\ s.copy[i].type = "free"
    BY <1>0, <1>1 DEF InodeOK
  <1>7. \A j \in Inum : InodeOK(t, j)
    <2> TAKE j \in Inum
    <2>1. CASE j = i
      BY <1>2, <1>4, <1>5, <1>6, <2>1 DEF InodeOK
    <2>2. CASE j # i
      <3>1. InodeOK(s, j) /\ t.inode[j] = s.inode[j]
        BY <1>1, <1>5, <2>2
      <3> QED
        BY <1>4, <3>1 DEF InodeOK
    <2> QED
      BY <2>1, <2>2
  <1>8. \A j \in Inum : s.inode[j].nlink > 0 => t.inode[j].nlink > 0
    BY <1>5, <1>6
  <1>9. \A b \in Addr : \A o \in 0 .. DPB - 1 : EntryOK(t, t.dir[b][o])
    <2> TAKE b \in Addr
    <2> TAKE o \in 0 .. DPB - 1
    <2>1. s.dir[b][o] \in Dirent /\ EntryOK(s, s.dir[b][o]) /\ t.dir[b][o] = s.dir[b][o]
      BY <1>0, <1>1, <1>4, DirTyped
    <2>2. s.dir[b][o].inum # 0 => s.dir[b][o].inum \in Inum
      BY <2>1 DEF Dirent, NoEnt
    <2> QED
      BY <1>8, <2>1, <2>2 DEF EntryOK
  <1>10. Healthy(t)
    BY <1>1, <1>4, <1>7, <1>8, <1>9, HealthyIs, Sizes1
  <1>11. Grows(s, t, {})
    BY <1>0, <1>4, <1>5, <1>6, <1>8, <1>10 DEF Grows
  <1> QED
    BY <1>4, <1>5, <1>11 DEF t, c

(* ialloc *)
LEMMA IallocEffect ==
    ASSUME NEW s, Healthy(s), NEW type \in Type, \A j \in Inum : s.ref[j] \in Nat
    PROVE  LET t == Ialloc(s, type)
               i == Min(FreeInum(s))
           IN  t.ok =>
               /\ FreeInum(s) # {} /\ i \in FreeInum(s)
               /\ t \in MemType /\ Grows(s, t, {})
               /\ t.ref = [s.ref EXCEPT ![i] = @ + 1]
               /\ t.inode[i] = NewInode(type, 0)
               /\ t.wrote = s.wrote \cup {InodeBlock(i)}
  <1> DEFINE t == Ialloc(s, type)
             i == Min(FreeInum(s))
             u == Typed(s, i, type)
  <1>1. SUFFICES ASSUME t.ok
                 PROVE  /\ FreeInum(s) # {} /\ i \in FreeInum(s)
                        /\ t \in MemType /\ Grows(s, t, {})
                        /\ t.ref = [s.ref EXCEPT ![i] = @ + 1]
                        /\ t.inode[i] = NewInode(type, 0)
                        /\ t.wrote = s.wrote \cup {InodeBlock(i)}
    OBVIOUS
  <1>2. s \in MemType
    BY HealthyTyped
  <1>3. FreeInum(s) # {} /\ t = Iget(u, i)
    <2>1. t = IF FreeInum(s) = {} THEN [s EXCEPT !.ok = FALSE] ELSE Iget(u, i)
      BY DEF Ialloc, Typed
    <2> HIDE DEF t, u, i
    <2>2. ~[s EXCEPT !.ok = FALSE].ok
      BY <1>2 DEF MemType
    <2> QED
      BY <1>1, <2>1, <2>2
  <1> HIDE DEF t
  <1>4. i \in FreeInum(s) /\ i \in Inum
    <2>1. FreeInum(s) \in SUBSET Nat
      BY Sizes1 DEF FreeInum
    <2> QED
      BY <1>3, <2>1, LeastNumber DEF FreeInum
  <1> HIDE DEF i
  <1>5. /\ u \in MemType /\ Grows(s, u, {})
        /\ u.ref = s.ref /\ u.ok = s.ok /\ u.wrote = s.wrote \cup {InodeBlock(i)}
        /\ u.inode[i] = NewInode(type, 0)
    BY <1>4, TypedEffect
  <1> HIDE DEF u
  <1>6. /\ t \in MemType /\ Grows(s, t, {})
        /\ t.ref = [u.ref EXCEPT ![i] = @ + 1]
        /\ t.inode = u.inode /\ t.wrote = u.wrote
    <2>1. u.ref[i] \in Nat /\ \A j \in Inum : s.ref[j] > 0 => u.ref[j] > 0
      BY <1>4, <1>5
    <2>2. Grows(s, u, {})
      BY <1>5
    <2> QED
      BY <1>1, <1>3, <1>4, <2>1, <2>2, IgetEffect
  <1> QED
    BY <1>3, <1>4, <1>5, <1>6

(* Zeroes from a file only empty entries. *)
LEMMA ZeroedEffect ==
    ASSUME NEW s \in MemType, NEW i, NEW off, NEW n
    PROVE  LET t == Zeroed(s, i, off, n) IN
           /\ t \in MemType /\ t.inode = s.inode /\ t.ref = s.ref /\ t.valid = s.valid
           /\ t.copy = s.copy /\ t.ok = s.ok
           /\ \A b \in Addr : \A o \in 0 .. DPB - 1 : t.dir[b][o] \in {NoEnt, s.dir[b][o]}
  <1> DEFINE t    == Zeroed(s, i, off, n)
             O    == 0 .. DPB - 1
             P(o) == \E bn \in 0 .. MAXFILE - 1 : s.copy[i].addrs[bn] = Off /\ bn * DPB + o \in off .. off + n - 1
             z    == [o \in O |-> IF P(o) THEN NoEnt ELSE s.dir[Off][o]]
  <1>1. s.dir \in [Addr -> [O -> Dirent]] /\ Off \in Addr /\ NoEnt \in Dirent
    BY Sizes1 DEF MemType, Dirent
  <1>2. t = [s EXCEPT !.dir = [s.dir EXCEPT ![Off] = z]]
    BY <1>1 DEF Zeroed, MemType
  <1> HIDE DEF P, t, O
  <1>3. z \in [O -> Dirent] /\ \A o \in O : z[o] \in {NoEnt, s.dir[Off][o]}
    BY <1>1
  <1> HIDE DEF z
  <1> DEFINE g == [s.dir EXCEPT ![Off] = z]
  <1>4. g \in [Addr -> [O -> Dirent]] /\ \A b \in Addr : \A o \in O : g[b][o] \in {NoEnt, s.dir[b][o]}
    BY <1>1, <1>3
  <1>5. t = [s EXCEPT !.dir = g]
    BY <1>2
  <1> HIDE DEF g
  <1>6. /\ t \in MemType /\ t.inode = s.inode /\ t.ref = s.ref /\ t.valid = s.valid
        /\ t.copy = s.copy /\ t.ok = s.ok /\ t.dir = g
    BY <1>4, <1>5 DEF MemType, O
  <1> QED
    BY <1>4, <1>6 DEF t, O

(* ilock and writei *)
LEMMA WriteEffect ==
    ASSUME NEW s, Healthy(s), NEW i \in Inum, s.inode[i].nlink > 0, NEW u, u = Ilock(s, i),
           NEW off \in Nat, NEW n \in Nat \ {0}, ~WriteRefused(u, i, off, n)
    PROVE  LET t == Zeroed(Writei(u, i, off, n), i, off, n) IN
           /\ t \in MemType
           /\ t.ok => /\ s.ok /\ Grows(s, t, {}) /\ t.ref = s.ref /\ t.valid[i]
                      /\ t.copy[i].type = s.inode[i].type /\ t.inode[i].type = s.inode[i].type
  <1> DEFINE w == Writei(u, i, off, n)
             t == Zeroed(w, i, off, n)
  <1>1. /\ u \in MemType /\ Grows(s, u, {})
        /\ u.ref = s.ref /\ u.ok = s.ok
        /\ u.inode = s.inode /\ u.valid[i] /\ u.copy[i] = s.inode[i]
    BY IlockEffect
  <1>2. /\ \A j \in Inum : InodeOK(u, j)
        /\ \A b \in Addr : \A o \in 0 .. DPB - 1 : EntryOK(u, u.dir[b][o])
        /\ u.inode[ROOTINO].nlink > 0
    BY <1>1, HealthyIs DEF Grows
  <1>3. HoleFree(u.copy[i]) /\ u.copy[i] = u.inode[i]
    BY <1>1, <1>2 DEF InodeOK
  <1>4. /\ Written(u, t, i)
        /\ \A b \in Addr : \A o \in 0 .. DPB - 1 : t.dir[b][o] \in {NoEnt, u.dir[b][o]}
    <2>1. /\ Written(u, w, i)
          /\ \A b \in Addr : \A o \in 0 .. DPB - 1 : w.dir[b][o] \in {NoEnt, u.dir[b][o]}
      BY <1>1, <1>3, WriteiEffect
    <2> HIDE DEF w
    <2>2. w \in MemType
      BY <2>1 DEF Written
    <2>3. /\ t \in MemType /\ t.inode = w.inode /\ t.ref = w.ref /\ t.valid = w.valid
          /\ t.copy = w.copy /\ t.ok = w.ok
          /\ \A b \in Addr : \A o \in 0 .. DPB - 1 : t.dir[b][o] \in {NoEnt, w.dir[b][o]}
      BY <2>2, ZeroedEffect
    <2> HIDE DEF t
    <2>4. \A b \in Addr : \A o \in 0 .. DPB - 1 : t.dir[b][o] \in {NoEnt, u.dir[b][o]}
      BY <2>1, <2>3
    <2> QED
      BY <2>1, <2>3, <2>4 DEF Written
  <1> HIDE DEF t, w
  <1>5. ASSUME t.ok PROVE Healthy(t)
    <2>1. \A j \in Inum : InodeOK(t, j)
      <3> TAKE j \in Inum
      <3>1. InodeOK(u, j)
        BY <1>2
      <3>2. CASE j = i
        BY <1>1, <1>3, <1>4, <1>5, <3>1, <3>2 DEF InodeOK, Written
      <3>3. CASE j # i
        <4>1. t.inode[j] = u.inode[j] /\ t.copy[j] = u.copy[j] /\ t.valid = u.valid
          BY <1>4, <3>3 DEF Written
        <4> QED
          BY <3>1, <4>1 DEF InodeOK
      <3> QED
        BY <3>2, <3>3
    <2>2. \A j \in Inum : t.inode[j].nlink = u.inode[j].nlink
      <3> TAKE j \in Inum
      <3>1. CASE j = i
        BY <1>3, <1>4, <1>5, <3>1 DEF Written
      <3>2. CASE j # i
        BY <1>4, <3>2 DEF Written
      <3> QED
        BY <3>1, <3>2
    <2>3. \A b \in Addr : \A o \in 0 .. DPB - 1 : EntryOK(t, t.dir[b][o])
      <3> TAKE b \in Addr
      <3> TAKE o \in 0 .. DPB - 1
      <3>1. u.dir[b][o] \in Dirent /\ EntryOK(u, u.dir[b][o]) /\ t.dir[b][o] \in {NoEnt, u.dir[b][o]}
        BY <1>1, <1>2, <1>4, DirTyped
      <3>2. u.dir[b][o].inum # 0 => u.dir[b][o].inum \in Inum
        BY <3>1 DEF Dirent, NoEnt
      <3>3. CASE t.dir[b][o] = NoEnt
        BY <3>3 DEF EntryOK, NoEnt
      <3>4. CASE t.dir[b][o] = u.dir[b][o]
        BY <2>2, <3>1, <3>2, <3>4 DEF EntryOK
      <3> QED
        BY <3>1, <3>3, <3>4
    <2>4. t \in MemType /\ t.inode[ROOTINO].nlink > 0
      BY <1>2, <1>4, <2>2, Sizes1 DEF Written
    <2> QED
      BY <2>1, <2>3, <2>4, HealthyIs
  <1>6. ASSUME t.ok PROVE Grows(s, t, {})
    <2>1. Touched(u, t, i)
      BY <1>4 DEF Touched, Written
    <2>2. Grows(s, u, {}) /\ u.valid[i] /\ s \in MemType
      BY <1>1, HealthyTyped
    <2> QED
      BY <1>5, <1>6, <2>1, <2>2, GrowsTouched
  <1>7. ASSUME t.ok
        PROVE  /\ u.ok /\ t.ref = s.ref /\ t.valid[i]
               /\ t.copy[i].type = s.inode[i].type /\ t.inode[i].type = s.inode[i].type
    BY <1>1, <1>4, <1>7 DEF Written
  <1>8. u.ok => s.ok
    BY <1>1
  <1>9. t \in MemType
    BY <1>4 DEF Written
  <1> QED
    BY <1>6, <1>7, <1>8, <1>9 DEF t, w

-----------------------------------------------------------------------------
(* Counting. *)
B(P) == IF P THEN 1 ELSE 0

(* What the call of a process counts of references to i, when it is at l   *)
(* with the locals r and the current directory c.                          *)
InDir(c, r, i)   == c = i /\ ~(r.ok /\ r.call = "chdir")
InPath(l, r, i)  == r.ip = i /\ l \in {"walk", "create", "exist", "fill", "alloc"}
InFile(l, r, i)  == r.ip = i /\ l = "end" /\ r.ok
InPlace(l, r, i) == r.dp = i /\ l \in {"ialloc", "fill"}

HeldBy(l, c, r, i) ==
    B(InDir(c, r, i)) + B(InPath(l, r, i)) + B(InFile(l, r, i)) + B(InPlace(l, r, i))

Dir(i)   == {p \in Proc : InDir(cwd[p], loc[p], i)}
Way(i)   == {p \in Proc : InPath(pc[p], loc[p], i)}
Made1(i) == {p \in Proc : InFile(pc[p], loc[p], i)}
Place(i) == {p \in Proc : InPlace(pc[p], loc[p], i)}
Opened(i) == {f \in File : file[f].type = "inode" /\ file[f].ip = i /\ ~\E p \in Proc :
                              pc[p] = "cend" /\ loc[p].f = f}

(* Uses, term by term: all are natural numbers. *)
LEMMA UsesAre ==
    ASSUME NEW i
    PROVE  /\ Uses(i) = Cardinality(Opened(i)) + Cardinality(Dir(i)) + Cardinality(Way(i))
                        + Cardinality(Made1(i)) + Cardinality(Place(i))
           /\ Cardinality(Opened(i)) \in Nat /\ Cardinality(Dir(i)) \in Nat
           /\ Cardinality(Way(i)) \in Nat /\ Cardinality(Made1(i)) \in Nat
           /\ Cardinality(Place(i)) \in Nat /\ Uses(i) \in Nat
  <1>1. /\ Dir(i) = {p \in Proc : cwd[p] = i /\ ~(loc[p].ok /\ loc[p].call = "chdir")}
        /\ Way(i) = {p \in Proc : loc[p].ip = i /\ pc[p] \in {"walk", "create", "exist", "fill", "alloc"}}
        /\ Made1(i) = {p \in Proc : loc[p].ip = i /\ pc[p] = "end" /\ loc[p].ok}
        /\ Place(i) = {p \in Proc : loc[p].dp = i /\ pc[p] \in {"ialloc", "fill"}}
    BY DEF Dir, Way, Made1, Place, InDir, InPath, InFile, InPlace
  <1>2. Uses(i) = Cardinality(Opened(i)) + Cardinality(Dir(i)) + Cardinality(Way(i))
                        + Cardinality(Made1(i)) + Cardinality(Place(i))
    BY <1>1 DEF Uses, Opened
  <1>3. /\ IsFiniteSet(Opened(i)) /\ IsFiniteSet(Dir(i)) /\ IsFiniteSet(Way(i))
        /\ IsFiniteSet(Made1(i)) /\ IsFiniteSet(Place(i))
    <2>1. Opened(i) \subseteq File /\ Dir(i) \subseteq Proc /\ Way(i) \subseteq Proc
          /\ Made1(i) \subseteq Proc /\ Place(i) \subseteq Proc
      BY DEF Opened, Dir, Way, Made1, Place
    <2>2. IsFiniteSet(Proc) /\ IsFiniteSet(File)
      BY FsAssumption
    <2> QED
      BY <2>1, <2>2, FS_Subset
  <1>4. /\ Cardinality(Opened(i)) \in Nat /\ Cardinality(Dir(i)) \in Nat
        /\ Cardinality(Way(i)) \in Nat /\ Cardinality(Made1(i)) \in Nat
        /\ Cardinality(Place(i)) \in Nat
    BY <1>3, FS_CardinalityType
  <1> QED
    BY <1>2, <1>4

(* Two sets that differ in p only. *)
LEMMA OneChange ==
    ASSUME NEW U, IsFiniteSet(U), NEW S \in SUBSET U, NEW T \in SUBSET U, NEW p,
           \A q \in U : q # p => (q \in S <=> q \in T)
    PROVE  /\ Cardinality(S) \in Nat /\ Cardinality(T) \in Nat
           /\ Cardinality(T) = Cardinality(S) - B(p \in S) + B(p \in T)
  <1>1. IsFiniteSet(S) /\ IsFiniteSet(T)
    BY FS_Subset
  <1>2. S \ {p} = T \ {p}
    OBVIOUS
  <1>3. Cardinality(S) \in Nat /\ Cardinality(T) \in Nat
    BY <1>1, FS_CardinalityType
  <1>4. IsFiniteSet(S \ {p}) /\ Cardinality(S \ {p}) = Cardinality(S) - B(p \in S)
    BY <1>1, <1>3, FS_RemoveElement DEF B
  <1>5. IsFiniteSet(T \ {p}) /\ Cardinality(T \ {p}) = Cardinality(T) - B(p \in T)
    BY <1>1, <1>3, FS_RemoveElement DEF B
  <1>6. B(p \in S) \in Int /\ B(p \in T) \in Int
    BY DEF B
  <1>7. Cardinality(S) - B(p \in S) = Cardinality(T) - B(p \in T)
    BY <1>2, <1>4, <1>5
  <1> QED
    BY <1>3, <1>6, <1>7

(* The references that p gives up and takes. *)
LEMMA UsesMove ==
    ASSUME NEW p \in Proc, NEW i,
           \A q \in Proc : q # p => pc'[q] = pc[q] /\ loc'[q] = loc[q] /\ cwd'[q] = cwd[q]
    PROVE  Uses(i)' = Cardinality(Opened(i)') + (Uses(i) - Cardinality(Opened(i)))
                      - HeldBy(pc[p], cwd[p], loc[p], i) + HeldBy(pc'[p], cwd'[p], loc'[p], i)
  <1>0. IsFiniteSet(Proc)
    BY FsAssumption
  <1>1. Cardinality(Dir(i)') = Cardinality(Dir(i)) - B(InDir(cwd[p], loc[p], i))
                               + B(InDir(cwd'[p], loc'[p], i))
    <2>1. \A q \in Proc : q # p => (q \in Dir(i) <=> q \in Dir(i)')
      BY DEF Dir, InDir
    <2>2. Dir(i) \in SUBSET Proc /\ Dir(i)' \in SUBSET Proc
          /\ (p \in Dir(i) <=> InDir(cwd[p], loc[p], i)) /\ (p \in Dir(i)' <=> InDir(cwd'[p], loc'[p], i))
      BY DEF Dir, InDir
    <2>3. Cardinality(Dir(i)') = Cardinality(Dir(i)) - B(p \in Dir(i)) + B(p \in Dir(i)')
      BY <1>0, <2>1, <2>2, OneChange
    <2> QED
      BY <2>2, <2>3 DEF B
  <1>2. Cardinality(Way(i)') = Cardinality(Way(i)) - B(InPath(pc[p], loc[p], i))
                               + B(InPath(pc'[p], loc'[p], i))
    <2>1. \A q \in Proc : q # p => (q \in Way(i) <=> q \in Way(i)')
      BY DEF Way, InPath
    <2>2. Way(i) \in SUBSET Proc /\ Way(i)' \in SUBSET Proc
          /\ (p \in Way(i) <=> InPath(pc[p], loc[p], i)) /\ (p \in Way(i)' <=> InPath(pc'[p], loc'[p], i))
      BY DEF Way, InPath
    <2>3. Cardinality(Way(i)') = Cardinality(Way(i)) - B(p \in Way(i)) + B(p \in Way(i)')
      BY <1>0, <2>1, <2>2, OneChange
    <2> QED
      BY <2>2, <2>3 DEF B
  <1>3. Cardinality(Made1(i)') = Cardinality(Made1(i)) - B(InFile(pc[p], loc[p], i))
                                 + B(InFile(pc'[p], loc'[p], i))
    <2>1. \A q \in Proc : q # p => (q \in Made1(i) <=> q \in Made1(i)')
      BY DEF Made1, InFile
    <2>2. Made1(i) \in SUBSET Proc /\ Made1(i)' \in SUBSET Proc
          /\ (p \in Made1(i) <=> InFile(pc[p], loc[p], i)) /\ (p \in Made1(i)' <=> InFile(pc'[p], loc'[p], i))
      BY DEF Made1, InFile
    <2>3. Cardinality(Made1(i)') = Cardinality(Made1(i)) - B(p \in Made1(i)) + B(p \in Made1(i)')
      BY <1>0, <2>1, <2>2, OneChange
    <2> QED
      BY <2>2, <2>3 DEF B
  <1>4. Cardinality(Place(i)') = Cardinality(Place(i)) - B(InPlace(pc[p], loc[p], i))
                                 + B(InPlace(pc'[p], loc'[p], i))
    <2>1. \A q \in Proc : q # p => (q \in Place(i) <=> q \in Place(i)')
      BY DEF Place, InPlace
    <2>2. Place(i) \in SUBSET Proc /\ Place(i)' \in SUBSET Proc
          /\ (p \in Place(i) <=> InPlace(pc[p], loc[p], i)) /\ (p \in Place(i)' <=> InPlace(pc'[p], loc'[p], i))
      BY DEF Place, InPlace
    <2>3. Cardinality(Place(i)') = Cardinality(Place(i)) - B(p \in Place(i)) + B(p \in Place(i)')
      BY <1>0, <2>1, <2>2, OneChange
    <2> QED
      BY <2>2, <2>3 DEF B
  <1>5. Uses(i)' = Cardinality(Opened(i)') + Cardinality(Dir(i)') + Cardinality(Way(i)')
                   + Cardinality(Made1(i)') + Cardinality(Place(i)')
        /\ Cardinality(Opened(i)') \in Nat
    <2>1. (Uses(i) = Cardinality(Opened(i)) + Cardinality(Dir(i)) + Cardinality(Way(i))
                   + Cardinality(Made1(i)) + Cardinality(Place(i))
           /\ Cardinality(Opened(i)) \in Nat)'
      BY UsesAre, PTL
    <2> QED
      BY <2>1
  <1>6. \A P \in BOOLEAN : B(P) \in Nat
    BY DEF B
  <1> QED
    BY <1>1, <1>2, <1>3, <1>4, <1>5, <1>6, UsesAre DEF HeldBy, B

-----------------------------------------------------------------------------
(* Nothing but p moves. *)
Only(p) == \A q \in Proc : q # p => pc'[q] = pc[q] /\ loc'[q] = loc[q] /\ cwd'[q] = cwd[q]

(* The uses by open files, when no file changes what it names. *)
LEMMA OpenedSame ==
    ASSUME NEW p \in Proc, NEW i, Only(p), pc[p] # "cend", pc'[p] # "cend",
           \A f \in File : file'[f].type = file[f].type /\ (file[f].type = "inode" => file'[f].ip = file[f].ip)
    PROVE  Opened(i)' = Opened(i)
  <1>1. \A f \in File : (\E q \in Proc : pc'[q] = "cend" /\ loc'[q].f = f)
                        <=> \E q \in Proc : pc[q] = "cend" /\ loc[q].f = f
    BY DEF Only
  <1> QED
    BY <1>1 DEF Opened

(* What counts in a step that leaves the file table alone. *)
LEMMA RefsMove ==
    ASSUME NEW p \in Proc, Only(p), pc[p] # "cend", pc'[p] # "cend",
           \A f \in File : file'[f].type = file[f].type /\ (file[f].type = "inode" => file'[f].ip = file[f].ip),
           NEW i, fs.ref[i] = Uses(i),
           fs'.ref[i] = fs.ref[i] - HeldBy(pc[p], cwd[p], loc[p], i) + HeldBy(pc'[p], cwd'[p], loc'[p], i)
    PROVE  fs'.ref[i] = Uses(i)' /\ fs'.ref[i] \in Nat
  <1>1. Opened(i)' = Opened(i)
    BY OpenedSame
  <1>2. Uses(i)' = Cardinality(Opened(i)') + (Uses(i) - Cardinality(Opened(i)))
                      - HeldBy(pc[p], cwd[p], loc[p], i) + HeldBy(pc'[p], cwd'[p], loc'[p], i)
    BY UsesMove DEF Only
  <1>3. Uses(i) \in Nat /\ Cardinality(Opened(i)) \in Nat
    BY UsesAre
  <1>4. Cardinality(Opened(i)') = Cardinality(Opened(i))
    BY <1>1
  <1>5. HeldBy(pc[p], cwd[p], loc[p], i) \in Nat /\ HeldBy(pc'[p], cwd'[p], loc'[p], i) \in Nat
    BY DEF HeldBy, B
  <1>6. Uses(i)' = fs'.ref[i]
    BY <1>2, <1>3, <1>4, <1>5
  <1>7. Uses(i)' \in Nat
    <2>1. (Uses(i) \in Nat)'
      BY UsesAre, PTL
    <2> QED
      BY <2>1
  <1> QED
    BY <1>6, <1>7

(* A directory in which a call makes an inode is kept in the cache. *)
LEMMA PlaceHeld ==
    ASSUME NEW q \in Proc, pc[q] \in {"ialloc", "fill"}, fs.ref[loc[q].dp] = Uses(loc[q].dp)
    PROVE  fs.ref[loc[q].dp] > 0
  <1> DEFINE i == loc[q].dp
  <1>1. q \in Place(i) /\ Place(i) \subseteq Proc
    BY DEF Place, InPlace
  <1>2. IsFiniteSet(Place(i))
    BY <1>1, FsAssumption, FS_Subset
  <1>3. Cardinality(Place(i)) # 0
    BY <1>1, <1>2, FS_EmptySet
  <1> QED
    BY <1>3, UsesAre

(* A process that does not move still finds what it has found. *)
LEMMA CallFrame ==
    ASSUME NEW s, NEW t, NEW F, Grows(s, t, F), NEW l, NEW c, NEW r, CallIs(s, l, c, r),
           l = "fill" => r.ip \notin F /\ Made[r.call] # "free",
           l \in {"ialloc", "fill"} => s.ref[r.dp] > 0
    PROVE  CallIs(t, l, c, r)
  <1>1. \A i : Linked(s, i) => Linked(t, i)
    BY DEF Linked, Grows
  <1>2. ASSUME l \in {"ialloc", "fill"} PROVE t.valid[r.dp]
    BY <1>2 DEF CallIs, Linked, Grows
  <1>3. ASSUME l = "fill"
        PROVE  t.inode[r.ip].nlink = 0 /\ t.inode[r.ip].type = Made[r.call] /\ t.inode[r.ip].size = 0
    BY <1>3 DEF CallIs, Grows
  <1> QED
    BY <1>1, <1>2, <1>3 DEF CallIs

(* A process that does not move keeps its locks. *)
LEMMA LockFrame ==
    ASSUME NEW p, NEW s, NEW t, NEW F, Healthy(s), Grows(s, t, F), NEW l, NEW r, NEW g, NEW h, NEW k, NEW m,
           LockIs(p, s, l, r, g, k), NEW c, CallIs(s, l, c, r), \A i \in Inum : k[i] = p => m[i] = p,
           l = "wadv" => h[r.f].ip = g[r.f].ip /\ Linked(s, g[r.f].ip)
    PROVE  LockIs(p, t, l, r, h, m)
  <1>1. ASSUME l = "wadv"
        PROVE  LET i == h[r.f].ip IN
               /\ m[i] = p /\ t.copy[i].type = t.inode[i].type
               /\ t.copy[i].type # "dev" => r.at + r.n1 <= MAXFILE * DPB
    <2> DEFINE i == g[r.f].ip
    <2>1. i \in Inum /\ s.inode[i].nlink > 0 /\ k[i] = p /\ s.copy[i].type = s.inode[i].type
          /\ (s.copy[i].type # "dev" => r.at + r.n1 <= MAXFILE * DPB)
      BY <1>1 DEF LockIs, Linked
    <2>2. s.inode[i].type # "free"
      <3>1. s \in MemType
        BY HealthyTyped
      <3>2. InodeOK(s, i)
        BY <2>1, <3>1, HealthyIs
      <3> HIDE DEF i
      <3> QED
        BY <2>1, <3>2, SMTT(20) DEF InodeOK
    <2>3. t.inode[i].type = s.inode[i].type /\ t.copy[i].type = s.copy[i].type
      <3>1. s.copy[i].type # "free"
        BY <2>1, <2>2
      <3> HIDE DEF i
      <3> QED
        BY <2>1, <2>2, <3>1 DEF Grows
    <2>4. m[i] = p /\ h[r.f].ip = i
      BY <1>1, <2>1
    <2> QED
      BY <2>1, <2>3, <2>4
  <1> QED
    BY <1>1 DEF LockIs, CallIs, Linked

(* Nothing has to do with files. *)
LEMMA FilesFrame ==
    ASSUME NEW p \in Proc, Only(p), UNCHANGED <<file, ofile, ftlock>>,
           \A f \in File : FileOK(f), \A q \in Proc : DescOK(q),
           \A i : Linked(fs, i) => Linked(fs', i),
           pc[p] \notin {"end"} \cup Closing \cup Writing,
           pc'[p] \notin {"unused"} \cup Closing \cup Writing,
           pc'[p] = "end" /\ loc'[p].ok => loc'[p].call \notin {"open", "creat"}
    PROVE  (\A f \in File : FileOK(f)') /\ (\A q \in Proc : DescOK(q)')
  <1>1. ASSUME NEW f \in File PROVE FileOK(f)'
    <2>1. FileOK(f)
      OBVIOUS
    <2>2. file[f].type = "inode" => Linked(fs', file[f].ip)
      BY <2>1 DEF FileOK
    <2>3. \A q \in Proc : pc[q] \in Closing => pc'[q] \in Closing /\ loc'[q].f = loc[q].f
      BY DEF Only
    <2> QED
      BY <2>1, <2>2, <2>3 DEF FileOK
  <1>2. ASSUME NEW q \in Proc PROVE DescOK(q)'
    <2>1. DescIs(q, pc[q], loc[q], file, ofile, ftlock)
      BY DEF DescOK
    <2>2. CASE q = p
      <3>1. \A f : ~Opening(pc[p], loc[p], f) /\ ~Opening(pc'[p], loc'[p], f)
        BY DEF Opening
      <3>2. DescIs(q, pc'[q], loc'[q], file', ofile', ftlock')
        BY <2>1, <2>2, <3>1 DEF DescIs
      <3> QED
        BY <3>2 DEF DescOK
    <2>3. CASE q # p
      BY <2>1, <2>3 DEF DescOK, Only
    <2> QED
      BY <2>2, <2>3
  <1> QED
    BY <1>1, <1>2

-----------------------------------------------------------------------------
(* A step of Do that does not panic, ... *)
LEMMA DoEffect ==
    ASSUME MemInv, LogInv, NEW p \in Proc, NEW t, NEW l, NEW F, Do(p, t, l), t.ok, Grows(fs, t, F)
    PROVE  /\ Healthy(fs') /\ fs'.wrote = {} /\ fs'.ok /\ Grows(fs, fs', F)
           /\ fs'.inode = t.inode /\ fs'.ref = t.ref /\ fs'.valid = t.valid /\ fs'.copy = t.copy
           /\ pc' = [pc EXCEPT ![p] = l] /\ LogInv'
           /\ wrote' = [wrote EXCEPT ![p] = wrote[p] \cup t.wrote]
           /\ \A q \in Proc : q # p => wrote'[q] = wrote[q]
           /\ wrote'[p] = wrote[p] \cup t.wrote
  <1>1. /\ fs' = [t EXCEPT !.wrote = {}] /\ pc' = [pc EXCEPT ![p] = l]
        /\ wrote' = [wrote EXCEPT ![p] = @ \cup t.wrote] /\ logged' = logged \cup t.wrote
    BY DEF Do, Goto
  <1>2. t \in MemType /\ Healthy(t)
    BY HealthyTyped DEF Grows
  <1>3. /\ fs' \in MemType /\ fs'.inode = t.inode /\ fs'.ref = t.ref /\ fs'.valid = t.valid
        /\ fs'.copy = t.copy /\ fs'.dir = t.dir /\ fs'.wrote = {} /\ (t.ok => fs'.ok)
    BY <1>1, <1>2 DEF MemType
  <1>4. Healthy(fs')
    BY <1>2, <1>3, HealthyWith
  <1>5. Grows(fs, fs', F)
    BY <1>3, <1>4 DEF Grows
  <1>6. LogInv'
    BY <1>1 DEF LogInv
  <1>7. /\ \A q \in Proc : q # p => wrote'[q] = wrote[q]
        /\ wrote'[p] = wrote[p] \cup t.wrote
    BY <1>1 DEF LogInv
  <1> QED
    BY <1>1, <1>3, <1>4, <1>5, <1>6, <1>7

(* What an action that does t and goes to l makes of the state. *)
Done(p, t, l, F) ==
    /\ Healthy(fs') /\ fs'.wrote = {} /\ fs'.ok /\ Grows(fs, fs', F)
    /\ fs'.inode = t.inode /\ fs'.ref = t.ref /\ fs'.valid = t.valid /\ fs'.copy = t.copy
    /\ pc' = [pc EXCEPT ![p] = l] /\ LogInv'
    /\ \A q \in Proc : q # p => wrote'[q] = wrote[q]
    /\ wrote'[p] = wrote[p] \cup t.wrote

(* Do, with what it makes under one name. *)
LEMMA DoDone ==
    ASSUME MemInv, LogInv, NEW p \in Proc, NEW t, NEW l, NEW F, Do(p, t, l), t.ok, Grows(fs, t, F)
    PROVE  Done(p, t, l, F)
  BY DoEffect DEF Done

(* ... and any step that does. *)
LEMMA PanicStep ==
    ASSUME FsInv, NEW p \in Proc, TypeInv', pc' = [pc EXCEPT ![p] = "panic"],
           UNCHANGED <<fs, wrote, logged, disk, file, ofile>>,
           \A q \in Proc : q # p => loc'[q] = loc[q]
    PROVE  FsInv'
  <1>1. pc'[p] = "panic" /\ \A q \in Proc : q # p => pc'[q] = pc[q]
    BY DEF FsInv, TypeInv
  <1>2. Panicked'
    BY <1>1 DEF Panicked
  <1>3. MemInv' /\ LogInv'
    BY DEF FsInv, MemInv, LogInv
  <1>4. OffsetUnderLock'
    BY <1>1 DEF FsInv, OffsetUnderLock
  <1>5. \A f \in File : file'[f].ref = Cardinality(Refs(f)')
    BY DEF FsInv, Refs, RefsIn
  <1> QED
    BY <1>2, <1>3, <1>4, <1>5 DEF FsInv

(* A step of a call with a path, up to its end_op: p goes to l, with the   *)
(* locals r and the file system t.                                         *)
AtCall == {"user", "walk", "create", "exist", "ialloc", "fill", "alloc"}

CallMove(p, t, l, r) ==
    /\ Do(p, t, l) /\ loc' = [loc EXCEPT ![p] = r]
    /\ UNCHANGED <<disk, ftlock, file, ofile, cwd>>
    /\ ops' \in {ops, ops \cup {p}} /\ ncalls' \in 0 .. MaxCalls
    /\ lock' \in [Inum -> Proc \cup {Nil}]
    /\ \A q \in Proc \ {p} : \A i \in Inum : lock[i] = q => lock'[i] = q

(* ... when nothing panics. *)
CallFits(p, t, l, r, F) ==
    /\ Grows(fs, t, F) /\ F \subseteq IF pc[p] = "fill" THEN {loc[p].ip} ELSE {}
    /\ \A i \in Inum : t.ref[i] = fs.ref[i] - HeldBy(pc[p], cwd[p], loc[p], i) + HeldBy(l, cwd[p], r, i)
    /\ CallIs(t, l, cwd[p], r) /\ (r.ok => r.call = "chdir")
    /\ LockIs(p, t, l, r, file, lock')
    /\ l = "fill" => fs.inode[r.ip].type = "free"
    /\ InOp(l, r) <=> p \in ops'
    /\ p \notin ops' => wrote[p] = {} /\ t.wrote = {}

(* A step within a call keeps the invariant, when where it goes fits the   *)
(* new file system.                                                        *)
LEMMA CallStep ==
    ASSUME FsInv, ~Panicked, NEW p \in Proc, pc[p] \in AtCall, NEW t, NEW l \in AtCall \cup {"end"},
           NEW r \in LocalType, NEW F,
           CallMove(p, t, l, r), t.ok => CallFits(p, t, l, r, F)
    PROVE  FsInv'
  <1>0. TypeInv /\ MemInv /\ LogInv /\ Running /\ OffsetUnderLock
    BY DEF FsInv
  <1>1. TypeInv'
    <2>1. pc' = [pc EXCEPT ![p] = l] \/ pc' = [pc EXCEPT ![p] = "panic"]
      BY DEF CallMove, Do, Goto
    <2>2. pc' \in [Proc -> PC]
      BY <1>0, <2>1 DEF TypeInv, AtCall, PC
    <2> QED
      BY <1>0, <2>2 DEF TypeInv, CallMove
  <1>2. CASE ~t.ok
    <2>1. pc' = [pc EXCEPT ![p] = "panic"] /\ UNCHANGED <<fs, wrote, logged>>
      BY <1>2 DEF CallMove, Do, Goto
    <2>2. \A q \in Proc : q # p => loc'[q] = loc[q]
      BY <1>0 DEF TypeInv, CallMove
    <2> QED
      BY <1>1, <2>1, <2>2, PanicStep DEF CallMove
  <1>3. CASE t.ok
    <2>1. Do(p, t, l) /\ t.ok /\ CallFits(p, t, l, r, F) /\ Grows(fs, t, F)
      BY <1>3 DEF CallMove, CallFits
    <2>2. /\ Healthy(fs') /\ fs'.wrote = {} /\ fs'.ok /\ Grows(fs, fs', F)
          /\ fs'.inode = t.inode /\ fs'.ref = t.ref /\ fs'.valid = t.valid /\ fs'.copy = t.copy
          /\ pc' = [pc EXCEPT ![p] = l] /\ LogInv'
          /\ \A q \in Proc : q # p => wrote'[q] = wrote[q]
          /\ wrote'[p] = wrote[p] \cup t.wrote
      BY <1>0, <2>1, DoEffect
    <2>3. pc'[p] = l /\ loc'[p] = r /\ cwd' = cwd /\ Only(p)
      BY <1>0, <2>2 DEF TypeInv, CallMove, Only
    <2>4. \A q \in Proc : CallIs(fs, pc[q], cwd[q], loc[q]) /\ LockOK(q) /\ DescOK(q) /\ OpsOK(q)
      BY <1>0 DEF Running, CallOK
    <2>5. \A q \in Proc : pc[q] = "fill" => Made[loc[q].call] # "free"
                             /\ fs.inode[loc[q].ip].type # "free"
      BY <2>4 DEF CallIs, Made, Create
    <2>6. \A q \in Proc : pc[q] \in {"ialloc", "fill"} => fs.ref[loc[q].dp] > 0
      BY <1>0, <2>4, PlaceHeld DEF Running, CallIs, Linked
    <2>7. \A q \in Proc : q # p /\ pc[q] = "fill" => loc[q].ip \notin F
      BY <1>0, <2>1 DEF CallFits, Running, FillsApart
    <2>8. \A q \in Proc : CallOK(q)'
      <3> TAKE q \in Proc
      <3>1. CASE q = p
        <4>1. CallIs(t, l, cwd[p], r)
          BY <2>1 DEF CallFits
        <4> QED
          BY <2>2, <2>3, <3>1, <4>1 DEF CallOK, CallIs, Linked
      <3>2. CASE q # p
        <4>1. CallIs(fs', pc[q], cwd[q], loc[q])
          BY <2>2, <2>4, <2>5, <2>6, <2>7, <3>2, CallFrame
        <4> QED
          BY <2>3, <3>2, <4>1 DEF CallOK, Only
      <3> QED
        BY <3>1, <3>2
    <2>9. \A q \in Proc : LockOK(q)'
      <3> TAKE q \in Proc
      <3>1. CASE q = p
        <4>1. LockIs(p, t, l, r, file, lock')
          BY <2>1 DEF CallFits
        <4>2. file' = file /\ pc'[q] = l /\ loc'[q] = r /\ fs'.copy = t.copy /\ fs'.inode = t.inode
          BY <2>2, <2>3, <3>1 DEF CallMove
        <4>3. LockIs(p, fs', l, r, file, lock')
          BY <4>1, <4>2 DEF LockIs
        <4> QED
          BY <3>1, <4>2, <4>3 DEF LockOK
      <3>2. CASE q # p
        <4>1. LockIs(q, fs, pc[q], loc[q], file, lock) /\ \A i \in Inum : lock[i] = q => lock'[i] = q
          BY <2>4, <3>2 DEF LockOK, CallMove
        <4>2. pc[q] = "wadv" => Linked(fs, file[loc[q].f].ip)
          BY <1>0, <2>4 DEF DescOK, DescIs, Writing, Running, FileOK
        <4>3. LockIs(q, fs', pc[q], loc[q], file, lock')
          BY <1>0, <2>2, <2>4, <4>1, <4>2, LockFrame DEF MemInv
        <4> QED
          BY <2>3, <3>2, <4>3 DEF LockOK, Only, CallMove
      <3> QED
        BY <3>1, <3>2
    <2>10. (\A f \in File : FileOK(f)') /\ (\A q \in Proc : DescOK(q)')
      <3>1. \A i : Linked(fs, i) => Linked(fs', i)
        BY <2>2 DEF Linked, Grows
      <3>2. /\ pc[p] \notin {"end"} \cup Closing \cup Writing
            /\ pc'[p] \notin {"unused"} \cup Closing \cup Writing
            /\ pc'[p] = "end" /\ loc'[p].ok => loc'[p].call \notin {"open", "creat"}
        BY <2>1, <2>3 DEF AtCall, Closing, Writing, CallFits
      <3> QED
        BY <1>0, <2>3, <3>1, <3>2, FilesFrame DEF Running, CallMove
    <2>11. \A q \in Proc : OpsOK(q)'
      <3> TAKE q \in Proc
      <3>1. CASE q = p
        BY <2>1, <2>2, <2>3, <3>1 DEF OpsOK, CallFits
      <3>2. CASE q # p
        BY <2>2, <2>3, <2>4, <3>2 DEF OpsOK, Only, CallMove
      <3> QED
        BY <3>1, <3>2
    <2>12. FillsApart'
      <3>1. ASSUME NEW q \in Proc, q # p, pc[q] = "fill", l = "fill" PROVE loc[q].ip # r.ip
        BY <2>1, <2>5, <3>1 DEF CallFits
      <3> QED
        BY <1>0, <2>3, <3>1 DEF FillsApart, Running, Only
    <2>13. \A i \in Inum : fs'.ref[i] = Uses(i)' /\ fs'.ref[i] \in Nat
      <3> TAKE i \in Inum
      <3>1. /\ fs'.ref[i] = fs.ref[i] - HeldBy(pc[p], cwd[p], loc[p], i) + HeldBy(pc'[p], cwd'[p], loc'[p], i)
            /\ fs.ref[i] = Uses(i)
        BY <1>0, <2>1, <2>2, <2>3 DEF CallFits, Running
      <3>2. pc[p] # "cend" /\ pc'[p] # "cend" /\ file' = file
        BY <2>3 DEF AtCall, CallMove
      <3> QED
        BY <2>3, <3>1, <3>2, RefsMove
    <2>14. Running'
      BY <2>8, <2>9, <2>10, <2>11, <2>12, <2>13 DEF Running
    <2>15. MemInv'
      BY <1>0, <2>2, <2>13 DEF MemInv, CallMove
    <2>16. OffsetUnderLock'
      BY <1>0, <2>3 DEF OffsetUnderLock, Only, CallMove, AtCall
    <2>17. \A f \in File : file'[f].ref = Cardinality(Refs(f)')
      BY DEF FsInv, Refs, RefsIn, CallMove
    <2> QED
      BY <1>1, <2>2, <2>14, <2>15, <2>16, <2>17 DEF FsInv
  <1> QED
    BY <1>2, <1>3

-----------------------------------------------------------------------------
(* iput, idup and iget, counted. *)
LEMMA PutEffect ==
    ASSUME NEW s, NEW u, NEW F, Grows(s, u, F), NEW i \in Inum
    PROVE  LET t == Iput(u, i) IN
           /\ t \in MemType /\ Grows(s, t, F)
           /\ t.ok = u.ok /\ t.inode = u.inode /\ t.copy = u.copy /\ t.wrote = u.wrote /\ t.valid = u.valid
           /\ \A j \in Inum : t.ref[j] = u.ref[j] - One(i, j) /\ u.ref[j] \in Int
  BY RefEffect

(* idup, counted. *)
LEMMA DupEffect ==
    ASSUME NEW s, NEW u, NEW F, Grows(s, u, F), NEW i \in Inum
    PROVE  LET t == Idup(u, i) IN
           /\ t \in MemType /\ Grows(s, t, F)
           /\ t.ok = u.ok /\ t.inode = u.inode /\ t.copy = u.copy /\ t.wrote = u.wrote /\ t.valid = u.valid
           /\ \A j \in Inum : t.ref[j] = u.ref[j] + One(i, j) /\ u.ref[j] \in Int
  BY RefEffect

(* iput does not undo a panic. *)
LEMMA PutOk == ASSUME NEW u \in MemType, NEW i PROVE Iput(u, i).ok => u.ok
  BY DEF Iput, MemType

(* iget keeps the types. *)
LEMMA GetTyped ==
    ASSUME NEW u \in MemType, NEW i \in Inum
    PROVE  Iget(u, i) \in MemType
  <1>1. Iget(u, i) \in {[u EXCEPT !.ref[i] = @ + 1], [u EXCEPT !.ok = FALSE],
                        [u EXCEPT !.ref[i] = 1, !.valid[i] = FALSE]}
    BY DEF Iget
  <1>2. u.ref[i] + 1 \in Int
    BY DEF MemType
  <1>3. [u EXCEPT !.ref[i] = @ + 1] \in MemType
    BY <1>2 DEF MemType
  <1>4. [u EXCEPT !.ok = FALSE] \in MemType
    BY DEF MemType
  <1>5. [u EXCEPT !.ref[i] = 1, !.valid[i] = FALSE] \in MemType
    <2>1. [u.ref EXCEPT ![i] = 1] \in [Inum -> Int] /\ [u.valid EXCEPT ![i] = FALSE] \in [Inum -> BOOLEAN]
      BY DEF MemType
    <2>2. WithRefs(u, [u.ref EXCEPT ![i] = 1], [u.valid EXCEPT ![i] = FALSE]) \in MemType
      BY <2>1, RefsStored
    <2>3. WithRefs(u, [u.ref EXCEPT ![i] = 1], [u.valid EXCEPT ![i] = FALSE])
          = [u EXCEPT !.ref[i] = 1, !.valid[i] = FALSE]
      BY DEF WithRefs, MemType
    <2> QED
      BY <2>2, <2>3
  <1> QED
    BY <1>1, <1>3, <1>4, <1>5

(* iget, counted. *)
LEMMA GetEffect ==
    ASSUME NEW s, NEW u, NEW F, Grows(s, u, F), NEW i \in Inum, u.ref = s.ref,
           \A j \in Inum : s.ref[j] \in Nat
    PROVE  LET t == Iget(u, i) IN
           t.ok => /\ t \in MemType /\ Grows(s, t, F)
                   /\ t.inode = u.inode /\ t.copy = u.copy /\ t.wrote = u.wrote
                   /\ \A j \in Inum : t.ref[j] = s.ref[j] + One(i, j)
  <1> DEFINE t == Iget(u, i)
  <1>1. SUFFICES ASSUME t.ok
                 PROVE  /\ t \in MemType /\ Grows(s, t, F)
                        /\ t.inode = u.inode /\ t.copy = u.copy /\ t.wrote = u.wrote
                        /\ \A j \in Inum : t.ref[j] = s.ref[j] + One(i, j)
    OBVIOUS
  <1>2. u.ref[i] \in Nat /\ \A j \in Inum : s.ref[j] > 0 => u.ref[j] > 0
    OBVIOUS
  <1>3. /\ t \in MemType /\ Grows(s, t, F)
        /\ t.ref = [u.ref EXCEPT ![i] = @ + 1]
        /\ t.inode = u.inode /\ t.copy = u.copy /\ t.wrote = u.wrote
    BY <1>1, <1>2, IgetEffect
  <1>4. u \in MemType
    BY HealthyTyped DEF Grows
  <1> HIDE DEF t
  <1>5. \A j \in Inum : t.ref[j] = s.ref[j] + One(i, j)
    BY <1>3, <1>4 DEF MemType, One
  <1> QED
    BY <1>3, <1>5

(* An inode in place of another. *)
LEMMA GetPut ==
    ASSUME NEW s, NEW u, NEW F, Grows(s, u, F), NEW n \in Inum, NEW i \in Inum, u.ref = s.ref,
           \A j \in Inum : s.ref[j] \in Nat
    PROVE  LET t == Iput(Iget(u, n), i) IN
           t.ok => /\ Grows(s, t, F) /\ t.wrote = u.wrote
                   /\ \A j \in Inum : t.ref[j] = s.ref[j] + One(n, j) - One(i, j)
  <1> DEFINE v == Iget(u, n)
             t == Iput(v, i)
  <1>1. SUFFICES ASSUME t.ok
                 PROVE  /\ Grows(s, t, F) /\ t.wrote = u.wrote
                        /\ \A j \in Inum : t.ref[j] = s.ref[j] + One(n, j) - One(i, j)
    OBVIOUS
  <1>2. v.ok
    <2>1. v \in MemType
      BY HealthyTyped, GetTyped DEF Grows
    <2> HIDE DEF v
    <2> QED
      BY <1>1, <2>1, PutOk
  <1>3. Grows(s, v, F) /\ v.wrote = u.wrote /\ \A j \in Inum : v.ref[j] = s.ref[j] + One(n, j)
    BY <1>2, GetEffect
  <1> HIDE DEF v
  <1>4. /\ Grows(s, t, F) /\ t.wrote = v.wrote
        /\ \A j \in Inum : t.ref[j] = v.ref[j] - One(i, j) /\ v.ref[j] \in Int
    BY <1>3, PutEffect
  <1> HIDE DEF t
  <1>5. ASSUME NEW j \in Inum PROVE t.ref[j] = s.ref[j] + One(n, j) - One(i, j)
    <2>1. One(n, j) \in Nat /\ One(i, j) \in Nat
      BY DEF One
    <2>2. v.ref[j] = s.ref[j] + One(n, j) /\ t.ref[j] = v.ref[j] - One(i, j)
      BY <1>3, <1>4
    <2> QED
      BY <2>1, <2>2
  <1>6. Grows(s, t, F) /\ t.wrote = u.wrote
    BY <1>3, <1>4
  <1> QED
    BY <1>5, <1>6

(* What a call counts, by where it is. *)
LEMMA HeldIs ==
    ASSUME NEW s, NEW l, NEW c, NEW r, CallIs(s, l, c, r), NEW i
    PROVE  /\ l \in {"walk", "create", "exist", "alloc"} => HeldBy(l, c, r, i) = One(c, i) + One(r.ip, i)
           /\ l = "ialloc" => HeldBy(l, c, r, i) = One(c, i) + One(r.dp, i)
           /\ l = "fill" => HeldBy(l, c, r, i) = One(c, i) + One(r.ip, i) + One(r.dp, i)
           /\ l = "end" /\ r.ok /\ r.call = "chdir" => HeldBy(l, c, r, i) = One(r.ip, i)
           /\ l = "end" /\ r.ok /\ r.call # "chdir" => HeldBy(l, c, r, i) = One(c, i) + One(r.ip, i)
           /\ l \notin {"walk", "create", "exist", "alloc", "ialloc", "fill"} /\ ~r.ok =>
                 HeldBy(l, c, r, i) = One(c, i)
           /\ l # "end" => ~r.ok
           /\ One(c, i) \in Nat /\ One(r.ip, i) \in Nat /\ One(r.dp, i) \in Nat
  BY DEF CallIs, HeldBy, InDir, InPath, InFile, InPlace, B, One

(* The locals of a process that has none. *)
LEMMA NoLocalTyped ==
    /\ NoLocal \in LocalType /\ NoLocal.call = "none" /\ ~NoLocal.ok
    /\ \A call \in {"none", "exit"} \cup Create \cup Lookup :
          LET r == [NoLocal EXCEPT !.call = call] IN r \in LocalType /\ r.call = call /\ ~r.ok
  <1>1. <<>> \in Seq(Name \cup {".", ".."}) /\ 0 \in 0 .. MAXFILE * DPB
    BY Sizes1
  <1>2. NoLocal \in LocalType
    BY <1>1 DEF NoLocal, LocalType, Mode
  <1> QED
    BY <1>2 DEF NoLocal, LocalType

(* What is known of a process in a state where nothing has panicked. *)
LEMMA Known ==
    ASSUME FsInv, ~Panicked, NEW p \in Proc
    PROVE  /\ CallIs(fs, pc[p], cwd[p], loc[p]) /\ LockOK(p) /\ DescOK(p) /\ OpsOK(p)
           /\ loc[p] \in LocalType /\ pc[p] \in PC /\ cwd[p] \in Inum \cup {0}
           /\ Healthy(fs) /\ fs.wrote = {} /\ fs \in MemType /\ Grows(fs, fs, {})
           /\ \A i \in Inum : fs.ref[i] \in Nat
           /\ loc = [loc EXCEPT ![p] = loc[p]]
  <1>1. Healthy(fs) /\ fs.wrote = {} /\ \A i \in Inum : fs.ref[i] \in Nat
    BY DEF FsInv, MemInv
  <1>2. fs \in MemType /\ Grows(fs, fs, {})
    BY <1>1, HealthyTyped, GrowsItself
  <1>3. CallIs(fs, pc[p], cwd[p], loc[p]) /\ LockOK(p) /\ DescOK(p) /\ OpsOK(p)
    BY DEF FsInv, Running, CallOK
  <1>4. /\ loc[p] \in LocalType /\ pc[p] \in PC /\ cwd[p] \in Inum \cup {0}
        /\ loc = [loc EXCEPT ![p] = loc[p]]
    BY DEF FsInv, TypeInv
  <1> QED
    BY <1>1, <1>2, <1>3, <1>4

(* A call that goes to its end_op with nothing. *)
LEMMA LeaveStep ==
    ASSUME FsInv, ~Panicked, NEW p \in Proc, pc[p] \in AtCall \ {"user"}, NEW t, NEW F, Leave(p, t),
           UNCHANGED <<disk, ftlock, file, ofile, cwd, ops, ncalls>>,
           lock' \in [Inum -> Proc \cup {Nil}],
           \A q \in Proc \ {p} : \A i \in Inum : lock[i] = q => lock'[i] = q,
           t.ok => /\ Grows(fs, t, F) /\ F \subseteq IF pc[p] = "fill" THEN {loc[p].ip} ELSE {}
                   /\ \A i \in Inum :
                         t.ref[i] = fs.ref[i] - HeldBy(pc[p], cwd[p], loc[p], i) + One(cwd[p], i)
                   /\ loc[p].call = "exec" => t.wrote = {}
    PROVE  FsInv'
  <1> DEFINE l == IF loc[p].call = "exec" THEN "user" ELSE "end"
             r == IF loc[p].call = "exec" THEN NoLocal ELSE [NoLocal EXCEPT !.call = loc[p].call]
  <1>1. CallIs(fs, pc[p], cwd[p], loc[p]) /\ OpsOK(p) /\ ncalls \in 0 .. MaxCalls
    BY Known DEF FsInv, TypeInv
  <1>2. r \in LocalType /\ ~r.ok /\ l \in AtCall \cup {"end"} /\ (l = "end" <=> loc[p].call # "exec")
    <2>1. loc[p].call \in {"none", "exit"} \cup Create \cup Lookup
      BY Known DEF LocalType
    <2> QED
      BY <2>1, NoLocalTyped DEF AtCall
  <1>3. l \in {"user", "end"}
    OBVIOUS
  <1>4. CallMove(p, t, l, r)
    BY <1>1 DEF CallMove, Leave, Local
  <1>5. InOp(l, r) <=> p \in ops
    BY <1>1, <1>2, <1>3 DEF InOp, OpsOK, CallIs, AtCall, Create, Lookup
  <1> HIDE DEF l, r
  <1>6. ASSUME t.ok PROVE CallFits(p, t, l, r, F)
    <2>1. Grows(fs, t, F) /\ F \subseteq IF pc[p] = "fill" THEN {loc[p].ip} ELSE {}
      BY <1>6
    <2>2. CallIs(t, l, cwd[p], r)
      <3>1. Linked(fs, cwd[p])
        BY <1>1 DEF CallIs, AtCall
      <3>2. Linked(t, cwd[p])
        BY <2>1, <3>1 DEF Linked, Grows
      <3> QED
        BY <1>2, <1>3, <3>2 DEF CallIs
    <2>3. \A i : HeldBy(l, cwd[p], r, i) = One(cwd[p], i)
      BY <1>2, <1>3, <2>2, HeldIs
    <2>4. LockIs(p, t, l, r, file, lock')
      BY <1>3 DEF LockIs
    <2>5. p \notin ops' => wrote[p] = {} /\ t.wrote = {}
      BY <1>1, <1>2, <1>5, <1>6 DEF OpsOK, InOp
    <2> QED
      BY <1>2, <1>3, <1>5, <1>6, <2>1, <2>2, <2>3, <2>4, <2>5 DEF CallFits
  <1> QED
    BY <1>2, <1>4, <1>6, CallStep

-----------------------------------------------------------------------------
(* Calls with a path. *)
LEMMA CallKeeps == ASSUME FsInv, ~Panicked, NEW p \in Proc, Call(p) PROVE FsInv'
  <1>0. /\ CallIs(fs, pc[p], cwd[p], loc[p]) /\ OpsOK(p) /\ Healthy(fs) /\ fs.wrote = {}
        /\ Grows(fs, fs, {}) /\ fs \in MemType /\ (\A i \in Inum : fs.ref[i] \in Nat)
        /\ pc[p] = "user" /\ ncalls \in Nat /\ ncalls < MaxCalls /\ lock \in [Inum -> Proc \cup {Nil}]
    BY Known DEF Call, FsInv, TypeInv
  <1>1. PICK call \in Create \cup Lookup, path \in Path, mode \in Mode :
          /\ LET i == IF path.abs THEN ROOTINO ELSE cwd[p] IN
             /\ Do(p, Iget(fs, i), "walk")
             /\ Local(p, [NoLocal EXCEPT !.call = call, !.elems = path.elems, !.mode = mode, !.ip = i])
          /\ IF call = "exec" THEN UNCHANGED ops ELSE BeginOp(p)
    BY DEF Call
  <1> DEFINE i == IF path.abs THEN ROOTINO ELSE cwd[p]
             t == Iget(fs, i)
             r == [NoLocal EXCEPT !.call = call, !.elems = path.elems, !.mode = mode, !.ip = i]
  <1>2. Linked(fs, i)
    <2>1. Linked(fs, cwd[p])
      BY <1>0 DEF CallIs
    <2>2. Linked(fs, ROOTINO)
      BY <1>0, HealthyIs, Sizes1 DEF Linked
    <2> QED
      BY <2>1, <2>2
  <1>3. r \in LocalType /\ r.call = call /\ r.ip = i /\ ~r.ok
    <2>1. path.elems \in Seq(Name \cup {".", ".."})
      BY FsAssumption
    <2> HIDE DEF i
    <2> QED
      BY <1>2, <2>1, NoLocalTyped DEF NoLocal, LocalType, Linked
  <1> HIDE DEF i, r
  <1>4. CallMove(p, t, "walk", r)
    <2>1. ncalls' \in 0 .. MaxCalls
      BY <1>0, FsAssumption DEF Call
    <2>2. ops' \in {ops, ops \cup {p}}
      BY <1>1 DEF BeginOp
    <2> QED
      BY <1>0, <1>1, <2>1, <2>2 DEF CallMove, Call, Local, i, r
  <1>5. ASSUME t.ok PROVE CallFits(p, t, "walk", r, {})
    <2>1. /\ Grows(fs, t, {}) /\ t.wrote = {}
          /\ \A j \in Inum : t.ref[j] = fs.ref[j] + One(i, j)
      BY <1>0, <1>2, <1>5, GetEffect DEF Linked
    <2>2. Linked(t, i) /\ Linked(t, cwd[p])
      BY <1>0, <1>2, <2>1 DEF Linked, Grows, CallIs
    <2>3. CallIs(t, "walk", cwd[p], r)
      BY <1>3, <2>2 DEF CallIs
    <2>4. ASSUME NEW j \in Inum
          PROVE  t.ref[j] = fs.ref[j] - HeldBy(pc[p], cwd[p], loc[p], j) + HeldBy("walk", cwd[p], r, j)
      <3>1. HeldBy(pc[p], cwd[p], loc[p], j) = One(cwd[p], j) /\ One(cwd[p], j) \in Nat
        BY <1>0, HeldIs
      <3>2. HeldBy("walk", cwd[p], r, j) = One(cwd[p], j) + One(i, j) /\ One(i, j) \in Nat
        BY <1>3, <2>3, HeldIs
      <3> QED
        BY <1>0, <2>1, <3>1, <3>2
    <2>5. p \notin ops /\ wrote[p] = {}
      BY <1>0 DEF OpsOK, InOp
    <2>6. InOp("walk", r) <=> p \in ops'
      BY <1>1, <1>3, <2>5 DEF InOp, BeginOp
    <2>7. LockIs(p, t, "walk", r, file, lock')
      BY DEF LockIs
    <2> QED
      BY <1>3, <2>1, <2>3, <2>4, <2>5, <2>6, <2>7 DEF CallFits
  <1>6. pc[p] \in AtCall /\ "walk" \in AtCall \cup {"end"}
    BY <1>0 DEF AtCall
  <1> QED
    BY <1>3, <1>4, <1>5, <1>6, CallStep

(* The inode of a call is read, and perhaps put back. *)
LEMMA ReadBack ==
    ASSUME FsInv, ~Panicked, NEW i, Linked(fs, i)
    PROVE  LET t == Ilock(fs, i) IN
           /\ Grows(fs, t, {}) /\ t \in MemType /\ t.ok = fs.ok /\ t.wrote = {} /\ t.inode = fs.inode
           /\ t.ref = fs.ref /\ t.valid[i] /\ t.copy[i] = fs.inode[i] /\ Healthy(t)
           /\ Grows(fs, Iput(t, i), {}) /\ Iput(t, i).wrote = {}
           /\ \A j \in Inum : Iput(t, i).ref[j] = fs.ref[j] - One(i, j)
  <1> DEFINE t == Ilock(fs, i)
  <1>0. Healthy(fs) /\ fs.wrote = {} /\ i \in Inum /\ fs.inode[i].nlink > 0
    BY DEF FsInv, MemInv, Linked
  <1>1. /\ t \in MemType /\ Grows(fs, t, {})
        /\ t.ref = fs.ref /\ t.wrote = fs.wrote /\ t.ok = fs.ok
        /\ t.inode = fs.inode /\ t.valid[i] /\ t.copy[i] = fs.inode[i]
    BY <1>0, IlockEffect
  <1> HIDE DEF t
  <1>2. Healthy(t) /\ Grows(fs, t, {})
    BY <1>1 DEF Grows
  <1>3. /\ Grows(fs, Iput(t, i), {}) /\ Iput(t, i).wrote = t.wrote
        /\ \A j \in Inum : Iput(t, i).ref[j] = t.ref[j] - One(i, j)
    BY <1>0, <1>2, PutEffect
  <1> QED
    BY <1>0, <1>1, <1>2, <1>3 DEF t

(* A call that puts its inode back, and goes to its end_op. *)
LEMMA PutAndLeave ==
    ASSUME FsInv, ~Panicked, NEW p \in Proc, pc[p] \in {"walk", "create", "exist", "alloc"},
           NEW t, Leave(p, t), t \in {Iput(fs, loc[p].ip), Iput(Ilock(fs, loc[p].ip), loc[p].ip)},
           UNCHANGED <<disk, ftlock, file, ofile, cwd, ops, ncalls>>,
           lock' \in [Inum -> Proc \cup {Nil}],
           \A q \in Proc \ {p} : \A i \in Inum : lock[i] = q => lock'[i] = q
    PROVE  FsInv'
  <1> DEFINE i == loc[p].ip
  <1>0. /\ CallIs(fs, pc[p], cwd[p], loc[p]) /\ fs.wrote = {} /\ Grows(fs, fs, {})
        /\ \A j \in Inum : fs.ref[j] \in Nat
    BY Known
  <1>1. Linked(fs, i) /\ i \in Inum
    BY <1>0 DEF CallIs, Linked
  <1>2. Grows(fs, t, {}) /\ t.wrote = {} /\ \A j \in Inum : t.ref[j] = fs.ref[j] - One(i, j)
    <2>1. CASE t = Iput(fs, i)
      BY <1>0, <1>1, <2>1, PutEffect
    <2>2. CASE t = Iput(Ilock(fs, i), i)
      BY <1>1, <2>2, ReadBack
    <2> QED
      BY <2>1, <2>2
  <1>3. ASSUME NEW j \in Inum
        PROVE  t.ref[j] = fs.ref[j] - HeldBy(pc[p], cwd[p], loc[p], j) + One(cwd[p], j)
    <2>1. HeldBy(pc[p], cwd[p], loc[p], j) = One(cwd[p], j) + One(i, j) /\ One(cwd[p], j) \in Nat /\ One(i, j) \in Nat
      BY <1>0, HeldIs
    <2> QED
      BY <1>0, <1>2, <2>1
  <1>4. pc[p] \in AtCall \ {"user"} /\ {} \subseteq IF pc[p] = "fill" THEN {loc[p].ip} ELSE {}
    BY DEF AtCall
  <1> QED
    BY <1>2, <1>3, <1>4, LeaveStep

(* A path without elements, in a call that creates. *)
LEMMA NoParentKeeps == ASSUME FsInv, ~Panicked, NEW p \in Proc, NoParent(p) PROVE FsInv'
  <1>1. lock' \in [Inum -> Proc \cup {Nil}] /\ lock' = lock
    BY DEF NoParent, FsInv, TypeInv
  <1> QED
    BY <1>1, PutAndLeave DEF NoParent

(* fstatat and exec. *)
LEMMA StatFoundKeeps == ASSUME FsInv, ~Panicked, NEW p \in Proc, StatFound(p) PROVE FsInv'
  <1>1. lock' \in [Inum -> Proc \cup {Nil}] /\ lock' = lock
    BY DEF StatFound, FsInv, TypeInv
  <1> QED
    BY <1>1, PutAndLeave DEF StatFound, Found

(* A call that goes on with the inode that it has read. *)
LEMMA GoesOn ==
    ASSUME FsInv, ~Panicked, NEW p \in Proc, pc[p] \in {"walk", "create", "exist", "alloc"},
           NEW l \in {"create", "alloc"},
           Do(p, Ilock(fs, loc[p].ip), l), UNCHANGED <<loc, disk, ftlock, file, ofile, cwd, ops, ncalls>>,
           l = "create" => loc[p].call \in Create /\ loc[p].elems # <<>> /\ lock' = lock,
           l = "alloc"  => /\ loc[p].call \in {"open", "creat"}
                           /\ lock[loc[p].ip] = Nil /\ lock' = [lock EXCEPT ![loc[p].ip] = p]
    PROVE  FsInv'
  <1> DEFINE i == loc[p].ip
             t == Ilock(fs, i)
  <1>0. /\ CallIs(fs, pc[p], cwd[p], loc[p]) /\ OpsOK(p) /\ loc[p] \in LocalType
        /\ loc = [loc EXCEPT ![p] = loc[p]] /\ \A j \in Inum : fs.ref[j] \in Nat
    BY Known
  <1>1. Linked(fs, i) /\ i \in Inum
    BY <1>0 DEF CallIs, Linked
  <1>2. /\ Grows(fs, t, {}) /\ t.wrote = {} /\ t.ref = fs.ref
    BY <1>1, ReadBack
  <1> HIDE DEF t
  <1>3. CallMove(p, t, l, loc[p])
    <2>1. lock \in [Inum -> Proc \cup {Nil}] /\ ncalls \in 0 .. MaxCalls
      BY DEF FsInv, TypeInv
    <2>2. lock' \in [Inum -> Proc \cup {Nil}]
      BY <2>1
    <2>3. \A q \in Proc \ {p} : \A j \in Inum : lock[j] = q => lock'[j] = q
      <3>1. Nil \notin Proc
        BY FsAssumption
      <3>2. CASE l = "create"
        BY <3>2
      <3>3. CASE l = "alloc"
        <4> SUFFICES ASSUME NEW q \in Proc \ {p}, NEW j \in Inum, lock[j] = q PROVE lock'[j] = q
          OBVIOUS
        <4>1. j # i
          BY <3>1, <3>3
        <4> QED
          BY <3>3, <4>1, <2>1
      <3> QED
        BY <3>2, <3>3
    <2> QED
      BY <1>0, <2>1, <2>2, <2>3 DEF CallMove, t
  <1>4. CallFits(p, t, l, loc[p], {})
    <2>1. Linked(t, i) /\ Linked(t, cwd[p]) /\ ~loc[p].ok
      BY <1>0, <1>1, <1>2 DEF Linked, Grows, CallIs
    <2>2. CallIs(t, l, cwd[p], loc[p])
      BY <1>0, <2>1 DEF CallIs
    <2>3. \A j \in Inum : t.ref[j] = fs.ref[j] - HeldBy(pc[p], cwd[p], loc[p], j) + HeldBy(l, cwd[p], loc[p], j)
      <3> TAKE j \in Inum
      <3>1. /\ HeldBy(pc[p], cwd[p], loc[p], j) = One(cwd[p], j) + One(i, j)
            /\ HeldBy(l, cwd[p], loc[p], j) = One(cwd[p], j) + One(i, j)
            /\ One(cwd[p], j) \in Nat /\ One(i, j) \in Nat
        BY <1>0, <2>2, HeldIs
      <3> QED
        BY <1>0, <1>2, <3>1
    <2>4. LockIs(p, t, l, loc[p], file, lock')
      <3>1. lock \in [Inum -> Proc \cup {Nil}]
        BY DEF FsInv, TypeInv
      <3> QED
        BY <1>1, <3>1 DEF LockIs
    <2>5. InOp(l, loc[p]) /\ InOp(pc[p], loc[p])
      BY <1>0 DEF InOp, Create, CallIs
    <2>6. p \in ops'
      BY <1>0, <2>5 DEF OpsOK
    <2> QED
      BY <1>2, <2>1, <2>2, <2>3, <2>4, <2>5, <2>6 DEF CallFits
  <1>5. pc[p] \in AtCall /\ l \in AtCall \cup {"end"}
    BY DEF AtCall
  <1> QED
    BY <1>0, <1>3, <1>4, <1>5, CallStep

-----------------------------------------------------------------------------
(* The types of the locks and of the number of calls. *)
LEMMA LockTyped == FsInv => lock \in [Inum -> Proc \cup {Nil}] /\ ncalls \in 0 .. MaxCalls
  BY DEF FsInv, TypeInv

(* open, when namei has found its inode. *)
LEMMA OpenFoundKeeps == ASSUME FsInv, ~Panicked, NEW p \in Proc, OpenFound(p) PROVE FsInv'
  <1> DEFINE i == loc[p].ip
             t == Ilock(fs, i)
  <1>0. pc[p] = "walk" /\ loc[p].call = "open" /\ lock[i] = Nil
    BY DEF OpenFound, Found
  <1>1. CASE t.copy[i].type = "dir" /\ loc[p].mode # "r"
    <2>1. Leave(p, Iput(t, i)) /\ lock' = lock
      BY <1>1 DEF OpenFound
    <2> QED
      BY <1>0, <2>1, LockTyped, PutAndLeave DEF OpenFound
  <1>2. CASE ~(t.copy[i].type = "dir" /\ loc[p].mode # "r")
    <2>1. Do(p, t, "alloc") /\ lock' = [lock EXCEPT ![i] = p] /\ UNCHANGED loc
      BY <1>2 DEF OpenFound
    <2> QED
      BY <1>0, <2>1, GoesOn DEF OpenFound
  <1> QED
    BY <1>1, <1>2

(* create, when the name exists. *)
LEMMA CreateExistKeeps == ASSUME FsInv, ~Panicked, NEW p \in Proc, CreateExist(p) PROVE FsInv'
  <1> DEFINE i == loc[p].ip
             t == Ilock(fs, i)
  <1>0. pc[p] = "exist" /\ lock[i] = Nil
    BY DEF CreateExist
  <1>1. CASE loc[p].call = "creat" /\ t.copy[i].type = "file"
    <2>1. Do(p, t, "alloc") /\ lock' = [lock EXCEPT ![i] = p] /\ UNCHANGED loc
      BY <1>1 DEF CreateExist
    <2> QED
      BY <1>0, <1>1, <2>1, GoesOn DEF CreateExist
  <1>2. CASE ~(loc[p].call = "creat" /\ t.copy[i].type = "file")
    <2>1. Leave(p, Iput(t, i)) /\ lock' = lock
      BY <1>2 DEF CreateExist
    <2> QED
      BY <1>0, <2>1, LockTyped, PutAndLeave DEF CreateExist
  <1> QED
    BY <1>1, <1>2

(* The inode of the name in place of that of the directory. *)
LEMMA GetPutRead ==
    ASSUME FsInv, ~Panicked, NEW i, Linked(fs, i), NEW n \in Inum,
           NEW t, t = Iput(Iget(Ilock(fs, i), n), i), t.ok
    PROVE  /\ Grows(fs, t, {}) /\ t.wrote = {}
           /\ \A j \in Inum : t.ref[j] = fs.ref[j] + One(n, j) - One(i, j)
  <1> DEFINE u == Ilock(fs, i)
  <1>1. Grows(fs, u, {}) /\ u.ref = fs.ref /\ u.wrote = {} /\ i \in Inum
    BY ReadBack DEF Linked
  <1>2. \A j \in Inum : fs.ref[j] \in Nat
    BY DEF FsInv, MemInv
  <1> HIDE DEF u
  <1> DEFINE w == Iput(Iget(u, n), i)
  <1>3. t = w
    BY DEF u
  <1>4. w.ok => /\ Grows(fs, w, {}) /\ w.wrote = u.wrote
                /\ \A j \in Inum : w.ref[j] = fs.ref[j] + One(n, j) - One(i, j)
    BY <1>1, <1>2, GetPut
  <1> HIDE DEF w
  <1> QED
    BY <1>1, <1>3, <1>4

(* The inode of a name, in place of that of the directory: walk, and create. *)
LEMMA Forward ==
    ASSUME FsInv, ~Panicked, NEW p \in Proc, pc[p] \in {"walk", "create"},
           NEW l \in {"walk", "exist"}, NEW n, Linked(fs, n), NEW t,
           t = Iput(Iget(Ilock(fs, loc[p].ip), n), loc[p].ip),
           NEW r \in LocalType, r.ip = n, r.call = loc[p].call, ~r.ok,
           l = "exist" => r.call \in Create /\ r.elems # <<>>,
           Do(p, t, l), loc' = [loc EXCEPT ![p] = r],
           UNCHANGED <<disk, ops, lock, ftlock, file, ofile, cwd, ncalls>>
    PROVE  FsInv'
  <1> DEFINE i == loc[p].ip
  <1>0. /\ CallIs(fs, pc[p], cwd[p], loc[p]) /\ OpsOK(p)
        /\ \A j \in Inum : fs.ref[j] \in Nat
    BY Known
  <1>1. Linked(fs, i) /\ i \in Inum /\ loc[p].call \in Create \cup Lookup /\ Linked(fs, cwd[p]) /\ n \in Inum
    BY <1>0 DEF CallIs, Linked
  <1>4. CallMove(p, t, l, r)
    BY LockTyped DEF CallMove
  <1>5. ASSUME t.ok PROVE CallFits(p, t, l, r, {})
    <2>3. /\ Grows(fs, t, {}) /\ t.wrote = {}
          /\ \A j \in Inum : t.ref[j] = fs.ref[j] + One(n, j) - One(i, j)
      BY <1>1, <1>5, GetPutRead
    <2>4. Linked(t, n) /\ Linked(t, cwd[p])
      BY <1>1, <2>3 DEF Linked, Grows
    <2>5. CallIs(t, l, cwd[p], r)
      BY <1>1, <2>4 DEF CallIs
    <2>6. \A j \in Inum : t.ref[j] = fs.ref[j] - HeldBy(pc[p], cwd[p], loc[p], j) + HeldBy(l, cwd[p], r, j)
      <3> TAKE j \in Inum
      <3>1. /\ HeldBy(pc[p], cwd[p], loc[p], j) = One(cwd[p], j) + One(i, j)
            /\ HeldBy(l, cwd[p], r, j) = One(cwd[p], j) + One(n, j)
            /\ One(cwd[p], j) \in Nat /\ One(i, j) \in Nat /\ One(n, j) \in Nat
        BY <1>0, <2>5, HeldIs
      <3> QED
        BY <1>0, <2>3, <3>1
    <2>7. LockIs(p, t, l, r, file, lock')
      BY DEF LockIs
    <2>8. InOp(l, r) <=> InOp(pc[p], loc[p])
      BY <1>0 DEF InOp, CallIs, Create
    <2>9. (InOp(l, r) <=> p \in ops') /\ (p \notin ops' => wrote[p] = {})
      BY <1>0, <2>8 DEF OpsOK
    <2> QED
      BY <1>1, <2>3, <2>5, <2>6, <2>7, <2>9 DEF CallFits
  <1>6. pc[p] \in AtCall /\ l \in AtCall \cup {"end"}
    BY DEF AtCall
  <1> QED
    BY <1>4, <1>5, <1>6, CallStep

(* The inode that a directory lists. *)
LEMMA LookFinds ==
    ASSUME FsInv, ~Panicked, NEW i, Linked(fs, i), NEW name,
           NEW n, n = Dirlookup(Ilock(fs, i), Ilock(fs, i).copy[i], name), n # 0
    PROVE  Linked(fs, n)
  <1> DEFINE s == Ilock(fs, i)
  <1>1. s \in MemType /\ s.inode = fs.inode /\ s.valid[i] /\ Healthy(s) /\ i \in Inum
    BY ReadBack DEF Linked
  <1>2. n = Dirlookup(s, s.copy[i], name)
    OBVIOUS
  <1> HIDE DEF s
  <1> QED
    BY <1>1, <1>2, LookupLinked DEF Linked

(* One element of a path. *)
LEMMA WalkKeeps == ASSUME FsInv, ~Panicked, NEW p \in Proc, Walk(p) PROVE FsInv'
  <1> DEFINE l    == loc[p]
             t    == Ilock(fs, l.ip)
             next == Dirlookup(t, t.copy[l.ip], Head(l.elems))
             dir  == t.copy[l.ip].type = "dir"
             stop == l.call \in Create /\ Len(l.elems) = 1
             r    == [l EXCEPT !.ip = next, !.elems = Tail(l.elems)]
  <1>0. pc[p] = "walk" /\ l.elems # <<>> /\ lock[l.ip] = Nil
        /\ UNCHANGED <<disk, ops, lock, ftlock, file, ofile, cwd, ncalls>>
    BY DEF Walk
  <1>1. \/ dir /\ stop /\ Do(p, t, "create") /\ UNCHANGED loc
        \/ (~dir \/ (~stop /\ next = 0)) /\ Leave(p, Iput(t, l.ip))
        \/ /\ dir /\ ~stop /\ next # 0
           /\ Do(p, Iput(Iget(t, next), l.ip), "walk")
           /\ Local(p, r)
    BY DEF Walk
  <1> HIDE DEF dir
  <1>2. CASE stop /\ Do(p, t, "create") /\ UNCHANGED loc
    BY <1>0, <1>2, GoesOn
  <1>3. CASE Leave(p, Iput(t, l.ip))
    BY <1>0, <1>3, LockTyped, PutAndLeave
  <1>4. CASE next # 0 /\ Do(p, Iput(Iget(t, next), l.ip), "walk") /\ Local(p, r)
    <2>1. l \in LocalType /\ Linked(fs, l.ip)
      BY <1>0, Known DEF CallIs
    <2>2. Linked(fs, next) /\ next \in Inum
      BY <1>4, <2>1, LookFinds DEF Linked
    <2>3. l.elems \in Seq(Name \cup {".", ".."})
      BY <2>1 DEF LocalType
    <2>4. Tail(l.elems) \in Seq(Name \cup {".", ".."})
      BY <1>0, <2>3
    <2> HIDE DEF next
    <2>5. r \in LocalType /\ r.ip = next /\ r.call = l.call /\ r.ok = l.ok /\ r.elems = Tail(l.elems)
      BY <2>1, <2>2, <2>4 DEF LocalType
    <2> HIDE DEF r
    <2>6. loc' = [loc EXCEPT ![p] = r]
      BY <1>4 DEF Local
    <2>7. ~r.ok
      BY <1>0, <2>5, Known DEF CallIs
    <2> QED
      BY <1>0, <1>4, <2>2, <2>5, <2>6, <2>7, Forward
  <1> QED
    BY <1>1, <1>2, <1>3, <1>4

-----------------------------------------------------------------------------
(* sys_chdir has a directory. *)
LEMMA ChdirGoes ==
    ASSUME FsInv, ~Panicked, NEW p \in Proc, pc[p] = "walk", loc[p].call = "chdir",
           NEW t, t = Iput(Ilock(fs, loc[p].ip), cwd[p]), Do(p, t, "end"),
           loc' = [loc EXCEPT ![p] = [loc[p] EXCEPT !.ok = TRUE]],
           UNCHANGED <<disk, ops, lock, ftlock, file, ofile, cwd, ncalls>>
    PROVE  FsInv'
  <1> DEFINE i == loc[p].ip
             c == cwd[p]
             u == Ilock(fs, i)
             r == [loc[p] EXCEPT !.ok = TRUE]
  <1>0. /\ CallIs(fs, pc[p], cwd[p], loc[p]) /\ OpsOK(p) /\ loc[p] \in LocalType
        /\ \A j \in Inum : fs.ref[j] \in Nat
    BY Known
  <1>1. Linked(fs, i) /\ Linked(fs, c) /\ c \in Inum
    BY <1>0 DEF CallIs, Linked
  <1>2. r \in LocalType /\ r.ip = i /\ r.call = "chdir" /\ r.ok
    BY <1>0 DEF LocalType
  <1>3. Grows(fs, t, {}) /\ t.wrote = {} /\ \A j \in Inum : t.ref[j] = fs.ref[j] - One(c, j)
    <2>1. Grows(fs, u, {}) /\ u.wrote = {} /\ u.ref = fs.ref
      BY <1>1, ReadBack
    <2> HIDE DEF u
    <2>2. LET v == Iput(u, c) IN
          Grows(fs, v, {}) /\ v.wrote = u.wrote /\ \A j \in Inum : v.ref[j] = u.ref[j] - One(c, j)
      BY <1>1, <2>1, PutEffect
    <2>3. t = Iput(u, c)
      BY DEF u
    <2> QED
      BY <2>1, <2>2, <2>3
  <1> HIDE DEF r
  <1>4. CallMove(p, t, "end", r)
    BY LockTyped DEF CallMove, r
  <1>5. CallFits(p, t, "end", r, {})
    <2>1. Linked(t, i) /\ Linked(t, c)
      BY <1>1, <1>3 DEF Linked, Grows
    <2>2. CallIs(t, "end", c, r)
      BY <1>2, <2>1 DEF CallIs
    <2>3. \A j \in Inum : t.ref[j] = fs.ref[j] - HeldBy(pc[p], cwd[p], loc[p], j) + HeldBy("end", cwd[p], r, j)
      <3> TAKE j \in Inum
      <3>1. HeldBy(pc[p], cwd[p], loc[p], j) = One(c, j) + One(i, j) /\ One(c, j) \in Nat /\ One(i, j) \in Nat
        BY <1>0, HeldIs
      <3>2. HeldBy("end", cwd[p], r, j) = One(i, j)
        BY <1>2, <2>2, HeldIs
      <3> QED
        BY <1>0, <1>3, <3>1, <3>2
    <2>4. LockIs(p, t, "end", r, file, lock')
      BY DEF LockIs
    <2>5. InOp("end", r) /\ p \in ops'
      BY <1>0 DEF OpsOK, InOp
    <2> QED
      BY <1>2, <1>3, <2>2, <2>3, <2>4, <2>5 DEF CallFits
  <1>6. pc[p] \in AtCall /\ "end" \in AtCall \cup {"end"}
    BY DEF AtCall
  <1> QED
    BY <1>2, <1>4, <1>5, <1>6, CallStep

(* chdir, when namei has found its inode. *)
LEMMA ChdirFoundKeeps == ASSUME FsInv, ~Panicked, NEW p \in Proc, ChdirFound(p) PROVE FsInv'
  <1> DEFINE i == loc[p].ip
             t == Ilock(fs, i)
  <1>0. pc[p] = "walk" /\ loc[p].call = "chdir" /\ UNCHANGED <<disk, ops, lock, ftlock, file, ofile, cwd, ncalls>>
    BY DEF ChdirFound, Found
  <1>1. CASE t.copy[i].type # "dir"
    <2>1. Leave(p, Iput(t, i))
      BY <1>1 DEF ChdirFound
    <2> QED
      BY <1>0, <2>1, LockTyped, PutAndLeave
  <1>2. CASE t.copy[i].type = "dir"
    <2>1. Do(p, Iput(t, cwd[p]), "end") /\ loc' = [loc EXCEPT ![p] = [loc[p] EXCEPT !.ok = TRUE]]
      BY <1>2 DEF ChdirFound, Local
    <2> QED
      BY <1>0, <2>1, ChdirGoes
  <1> QED
    BY <1>1, <1>2

(* create has its directory. *)
LEMMA LookGoes ==
    ASSUME FsInv, ~Panicked, NEW p \in Proc, pc[p] = "create", lock[loc[p].ip] = Nil,
           NEW t, t = Ilock(fs, loc[p].ip), Do(p, t, "ialloc"),
           lock' = [lock EXCEPT ![loc[p].ip] = p],
           loc' = [loc EXCEPT ![p] = [loc[p] EXCEPT !.dp = loc[p].ip, !.ip = 0]],
           UNCHANGED <<disk, ops, ftlock, file, ofile, cwd, ncalls>>
    PROVE  FsInv'
  <1> DEFINE i == loc[p].ip
             r == [loc[p] EXCEPT !.dp = i, !.ip = 0]
  <1>0. /\ CallIs(fs, pc[p], cwd[p], loc[p]) /\ OpsOK(p) /\ loc[p] \in LocalType
        /\ \A j \in Inum : fs.ref[j] \in Nat
    BY Known
  <1>1. Linked(fs, i) /\ Linked(fs, cwd[p]) /\ i \in Inum /\ ~loc[p].ok /\ loc[p].call \in Create
        /\ loc[p].elems # <<>>
    BY <1>0 DEF CallIs, Linked
  <1>2. r \in LocalType /\ r.dp = i /\ r.call = loc[p].call /\ ~r.ok /\ r.elems = loc[p].elems
    BY <1>0, <1>1 DEF LocalType
  <1>3. Grows(fs, t, {}) /\ t.wrote = {} /\ t.ref = fs.ref /\ t.valid[i]
    BY <1>1, ReadBack
  <1>7. lock' \in [Inum -> Proc \cup {Nil}] /\ lock'[i] = p
        /\ \A q \in Proc \ {p} : \A j \in Inum : lock[j] = q => lock'[j] = q
    BY <1>1, LockTyped, FsAssumption
  <1> HIDE DEF r
  <1>4. CallMove(p, t, "ialloc", r)
    BY <1>7, LockTyped DEF CallMove, r
  <1>5. CallFits(p, t, "ialloc", r, {})
    <2>1. Linked(t, i) /\ Linked(t, cwd[p])
      BY <1>1, <1>3 DEF Linked, Grows
    <2>2. CallIs(t, "ialloc", cwd[p], r)
      BY <1>1, <1>2, <1>3, <2>1 DEF CallIs
    <2>3. \A j \in Inum : t.ref[j] = fs.ref[j] - HeldBy(pc[p], cwd[p], loc[p], j) + HeldBy("ialloc", cwd[p], r, j)
      <3> TAKE j \in Inum
      <3>1. HeldBy(pc[p], cwd[p], loc[p], j) = One(cwd[p], j) + One(i, j)
            /\ One(cwd[p], j) \in Nat /\ One(i, j) \in Nat
        BY <1>0, HeldIs
      <3>2. HeldBy("ialloc", cwd[p], r, j) = One(cwd[p], j) + One(i, j)
        BY <1>2, <2>2, HeldIs
      <3> QED
        BY <1>0, <1>3, <3>1, <3>2
    <2>4. LockIs(p, t, "ialloc", r, file, lock')
      BY <1>2, <1>7 DEF LockIs
    <2>5. InOp("ialloc", r) /\ p \in ops'
      BY <1>0 DEF OpsOK, InOp
    <2> QED
      BY <1>2, <1>3, <2>2, <2>3, <2>4, <2>5 DEF CallFits
  <1>6. pc[p] \in AtCall /\ "ialloc" \in AtCall \cup {"end"}
    BY DEF AtCall
  <1> QED
    BY <1>2, <1>4, <1>5, <1>6, CallStep

(* create looks its name up. *)
LEMMA CreateLookKeeps == ASSUME FsInv, ~Panicked, NEW p \in Proc, CreateLook(p) PROVE FsInv'
  <1> DEFINE dp == loc[p].ip
             t  == Ilock(fs, dp)
             ip == Dirlookup(t, t.copy[dp], Name1(p))
             r  == [loc[p] EXCEPT !.ip = ip]
  <1>0. pc[p] = "create" /\ lock[dp] = Nil /\ UNCHANGED <<disk, ops, ftlock, file, ofile, cwd, ncalls>>
    BY DEF CreateLook
  <1>1. CallIs(fs, pc[p], cwd[p], loc[p]) /\ loc[p] \in LocalType /\ Linked(fs, dp)
    BY <1>0, Known DEF CallIs
  <1>2. CASE ip # 0
    <2>1. Do(p, Iput(Iget(t, ip), dp), "exist") /\ loc' = [loc EXCEPT ![p] = r] /\ UNCHANGED lock
      BY <1>2 DEF CreateLook, Local
    <2>2. Linked(fs, ip) /\ ip \in Inum
      BY <1>1, <1>2, LookFinds DEF Linked
    <2> HIDE DEF ip
    <2>3. r \in LocalType /\ r.ip = ip /\ r.call = loc[p].call /\ ~r.ok /\ r.call \in Create /\ r.elems # <<>>
      BY <1>0, <1>1, <2>2 DEF LocalType, CallIs
    <2> HIDE DEF r
    <2> QED
      BY <1>0, <2>1, <2>2, <2>3, Forward
  <1>3. CASE ip = 0
    <2>1. /\ Do(p, t, "ialloc") /\ lock' = [lock EXCEPT ![dp] = p]
          /\ loc' = [loc EXCEPT ![p] = [loc[p] EXCEPT !.dp = dp, !.ip = 0]]
      BY <1>3 DEF CreateLook, Local
    <2> QED
      BY <1>0, <2>1, LookGoes
  <1> QED
    BY <1>2, <1>3

-----------------------------------------------------------------------------
(* create takes an inode. *)
LEMMA CreateIallocKeeps == ASSUME FsInv, ~Panicked, NEW p \in Proc, CreateIalloc(p) PROVE FsInv'
  <1> DEFINE type == Made[loc[p].call]
             n  == Min(FreeInum(fs))
             i  == IF FreeInum(fs) = {} THEN 0 ELSE n
             dp == loc[p].dp
             t  == Ialloc(fs, type)
             r  == [loc[p] EXCEPT !.ip = i]
  <1>0. /\ CallIs(fs, pc[p], cwd[p], loc[p]) /\ OpsOK(p) /\ LockOK(p) /\ loc[p] \in LocalType
        /\ Healthy(fs) /\ fs.wrote = {}
        /\ \A j \in Inum : fs.ref[j] \in Nat
    BY Known
  <1>1. /\ pc[p] = "ialloc" /\ Do(p, t, "fill") /\ loc' = [loc EXCEPT ![p] = r]
        /\ UNCHANGED <<disk, ops, lock, ftlock, file, ofile, cwd, ncalls>>
    BY DEF CreateIalloc, Local
  <1>2. /\ Linked(fs, dp) /\ Linked(fs, cwd[p]) /\ dp \in Inum /\ ~loc[p].ok /\ loc[p].call \in Create
        /\ loc[p].elems # <<>> /\ fs.valid[dp] /\ lock[dp] = p
    BY <1>0, <1>1 DEF CallIs, Linked, LockOK, LockIs
  <1>3. type \in Type
    BY <1>2 DEF Create, Made, Type
  <1>4. FreeInum(fs) \subseteq Inum /\ FreeInum(fs) \subseteq Nat
    BY Sizes1 DEF FreeInum, Inum
  <1>5. i \in Inum \cup {0}
    BY <1>4, LeastNumber
  <1> HIDE DEF i
  <1>6. r \in LocalType /\ r.ip = i /\ r.dp = dp /\ r.call = loc[p].call /\ ~r.ok /\ r.elems = loc[p].elems
    BY <1>0, <1>2, <1>5 DEF LocalType
  <1>7. fs.ref[dp] > 0
    BY <1>1, <1>2, PlaceHeld DEF FsInv, Running
  <1> HIDE DEF t, r, type, n
  <1>8. CallMove(p, t, "fill", r)
    BY <1>1, LockTyped DEF CallMove
  <1>9. ASSUME t.ok PROVE CallFits(p, t, "fill", r, {})
    <2>1. /\ n \in FreeInum(fs) /\ i = n
          /\ Grows(fs, t, {}) /\ t.ref = [fs.ref EXCEPT ![n] = @ + 1]
          /\ t.inode[n] = NewInode(type, 0)
      BY <1>0, <1>3, <1>9, IallocEffect DEF t, n, i
    <2>2. Linked(t, dp) /\ Linked(t, cwd[p]) /\ t.valid[dp]
      BY <1>2, <1>7, <2>1 DEF Linked, Grows
    <2>3. i \in Inum /\ fs.inode[i].type = "free"
      BY <2>1 DEF FreeInum
    <2>4. t.inode[i].nlink = 0 /\ t.inode[i].type = type /\ t.inode[i].size = 0
      BY <2>1 DEF NewInode
    <2>5. CallIs(t, "fill", cwd[p], r)
      BY <1>2, <1>6, <2>2, <2>3, <2>4 DEF CallIs, type
    <2>6. \A j \in Inum : t.ref[j] = fs.ref[j] - HeldBy(pc[p], cwd[p], loc[p], j) + HeldBy("fill", cwd[p], r, j)
      <3> TAKE j \in Inum
      <3>1. HeldBy(pc[p], cwd[p], loc[p], j) = One(cwd[p], j) + One(dp, j)
            /\ One(cwd[p], j) \in Nat /\ One(dp, j) \in Nat
        BY <1>0, <1>1, HeldIs
      <3>2. HeldBy("fill", cwd[p], r, j) = One(cwd[p], j) + One(i, j) + One(dp, j) /\ One(i, j) \in Nat
        BY <1>6, <2>5, HeldIs
      <3>3. t.ref[j] = fs.ref[j] + One(i, j)
        <4>1. fs.ref \in [Inum -> Int]
          BY <1>0 DEF Healthy, MemType
        <4> QED
          BY <1>0, <2>1, <4>1 DEF One
      <3> QED
        BY <1>0, <3>1, <3>2, <3>3
    <2>7. LockIs(p, t, "fill", r, file, lock')
      BY <1>1, <1>2, <1>6 DEF LockIs
    <2>8. InOp("fill", r) /\ p \in ops'
      BY <1>0, <1>1 DEF OpsOK, InOp
    <2> QED
      BY <1>6, <2>1, <2>3, <2>5, <2>6, <2>7, <2>8 DEF CallFits
  <1>10. pc[p] \in AtCall /\ "fill" \in AtCall \cup {"end"}
    BY <1>1 DEF AtCall
  <1> QED
    BY <1>6, <1>8, <1>9, <1>10, CallStep

(* What create relies on. *)
LEMMA FillingNow == ASSUME FsInv, ~Panicked, NEW p \in Proc, pc[p] = "fill" PROVE Filling(p)
  <1>1. CallIs(fs, pc[p], cwd[p], loc[p]) /\ loc[p] \in LocalType
    BY Known
  <1>2. Healthy(fs) /\ fs.wrote = {} /\ fs.ok
    BY DEF FsInv, MemInv
  <1>3. fs.inode[loc[p].ip].type # "free"
    BY <1>1 DEF CallIs, Made, Create
  <1>4. Name1(p) \in Name \cup {".", ".."}
    <2>1. loc[p].elems \in Seq(Name \cup {".", ".."}) /\ loc[p].elems # <<>>
      BY <1>1 DEF CallIs, LocalType
    <2> QED
      BY <2>1 DEF Name1
  <1> QED
    BY <1>1, <1>2, <1>3, <1>4 DEF CallIs, Linked, Filling

(* The new inode is in its directory. *)
LEMMA FillPut ==
    ASSUME FsInv, ~Panicked, NEW p \in Proc, pc[p] = "fill",
           NEW t, t = Iput(Filled(p), loc[p].dp), t.ok
    PROVE  /\ Grows(fs, t, {loc[p].ip}) /\ t.inode[loc[p].ip].nlink > 0
           /\ \A j \in Inum : t.ref[j] = fs.ref[j] - One(loc[p].dp, j)
  <1> DEFINE u  == Filled(p)
             dp == loc[p].dp
             i  == loc[p].ip
  <1>0. Filling(p)
    BY FillingNow
  <1>1. dp \in Inum
    BY <1>0 DEF Filling
  <1>2. u \in MemType /\ (u.ok => Grows(fs, u, {i}) /\ u.ref = fs.ref /\ u.inode[i].nlink > 0)
    BY <1>0, FilledEffect
  <1> HIDE DEF u
  <1>3. u.ok
    <2>1. t = Iput(u, dp)
      BY DEF u
    <2> QED
      BY <1>2, <2>1, PutOk
  <1>4. LET v == Iput(u, dp) IN
        /\ Grows(fs, v, {i}) /\ v.inode = u.inode
        /\ \A j \in Inum : v.ref[j] = u.ref[j] - One(dp, j)
    BY <1>1, <1>2, <1>3, PutEffect
  <1>5. t = Iput(u, dp)
    BY DEF u
  <1> QED
    BY <1>2, <1>3, <1>4, <1>5

-----------------------------------------------------------------------------
(* The locks of create are let go, but for that of a file to open. *)
LEMMA FillLocks ==
    ASSUME FsInv, ~Panicked, NEW p \in Proc, pc[p] = "fill", lock[loc[p].ip] = Nil, NEW x \in {p, Nil},
           lock' = [lock EXCEPT ![loc[p].dp] = Nil, ![loc[p].ip] = x]
    PROVE  /\ lock' \in [Inum -> Proc \cup {Nil}] /\ lock'[loc[p].ip] = x
           /\ \A q \in Proc \ {p} : \A j \in Inum : lock[j] = q => lock'[j] = q
  <1>1. LockOK(p) /\ lock \in [Inum -> Proc \cup {Nil}]
    BY Known, LockTyped
  <1>2. lock[loc[p].dp] = p
    BY <1>1 DEF LockOK, LockIs
  <1>3. Filling(p)
    BY FillingNow
  <1>4. loc[p].dp \in Inum /\ loc[p].ip \in Inum
    BY <1>3 DEF Filling
  <1>5. lock' \in [Inum -> Proc \cup {Nil}] /\ lock'[loc[p].ip] = x
    BY <1>1, <1>4
  <1>6. \A q \in Proc \ {p} : \A j \in Inum : lock[j] = q => lock'[j] = q
    <2> SUFFICES ASSUME NEW q \in Proc \ {p}, NEW j \in Inum, lock[j] = q PROVE lock'[j] = q
      OBVIOUS
    <2>1. j # loc[p].dp /\ j # loc[p].ip
      BY <1>2, FsAssumption
    <2> QED
      BY <1>1, <1>4, <2>1
  <1> QED
    BY <1>5, <1>6

(* create fills its inode and its directory. *)
LEMMA CreateFillKeeps == ASSUME FsInv, ~Panicked, NEW p \in Proc, CreateFill(p) PROVE FsInv'
  <1> DEFINE i  == loc[p].ip
             dp == loc[p].dp
             t  == Iput(Filled(p), dp)
             creat == loc[p].call = "creat"
  <1>0. /\ CallIs(fs, pc[p], cwd[p], loc[p]) /\ OpsOK(p) /\ loc[p] \in LocalType
        /\ loc = [loc EXCEPT ![p] = loc[p]]
        /\ \A j \in Inum : fs.ref[j] \in Nat
    BY Known
  <1>1. pc[p] = "fill" /\ lock[i] = Nil /\ UNCHANGED <<disk, ops, ftlock, file, ofile, cwd, ncalls>>
    BY DEF CreateFill
  <1>2. /\ i \in Inum /\ dp \in Inum /\ Linked(fs, cwd[p]) /\ ~loc[p].ok /\ loc[p].call \in Create
    <2>1. Filling(p)
      BY <1>1, FillingNow
    <2> QED
      BY <1>0, <1>1, <2>1 DEF CallIs, Filling
  <1>3. ASSUME t.ok
        PROVE  /\ Grows(fs, t, {i}) /\ t.inode[i].nlink > 0
               /\ \A j \in Inum : t.ref[j] = fs.ref[j] - One(dp, j)
    BY <1>1, <1>3, FillPut
  <1>4. \A j \in Inum : /\ HeldBy(pc[p], cwd[p], loc[p], j) = One(cwd[p], j) + One(i, j) + One(dp, j)
                        /\ One(cwd[p], j) \in Nat /\ One(i, j) \in Nat /\ One(dp, j) \in Nat
    BY <1>0, <1>1, HeldIs
  <1>5. CASE creat
    <2>1. Do(p, t, "alloc") /\ UNCHANGED loc /\ lock' = [lock EXCEPT ![dp] = Nil, ![i] = p]
      BY <1>5 DEF CreateFill
    <2> HIDE DEF t
    <2>2. /\ lock' \in [Inum -> Proc \cup {Nil}] /\ lock'[i] = p
          /\ \A q \in Proc \ {p} : \A j \in Inum : lock[j] = q => lock'[j] = q
      BY <1>1, <2>1, FillLocks
    <2>3. CallMove(p, t, "alloc", loc[p])
      BY <1>0, <1>1, <2>1, <2>2, LockTyped DEF CallMove
    <2>4. ASSUME t.ok PROVE CallFits(p, t, "alloc", loc[p], {i})
      <3>1. Linked(t, i) /\ Linked(t, cwd[p])
        BY <1>2, <1>3, <2>4 DEF Linked, Grows
      <3>2. CallIs(t, "alloc", cwd[p], loc[p])
        BY <1>2, <1>5, <3>1 DEF CallIs
      <3>3. \A j \in Inum : t.ref[j] = fs.ref[j] - HeldBy(pc[p], cwd[p], loc[p], j) + HeldBy("alloc", cwd[p], loc[p], j)
        <4> TAKE j \in Inum
        <4>1. HeldBy("alloc", cwd[p], loc[p], j) = One(cwd[p], j) + One(i, j)
          BY <3>2, HeldIs
        <4> QED
          BY <1>0, <1>3, <1>4, <2>4, <4>1
      <3>4. LockIs(p, t, "alloc", loc[p], file, lock')
        BY <2>2 DEF LockIs
      <3>5. InOp("alloc", loc[p]) /\ p \in ops'
        BY <1>0, <1>1 DEF OpsOK, InOp
      <3> QED
        BY <1>1, <1>2, <1>3, <2>4, <3>2, <3>3, <3>4, <3>5 DEF CallFits
    <2>5. pc[p] \in AtCall /\ "alloc" \in AtCall \cup {"end"}
      BY <1>1 DEF AtCall
    <2> QED
      BY <1>0, <2>3, <2>4, <2>5, CallStep
  <1>6. CASE ~creat
    <2>1. Leave(p, Iput(t, i)) /\ lock' = [lock EXCEPT ![dp] = Nil, ![i] = Nil]
      BY <1>6 DEF CreateFill
    <2> DEFINE u == Iput(t, i)
    <2>2. u.ok = t.ok
      BY DEF Iput
    <2> HIDE DEF t
    <2>3. /\ lock' \in [Inum -> Proc \cup {Nil}]
          /\ \A q \in Proc \ {p} : \A j \in Inum : lock[j] = q => lock'[j] = q
      BY <1>1, <2>1, FillLocks
    <2>4. ASSUME t.ok
          PROVE  /\ Grows(fs, u, {i})
                 /\ \A j \in Inum : u.ref[j] = t.ref[j] - One(i, j)
      <3>1. Grows(fs, t, {i}) /\ i \in Inum
        BY <1>2, <1>3, <2>4
      <3>2. /\ Grows(fs, Iput(t, i), {i})
            /\ \A j \in Inum : Iput(t, i).ref[j] = t.ref[j] - One(i, j)
        BY <3>1, PutEffect
      <3> QED
        BY <3>2 DEF u
    <2> HIDE DEF u
    <2>5. ASSUME u.ok, NEW j \in Inum
          PROVE  u.ref[j] = fs.ref[j] - HeldBy(pc[p], cwd[p], loc[p], j) + One(cwd[p], j)
      <3>1. u.ref[j] = t.ref[j] - One(i, j) /\ t.ref[j] = fs.ref[j] - One(dp, j)
        BY <1>3, <2>2, <2>4, <2>5
      <3> QED
        BY <1>0, <1>4, <3>1
    <2>6. u.ok => Grows(fs, u, {i})
      BY <2>2, <2>4
    <2>7. loc[p].call # "exec"
      BY <1>2 DEF Create
    <2>8. Leave(p, u) /\ pc[p] \in AtCall \ {"user"} /\ {i} \subseteq IF pc[p] = "fill" THEN {loc[p].ip} ELSE {}
      BY <1>1, <2>1 DEF u, AtCall
    <2> QED
      BY <1>1, <2>3, <2>5, <2>6, <2>7, <2>8, LeaveStep
  <1> QED
    BY <1>5, <1>6

-----------------------------------------------------------------------------
(* What a step of p leaves to the others: their transactions and locks, and *)
(* the offsets at which they write.                                        *)
Leaves(p) ==
    \A q \in Proc \ {p} :
       /\ q \in ops' <=> q \in ops
       /\ wrote'[q] = wrote[q]
       /\ \A i \in Inum : lock[i] = q => lock'[i] = q
       /\ pc[q] = "wadv" => /\ file'[loc[q].f].ip = file[loc[q].f].ip
                            /\ file'[loc[q].f].off = file[loc[q].f].off

(* Where p is after its step. *)
Arrives(p) ==
    /\ CallIs(fs', pc'[p], cwd'[p], loc'[p]) /\ pc'[p] # "fill"
    /\ LockIs(p, fs', pc'[p], loc'[p], file', lock')
    /\ InOp(pc'[p], loc'[p]) <=> p \in ops'
    /\ p \notin ops' => wrote'[p] = {}
    /\ pc'[p] = "wadv" => file'[loc'[p].f].off = loc'[p].at

(* The file table after a step. *)
Tabled ==
    /\ \A f \in File : FileOK(f)' /\ file'[f].ref = Cardinality(Refs(f)')
    /\ \A q \in Proc : DescOK(q)'

(* The file system in memory, and the disk. *)
Stored == /\ Healthy(fs') /\ fs'.wrote = {} /\ fs'.ok /\ Grows(fs, fs', {})
          /\ Readable(disk') /\ LogInv'

(* A step outside of namei and create keeps the invariant, when it leaves  *)
(* the others what they have.                                              *)
LEMMA FileStep ==
    ASSUME FsInv, ~Panicked, NEW p \in Proc, TypeInv', Only(p), Leaves(p), Arrives(p), Tabled, Stored,
           \A i \in Inum : fs'.ref[i] = Uses(i)'
    PROVE  FsInv'
  <1>0. TypeInv /\ MemInv /\ LogInv /\ Running /\ OffsetUnderLock
    BY DEF FsInv
  <1>1. \A q \in Proc : CallIs(fs, pc[q], cwd[q], loc[q]) /\ LockOK(q) /\ DescOK(q) /\ OpsOK(q)
    BY <1>0 DEF Running, CallOK
  <1>2. \A q \in Proc : q # p => pc'[q] = pc[q] /\ loc'[q] = loc[q] /\ cwd'[q] = cwd[q]
    BY DEF Only
  <1>3. \A q \in Proc : CallOK(q)'
    <2> TAKE q \in Proc
    <2>1. CASE q = p
      BY <2>1 DEF Arrives, CallOK
    <2>2. CASE q # p
      <3>1. pc[q] = "fill" => Made[loc[q].call] # "free"
        BY <1>1 DEF CallIs, Made, Create
      <3>2. pc[q] \in {"ialloc", "fill"} => fs.ref[loc[q].dp] > 0
        BY <1>0, <1>1, PlaceHeld DEF Running, CallIs, Linked
      <3>3. CallIs(fs', pc[q], cwd[q], loc[q])
        BY <1>1, <3>1, <3>2, CallFrame DEF Stored
      <3> QED
        BY <1>2, <2>2, <3>3 DEF CallOK
    <2> QED
      BY <2>1, <2>2
  <1>4. \A q \in Proc : LockOK(q)'
    <2> TAKE q \in Proc
    <2>1. CASE q = p
      BY <2>1 DEF Arrives, LockOK
    <2>2. CASE q # p
      <3>1. LockIs(q, fs, pc[q], loc[q], file, lock) /\ \A i \in Inum : lock[i] = q => lock'[i] = q
        BY <1>1, <2>2 DEF LockOK, Leaves
      <3>2. pc[q] = "wadv" => file'[loc[q].f].ip = file[loc[q].f].ip /\ Linked(fs, file[loc[q].f].ip)
        <4>1. pc[q] = "wadv" => loc[q].f \in File /\ file[loc[q].f].type = "inode"
          BY <1>1 DEF DescOK, DescIs, Writing
        <4> QED
          BY <1>0, <2>2, <4>1 DEF Running, FileOK, Leaves
      <3>3. LockIs(q, fs', pc[q], loc[q], file', lock')
        BY <1>0, <1>1, <3>1, <3>2, LockFrame DEF MemInv, Stored
      <3> QED
        BY <1>2, <2>2, <3>3 DEF LockOK
    <2> QED
      BY <2>1, <2>2
  <1>5. \A q \in Proc : OpsOK(q)'
    <2> TAKE q \in Proc
    <2>1. CASE q = p
      BY <2>1 DEF Arrives, OpsOK
    <2>2. CASE q # p
      BY <1>1, <1>2, <2>2 DEF OpsOK, Leaves
    <2> QED
      BY <2>1, <2>2
  <1>6. FillsApart'
    BY <1>0, <1>2 DEF FillsApart, Running, Arrives
  <1>7. OffsetUnderLock'
    <2> SUFFICES ASSUME NEW q \in Proc, pc'[q] = "wadv" PROVE file'[loc'[q].f].off = loc'[q].at
      BY DEF OffsetUnderLock
    <2>1. CASE q = p
      BY <2>1 DEF Arrives
    <2>2. CASE q # p
      BY <1>0, <1>2, <2>2 DEF OffsetUnderLock, Leaves
    <2> QED
      BY <2>1, <2>2
  <1>8. MemInv'
    <2>1. ASSUME NEW i \in Inum PROVE fs'.ref[i] \in Nat
      <3>1. (Uses(i) \in Nat)'
        BY UsesAre, PTL
      <3> QED
        BY <3>1
    <2> QED
      BY <2>1 DEF MemInv, Stored
  <1>9. Running'
    BY <1>3, <1>4, <1>5, <1>6 DEF Running, Tabled
  <1> QED
    BY <1>7, <1>8, <1>9 DEF FsInv, Tabled, Stored

(* end_op *)
LEMMA EndOpEffect ==
    ASSUME FsInv, ~Panicked, NEW p \in Proc, EndOp(p), UNCHANGED fs
    PROVE  /\ Stored /\ ops' \subseteq Proc /\ p \notin ops' /\ wrote'[p] = {}
           /\ \A q \in Proc \ {p} : wrote'[q] = wrote[q] /\ (q \in ops' <=> q \in ops)
  <1>0. TypeInv /\ MemInv /\ LogInv
    BY DEF FsInv
  <1>1. \A q \in Proc : q \notin ops => wrote[q] = {}
    BY Known DEF OpsOK
  <1>2. /\ ops' = ops \ {p} /\ wrote' = [wrote EXCEPT ![p] = {}]
        /\ disk' \in {disk, Image(fs)}
        /\ logged' = logged \/ (ops = {p} /\ logged' = {})
    BY DEF EndOp
  <1>3. LogInv'
    BY <1>0, <1>1, <1>2 DEF LogInv
  <1>4. Readable(disk') /\ Healthy(fs) /\ Grows(fs, fs, {})
    BY <1>0, <1>2, Known DEF MemInv, Healthy
  <1>5. Stored
    BY <1>0, <1>3, <1>4 DEF Stored, MemInv
  <1> QED
    BY <1>0, <1>2, <1>5 DEF LogInv, TypeInv

(* No file is opened or closed. *)
LEMMA FilesKept ==
    ASSUME FsInv, ~Panicked, NEW p \in Proc, Only(p), UNCHANGED <<ofile, ftlock>>,
           \A f \in File : /\ file'[f].type = file[f].type /\ file'[f].ip = file[f].ip
                           /\ file'[f].ref = file[f].ref /\ file'[f].write = file[f].write,
           Grows(fs, fs', {}),
           pc[p] \in Closing => pc'[p] \in Closing /\ loc'[p].f = loc[p].f,
           DescIs(p, pc'[p], loc'[p], file, ofile, ftlock)
    PROVE  Tabled
  <1>0. /\ \A f \in File : FileOK(f) /\ file[f].ref = Cardinality(Refs(f))
        /\ \A q \in Proc : DescIs(q, pc[q], loc[q], file, ofile, ftlock)
        /\ ofile \in [Proc -> [Fd -> File \cup {Nil}]]
    BY DEF FsInv, Running, TypeInv, DescOK
  <1>1. \A i : Linked(fs, i) => Linked(fs', i)
    BY DEF Linked, Grows
  <1>2. ASSUME NEW f \in File PROVE FileOK(f)'
    <2>1. \A q \in Proc : pc[q] \in Closing => pc'[q] \in Closing /\ loc'[q].f = loc[q].f
      BY DEF Only
    <2>2. FileOK(f)
      BY <1>0
    <2> QED
      BY <1>1, <2>1, <2>2 DEF FileOK
  <1>3. ASSUME NEW q \in Proc PROVE DescOK(q)'
    <2>1. DescIs(q, pc'[q], loc'[q], file, ofile, ftlock)
      BY <1>0 DEF Only
    <2>2. \A fd \in Fd : ofile[q][fd] \in File \cup {Nil}
      BY <1>0
    <2>3. DescIs(q, pc'[q], loc'[q], file', ofile, ftlock)
      BY <2>1, <2>2 DEF DescIs
    <2> QED
      BY <2>3 DEF DescOK
  <1>4. \A f \in File : file'[f].ref = Cardinality(Refs(f)')
    BY <1>0 DEF Refs, RefsIn
  <1> QED
    BY <1>2, <1>3, <1>4 DEF Tabled

-----------------------------------------------------------------------------
(* A process counts its directory only, before the step and after it. *)
LEMMA StillHeld ==
    ASSUME FsInv, ~Panicked, NEW p \in Proc, Only(p),
           CallIs(fs', pc'[p], cwd'[p], loc'[p]),
           pc[p] \notin {"walk", "create", "exist", "alloc", "ialloc", "fill", "cend"}, ~loc[p].ok,
           pc'[p] \notin {"walk", "create", "exist", "alloc", "ialloc", "fill", "cend"}, ~loc'[p].ok,
           cwd' = cwd, fs'.ref = fs.ref,
           \A f \in File : file'[f].type = file[f].type /\ (file[f].type = "inode" => file'[f].ip = file[f].ip)
    PROVE  \A i \in Inum : fs'.ref[i] = Uses(i)'
  <1> TAKE i \in Inum
  <1>1. HeldBy(pc[p], cwd[p], loc[p], i) = One(cwd[p], i) /\ One(cwd[p], i) \in Nat
    BY Known, HeldIs
  <1>2. HeldBy(pc'[p], cwd'[p], loc'[p], i) = One(cwd[p], i)
    BY HeldIs
  <1>3. fs.ref[i] = Uses(i) /\ fs.ref[i] \in Nat
    BY DEF FsInv, Running, MemInv
  <1>4. fs'.ref[i] = fs.ref[i] - HeldBy(pc[p], cwd[p], loc[p], i) + HeldBy(pc'[p], cwd'[p], loc'[p], i)
    BY <1>1, <1>2, <1>3
  <1> QED
    BY <1>3, <1>4, RefsMove

(* A step with everything in memory as it was. *)
LEMMA StoredSame ==
    ASSUME FsInv, UNCHANGED <<fs, disk, wrote, logged>>
    PROVE  Stored /\ fs'.ref = fs.ref
  <1>1. Healthy(fs) /\ Grows(fs, fs, {})
    BY HealthyTyped, GrowsItself DEF FsInv, MemInv
  <1> QED
    BY <1>1 DEF Stored, FsInv, MemInv, LogInv

(* A step of p outside of a call with a path, that opens and closes nothing. *)
Quiet == {"user", "wbegin", "wlock", "wadv", "wend", "exit", "cbegin", "cput"}

(* A step that opens and closes nothing. *)
LEMMA QuietStep ==
    ASSUME FsInv, ~Panicked, NEW p \in Proc, pc[p] \in Quiet \cup {"end"}, ~loc[p].ok,
           NEW l \in Quiet, NEW r \in LocalType, ~r.ok,
           pc' = [pc EXCEPT ![p] = l], loc' = [loc EXCEPT ![p] = r],
           UNCHANGED <<ofile, ftlock, cwd, ncalls>>,
           file' \in [File -> FileType],
           \A f \in File : /\ file'[f].type = file[f].type /\ file'[f].ip = file[f].ip
                           /\ file'[f].ref = file[f].ref /\ file'[f].write = file[f].write,
           Stored, fs'.ref = fs.ref, lock' \in [Inum -> Proc \cup {Nil}], ops' \subseteq Proc, Leaves(p),
           l \in Writing => /\ r.f \in File /\ file[r.f].type = "inode" /\ r.n > 0
                            /\ \E fd \in Fd : ofile[p][fd] = r.f,
           l \in Closing <=> pc[p] \in Closing, l \in Closing => r.f = loc[p].f,
           LockIs(p, fs', l, r, file', lock'), l = "wadv" => file'[r.f].off = r.at,
           InOp(l, r) <=> p \in ops', p \notin ops' => wrote'[p] = {}
    PROVE  FsInv'
  <1>0. CallIs(fs, pc[p], cwd[p], loc[p]) /\ DescIs(p, pc[p], loc[p], file, ofile, ftlock) /\ TypeInv
    BY Known DEF FsInv, DescOK
  <1>1. TypeInv'
    BY <1>0 DEF TypeInv, Quiet, PC
  <1>2. pc'[p] = l /\ loc'[p] = r /\ Only(p)
    BY <1>0 DEF TypeInv, Only
  <1>3. Arrives(p)
    <2>1. Linked(fs, cwd[p])
      BY <1>0 DEF CallIs, Quiet
    <2>2. Linked(fs', cwd[p])
      BY <2>1 DEF Linked, Stored, Grows
    <2>3. CallIs(fs', pc'[p], cwd'[p], loc'[p])
      BY <1>2, <2>2 DEF CallIs, Quiet
    <2> QED
      BY <1>2, <2>3 DEF Arrives, Quiet
  <1>4. Tabled
    <2>1. \A f : ~Opening(pc[p], loc[p], f) /\ ~Opening(l, r, f)
      BY DEF Opening
    <2>2. \A fd \in Fd : ofile[p][fd] # Nil => file[ofile[p][fd]].type = "inode"
      BY <1>0, <2>1 DEF DescIs
    <2>3. l \in Closing => ftlock = p /\ r.f \in File /\ file[r.f].type = "inode" /\ file[r.f].ref = 0
      BY <1>0 DEF DescIs
    <2>4. l # "unused"
      BY DEF Quiet
    <2>5. DescIs(p, l, r, file, ofile, ftlock)
      BY <2>1, <2>2, <2>3, <2>4 DEF DescIs
    <2>6. Grows(fs, fs', {})
      BY DEF Stored
    <2> QED
      BY <1>2, <2>5, <2>6, FilesKept
  <1>5. \A i \in Inum : fs'.ref[i] = Uses(i)'
    <2>1. CallIs(fs', pc'[p], cwd'[p], loc'[p])
      BY <1>3 DEF Arrives
    <2> QED
      BY <1>2, <2>1, StillHeld DEF Quiet
  <1> QED
    BY <1>1, <1>2, <1>3, <1>4, <1>5, FileStep

(* write checks its descriptor. *)
LEMMA WriteKeeps == ASSUME FsInv, ~Panicked, NEW p \in Proc, Write(p) PROVE FsInv'
  <1>0. /\ CallIs(fs, pc[p], cwd[p], loc[p]) /\ OpsOK(p) /\ TypeInv /\ \A f \in File : FileOK(f)
    BY Known DEF FsInv, Running
  <1>1. PICK fd \in Fd, n \in Sizes :
          /\ ofile[p][fd] # Nil /\ file[ofile[p][fd]].write
          /\ Local(p, [NoLocal EXCEPT !.f = ofile[p][fd], !.n = n])
    BY DEF Write
  <1> DEFINE r == [NoLocal EXCEPT !.f = ofile[p][fd], !.n = n]
  <1>2. /\ pc[p] = "user" /\ pc' = [pc EXCEPT ![p] = "wbegin"] /\ loc' = [loc EXCEPT ![p] = r]
        /\ UNCHANGED <<fs, disk, ops, logged, wrote, lock, ftlock, file, ofile, cwd, ncalls>>
    BY <1>1 DEF Write, Goto, Local
  <1>3. ofile[p][fd] \in File /\ n \in Nat /\ n > 0
    BY <1>0, <1>1, FsAssumption DEF TypeInv
  <1>4. r \in LocalType /\ ~r.ok /\ r.f = ofile[p][fd] /\ r.n = n
    BY <1>3, NoLocalTyped DEF LocalType, NoLocal
  <1> HIDE DEF r
  <1>5. file[r.f].type = "inode"
    BY <1>0, <1>1, <1>3, <1>4 DEF FileOK
  <1>6. Stored /\ fs'.ref = fs.ref /\ Leaves(p)
    BY <1>2, StoredSame DEF Leaves
  <1>7. ~loc[p].ok /\ p \notin ops' /\ wrote'[p] = {} /\ ~InOp("wbegin", r)
    BY <1>0, <1>2 DEF OpsOK, InOp, CallIs
  <1>8. LockIs(p, fs', "wbegin", r, file', lock') /\ "wbegin" \notin Closing /\ pc[p] \notin Closing
    BY <1>2 DEF LockIs, Closing
  <1>9. pc[p] \in Quiet /\ "wbegin" \in Quiet
    BY <1>2 DEF Quiet
  <1>10. file' \in [File -> FileType] /\ lock' \in [Inum -> Proc \cup {Nil}] /\ ops' \subseteq Proc
    BY <1>0, <1>2 DEF TypeInv
  <1> QED
    BY <1>1, <1>2, <1>3, <1>4, <1>5, <1>6, <1>7, <1>8, <1>9, <1>10, QuietStep

-----------------------------------------------------------------------------
(* The types of the file table, and the other parts of the invariant. *)
LEMMA FileTyped ==
    FsInv => /\ file \in [File -> FileType] /\ lock \in [Inum -> Proc \cup {Nil}] /\ ops \subseteq Proc
             /\ TypeInv /\ MemInv /\ LogInv /\ OffsetUnderLock
  BY DEF FsInv, TypeInv

(* exit begins. *)
LEMMA ExitKeeps == ASSUME FsInv, ~Panicked, NEW p \in Proc, Exit(p) PROVE FsInv'
  <1> DEFINE r == [NoLocal EXCEPT !.call = "exit"]
  <1>0. CallIs(fs, pc[p], cwd[p], loc[p]) /\ OpsOK(p)
    BY Known
  <1>1. /\ pc[p] = "user" /\ pc' = [pc EXCEPT ![p] = "exit"] /\ loc' = [loc EXCEPT ![p] = r]
        /\ UNCHANGED <<fs, disk, ops, logged, wrote, lock, ftlock, file, ofile, cwd, ncalls>>
    BY DEF Exit, Goto, Local
  <1>2. r \in LocalType /\ ~r.ok
    BY NoLocalTyped
  <1> HIDE DEF r
  <1>3. Stored /\ fs'.ref = fs.ref /\ Leaves(p)
    BY <1>1, StoredSame DEF Leaves
  <1>4. ~loc[p].ok /\ p \notin ops' /\ wrote'[p] = {} /\ ~InOp("exit", r)
    BY <1>0, <1>1 DEF OpsOK, InOp, CallIs
  <1>5. LockIs(p, fs', "exit", r, file', lock') /\ "exit" \notin Closing \cup Writing /\ pc[p] \notin Closing
    BY <1>1 DEF LockIs, Closing, Writing
  <1>6. pc[p] \in Quiet /\ "exit" \in Quiet
    BY <1>1 DEF Quiet
  <1> QED
    BY <1>1, <1>2, <1>3, <1>4, <1>5, <1>6, FileTyped, QuietStep

(* begin_op of fileclose, and of filewrite. *)
LEMMA BeginStep ==
    ASSUME FsInv, ~Panicked, NEW p \in Proc, NEW l \in {"cput", "wlock"},
           pc[p] = IF l = "cput" THEN "cbegin" ELSE "wbegin",
           pc' = [pc EXCEPT ![p] = l], ops' = ops \cup {p},
           UNCHANGED <<fs, disk, logged, wrote, lock, ftlock, file, ofile, cwd, loc, ncalls>>
    PROVE  FsInv'
  <1>0. /\ CallIs(fs, pc[p], cwd[p], loc[p]) /\ DescIs(p, pc[p], loc[p], file, ofile, ftlock)
        /\ loc[p] \in LocalType /\ loc = [loc EXCEPT ![p] = loc[p]]
    BY Known DEF DescOK
  <1>1. Stored /\ fs'.ref = fs.ref /\ Leaves(p)
    BY StoredSame DEF Leaves
  <1>2. ~loc[p].ok /\ InOp(l, loc[p]) /\ p \in ops'
    BY <1>0 DEF InOp, CallIs
  <1>3. LockIs(p, fs', l, loc[p], file', lock') /\ (l \in Closing <=> pc[p] \in Closing)
    BY DEF LockIs, Closing
  <1>4. l \in Writing => /\ loc[p].f \in File /\ file[loc[p].f].type = "inode" /\ loc[p].n > 0
                         /\ \E fd \in Fd : ofile[p][fd] = loc[p].f
    BY <1>0 DEF DescIs, Writing
  <1>5. pc[p] \in Quiet /\ l \in Quiet /\ l # "wadv"
    BY DEF Quiet
  <1> QED
    BY <1>0, <1>1, <1>2, <1>3, <1>4, <1>5, FileTyped, QuietStep

(* The begin_op of fileclose. *)
LEMMA CloseBeginKeeps == ASSUME FsInv, ~Panicked, NEW p \in Proc, CloseBegin(p) PROVE FsInv'
  BY BeginStep DEF CloseBegin, BeginOp, Goto

(* The begin_op of filewrite. *)
LEMMA WriteBeginKeeps == ASSUME FsInv, ~Panicked, NEW p \in Proc, WriteBegin(p) PROVE FsInv'
  BY BeginStep DEF WriteBegin, BeginOp, Goto

(* end_op, in a step that opens and closes nothing. *)
LEMMA EndStep ==
    ASSUME FsInv, ~Panicked, NEW p \in Proc, pc[p] \in {"end", "wend"}, ~loc[p].ok,
           NEW l \in {"user", "wbegin"}, NEW r \in LocalType, ~r.ok,
           l = "wbegin" => pc[p] = "wend" /\ r.n > 0 /\ r.f = loc[p].f,
           EndOp(p), pc' = [pc EXCEPT ![p] = l], loc' = [loc EXCEPT ![p] = r],
           UNCHANGED <<fs, lock, ftlock, file, ofile, cwd, ncalls>>
    PROVE  FsInv'
  <1>0. DescIs(p, pc[p], loc[p], file, ofile, ftlock)
    BY Known DEF DescOK
  <1>1. /\ Stored /\ ops' \subseteq Proc /\ p \notin ops' /\ wrote'[p] = {}
        /\ \A q \in Proc \ {p} : wrote'[q] = wrote[q] /\ (q \in ops' <=> q \in ops)
    BY EndOpEffect
  <1>2. fs'.ref = fs.ref /\ Leaves(p)
    BY <1>1 DEF Leaves
  <1>3. ~InOp(l, r) /\ LockIs(p, fs', l, r, file', lock') /\ l \notin Closing /\ pc[p] \notin Closing
    BY DEF InOp, LockIs, Closing
  <1>4. l \in Writing => /\ r.f \in File /\ file[r.f].type = "inode" /\ r.n > 0
                         /\ \E fd \in Fd : ofile[p][fd] = r.f
    BY <1>0 DEF DescIs, Writing
  <1>5. pc[p] \in Quiet \cup {"end"} /\ l \in Quiet /\ l # "wadv"
    BY DEF Quiet
  <1> QED
    BY <1>1, <1>2, <1>3, <1>4, <1>5, FileTyped, QuietStep

(* The size of a piece of filewrite. *)
LEMMA PieceOf ==
    ASSUME NEW n \in Nat
    PROVE  Part(n) \in Nat /\ Part(n) <= n /\ PIECE \in Nat /\ PIECE > 0 /\ (n > 0 => Part(n) > 0)
  <1>1. DPB \in Nat /\ DPB > 0 /\ LOGSIZE \in Nat /\ LOGSIZE >= 6
    BY Sizes1, FsAssumption
  <1> DEFINE k == (LOGSIZE - 4) \div 2
  <1>2. k \in Nat /\ k > 0
    BY <1>1
  <1> HIDE DEF k
  <1>3. k * DPB \in Nat /\ k * DPB > 0
    BY <1>1, <1>2
  <1>4. PIECE \in Nat /\ PIECE > 0
    BY <1>3 DEF PIECE, k
  <1> QED
    BY <1>4 DEF Part

(* An end_op before a panic. *)
LEMMA EndPanics ==
    ASSUME FsInv, ~Panicked, NEW p \in Proc, EndOp(p), pc' = [pc EXCEPT ![p] = "panic"],
           NEW r \in LocalType, loc' = [loc EXCEPT ![p] = r],
           UNCHANGED <<fs, lock, ftlock, file, ofile, cwd, ncalls>>
    PROVE  FsInv'
  <1>1. Stored /\ ops' \subseteq Proc
    BY EndOpEffect
  <1>2. pc'[p] = "panic" /\ \A q \in Proc : q # p => pc'[q] = pc[q] /\ loc'[q] = loc[q]
    BY DEF FsInv, TypeInv
  <1>3. Panicked'
    BY <1>2 DEF Panicked
  <1>4. TypeInv'
    <2>1. pc' \in [Proc -> PC] /\ loc' \in [Proc -> LocalType]
      BY FileTyped DEF TypeInv, PC
    <2> QED
      BY <1>1, <2>1, FileTyped DEF TypeInv
  <1>5. MemInv' /\ LogInv'
    BY <1>1, FileTyped DEF Stored, MemInv
  <1>6. OffsetUnderLock'
    BY <1>2 DEF FsInv, OffsetUnderLock
  <1>7. \A f \in File : file'[f].ref = Cardinality(Refs(f)')
    BY DEF FsInv, Refs, RefsIn
  <1> QED
    BY <1>3, <1>4, <1>5, <1>6, <1>7 DEF FsInv

(* The end_op of filewrite. *)
LEMMA WriteEndKeeps == ASSUME FsInv, ~Panicked, NEW p \in Proc, WriteEnd(p) PROVE FsInv'
  <1> DEFINE left == loc[p].n - Piece(p)
             r == IF left = 0 THEN NoLocal ELSE [loc[p] EXCEPT !.n = left]
             l == IF left = 0 THEN "user" ELSE "wbegin"
  <1>0. CallIs(fs, pc[p], cwd[p], loc[p]) /\ loc[p] \in LocalType
    BY Known
  <1>1. /\ pc[p] = "wend" /\ EndOp(p) /\ loc' = [loc EXCEPT ![p] = r]
        /\ pc' = [pc EXCEPT ![p] = "panic"] \/ pc' = [pc EXCEPT ![p] = l]
        /\ UNCHANGED <<fs, lock, ftlock, file, ofile, cwd, ncalls>>
    BY DEF WriteEnd, Goto, Local
  <1>2. left \in Nat
    <2>1. loc[p].n \in Nat /\ Piece(p) = Part(loc[p].n)
      BY <1>0 DEF LocalType, Piece, Part
    <2>2. Part(loc[p].n) \in Nat /\ Part(loc[p].n) <= loc[p].n
      BY <2>1, PieceOf
    <2> QED
      BY <2>1, <2>2
  <1> HIDE DEF left
  <1>3. ~loc[p].ok
    BY <1>0, <1>1 DEF CallIs
  <1>4. r \in LocalType /\ ~r.ok /\ (l = "wbegin" => r.n > 0 /\ r.f = loc[p].f)
    <2>1. loc[p] \in LocalType
      BY <1>0
    <2> QED
      BY <1>2, <1>3, <2>1, NoLocalTyped DEF LocalType
  <1>5. CASE pc' = [pc EXCEPT ![p] = "panic"]
    BY <1>1, <1>4, <1>5, EndPanics
  <1>6. CASE pc' = [pc EXCEPT ![p] = l]
    BY <1>1, <1>3, <1>4, <1>6, EndStep
  <1> QED
    BY <1>1, <1>5, <1>6

-----------------------------------------------------------------------------
(* An offset of a file moves. *)
LEMMA OffsetMoves ==
    ASSUME FsInv, NEW f \in File, NEW o \in 0 .. MAXFILE * DPB,
           file' = [file EXCEPT ![f].off = o] \/ file' = file
    PROVE  /\ file' \in [File -> FileType]
           /\ \A g \in File : /\ file'[g].type = file[g].type /\ file'[g].ip = file[g].ip
                              /\ file'[g].ref = file[g].ref /\ file'[g].write = file[g].write
                              /\ g # f => file'[g].off = file[g].off
  <1>1. file \in [File -> FileType]
    BY FileTyped
  <1>2. CASE file' = file
    BY <1>1, <1>2
  <1>3. CASE file' = [file EXCEPT ![f].off = o]
    BY <1>1, <1>3 DEF FileType
  <1> QED
    BY <1>2, <1>3

(* filewrite advances the offset, and unlocks. *)
LEMMA WriteAdvanceKeeps == ASSUME FsInv, ~Panicked, NEW p \in Proc, WriteAdvance(p) PROVE FsInv'
  <1> DEFINE f == loc[p].f
             i == file[f].ip
             dev == fs.copy[i].type = "dev"
             o == IF dev THEN 0 ELSE file[f].off + loc[p].n1
  <1>0. /\ CallIs(fs, pc[p], cwd[p], loc[p]) /\ loc[p] \in LocalType /\ loc = [loc EXCEPT ![p] = loc[p]]
        /\ LockIs(p, fs, pc[p], loc[p], file, lock) /\ OpsOK(p)
        /\ DescIs(p, pc[p], loc[p], file, ofile, ftlock)
        /\ \A g \in File : FileOK(g)
    BY Known DEF LockOK, DescOK, FsInv, Running
  <1>1. /\ pc[p] = "wadv" /\ pc' = [pc EXCEPT ![p] = "wend"] /\ lock' = [lock EXCEPT ![i] = Nil]
        /\ file' = file \/ (~dev /\ file' = [file EXCEPT ![f].off = @ + loc[p].n1])
        /\ UNCHANGED <<fs, disk, ops, logged, wrote, ftlock, ofile, cwd, loc, ncalls>>
    BY DEF WriteAdvance, Goto
  <1>2. /\ f \in File /\ file[f].type = "inode" /\ loc[p].n > 0 /\ lock[i] = p
        /\ \E fd \in Fd : ofile[p][fd] = f
    BY <1>0, <1>1 DEF DescIs, Writing, LockIs
  <1>3. i \in Inum
    BY <1>0, <1>2 DEF FileOK, Linked
  <1>4. o \in 0 .. MAXFILE * DPB
    <2>1. file[f].off = loc[p].at /\ loc[p].at \in Nat /\ loc[p].n1 \in Nat
      <3>1. OffsetUnderLock
        BY FileTyped
      <3>2. file[f].off = loc[p].at
        BY <1>1, <3>1 DEF OffsetUnderLock
      <3> QED
        BY <1>0, <3>2, Sizes1 DEF LocalType
    <2>2. ~dev => loc[p].at + loc[p].n1 <= MAXFILE * DPB
      BY <1>0, <1>1 DEF LockIs
    <2>3. MAXFILE * DPB \in Nat
      BY Sizes1
    <2> QED
      BY <2>1, <2>2, <2>3
  <1>5. file' = [file EXCEPT ![f].off = o] \/ file' = file
    BY <1>1
  <1> HIDE DEF o, dev
  <1>6. /\ file' \in [File -> FileType]
        /\ \A g \in File : /\ file'[g].type = file[g].type /\ file'[g].ip = file[g].ip
                           /\ file'[g].ref = file[g].ref /\ file'[g].write = file[g].write
                           /\ g # f => file'[g].off = file[g].off
    BY <1>2, <1>4, <1>5, OffsetMoves
  <1>7. Stored /\ fs'.ref = fs.ref
    BY <1>1, StoredSame
  <1>8. lock' \in [Inum -> Proc \cup {Nil}] /\ \A j \in Inum \ {i} : lock'[j] = lock[j]
    BY <1>1, <1>3, FileTyped
  <1>9. Leaves(p)
    <2>1. ASSUME NEW q \in Proc \ {p}, pc[q] = "wadv" PROVE loc[q].f # f /\ loc[q].f \in File
      <3>1. LockIs(q, fs, pc[q], loc[q], file, lock) /\ DescIs(q, pc[q], loc[q], file, ofile, ftlock)
        BY Known DEF LockOK, DescOK
      <3>2. lock[file[loc[q].f].ip] = q /\ loc[q].f \in File
        BY <2>1, <3>1 DEF LockIs, DescIs, Writing
      <3> QED
        BY <1>2, <3>2
    <2>2. \A q \in Proc \ {p} : \A j \in Inum : lock[j] = q => lock'[j] = q
      BY <1>2, <1>8
    <2> QED
      BY <1>1, <1>6, <2>1, <2>2 DEF Leaves
  <1>10. ~loc[p].ok /\ InOp("wend", loc[p]) /\ p \in ops'
    BY <1>0, <1>1 DEF OpsOK, InOp, CallIs
  <1>11. LockIs(p, fs', "wend", loc[p], file', lock') /\ "wend" \notin Closing /\ pc[p] \notin Closing
    BY <1>1 DEF LockIs, Closing
  <1>12. pc[p] \in Quiet /\ "wend" \in Quiet
    BY <1>1 DEF Quiet
  <1>13. /\ loc' = [loc EXCEPT ![p] = loc[p]] /\ UNCHANGED <<ofile, ftlock, cwd, ncalls>>
         /\ loc[p].f \in File /\ file[loc[p].f].type = "inode" /\ loc[p].n > 0
         /\ ops' \subseteq Proc /\ (p \notin ops' => wrote'[p] = {})
         /\ (InOp("wend", loc[p]) <=> p \in ops')
    BY <1>0, <1>1, <1>2, <1>10, FileTyped DEF TypeInv
  <1>14. \A g \in File : /\ file'[g].type = file[g].type /\ file'[g].ip = file[g].ip
                         /\ file'[g].ref = file[g].ref /\ file'[g].write = file[g].write
    BY <1>6
  <1>15. /\ "wend" \in Writing => /\ loc[p].f \in File /\ file[loc[p].f].type = "inode" /\ loc[p].n > 0
                                  /\ \E fd \in Fd : ofile[p][fd] = loc[p].f
         /\ "wend" \in Closing <=> pc[p] \in Closing
         /\ "wend" \in Closing => loc[p].f = loc[p].f
         /\ "wend" = "wadv" => file'[loc[p].f].off = loc[p].at
    BY <1>2, <1>11, <1>13
  <1> HIDE DEF f, i
  <1> QED
    BY <1>0, <1>1, <1>6, <1>7, <1>8, <1>9, <1>10, <1>11, <1>12, <1>13, <1>14, <1>15, QuietStep, ZenonT(60)

(* A file of a process, when it is in no call. *)
LEMMA OpenFile ==
    ASSUME FsInv, ~Panicked, NEW p \in Proc, pc[p] # "end", NEW fd \in Fd, ofile[p][fd] # Nil
    PROVE  /\ ofile[p][fd] \in File /\ file[ofile[p][fd]].type = "inode"
           /\ Linked(fs, file[ofile[p][fd]].ip) /\ file[ofile[p][fd]].ip \in Inum
  <1>1. DescIs(p, pc[p], loc[p], file, ofile, ftlock) /\ \A g \in File : FileOK(g)
    BY Known DEF DescOK, FsInv, Running
  <1>2. ofile[p][fd] \in File
    BY DEF FsInv, TypeInv
  <1>3. file[ofile[p][fd]].type = "inode"
    BY <1>1 DEF DescIs, Opening
  <1> QED
    BY <1>1, <1>2, <1>3 DEF FileOK, Linked

(* read and fstat. *)
LEMMA ReadKeeps == ASSUME FsInv, ~Panicked, NEW p \in Proc, Read(p) PROVE FsInv'
  <1>0. /\ CallIs(fs, pc[p], cwd[p], loc[p]) /\ loc[p] \in LocalType /\ loc = [loc EXCEPT ![p] = loc[p]]
        /\ OpsOK(p)
    BY Known
  <1>1. PICK fd \in Fd, n \in Sizes :
          LET f == ofile[p][fd]
              i == file[f].ip
              t == Ilock(fs, i)
              left == t.copy[i].size - file[f].off
          IN  /\ pc[p] = "user" /\ f # Nil /\ lock[i] = Nil
              /\ Do(p, t, "user")
              /\ IF t.copy[i].type = "dev" THEN UNCHANGED file
                 ELSE file' = [file EXCEPT ![f].off = @ + IF n < left THEN n ELSE left]
              /\ UNCHANGED <<disk, ops, lock, ftlock, ofile, cwd, loc, ncalls>>
    BY DEF Read
  <1> DEFINE f == ofile[p][fd]
             i == file[f].ip
             t == Ilock(fs, i)
             size == t.copy[i].size
             left == size - file[f].off
             o == file[f].off + IF n < left THEN n ELSE left
  <1>2. f \in File /\ Linked(fs, i) /\ i \in Inum
    BY <1>1, OpenFile
  <1>3. /\ Grows(fs, t, {}) /\ t.ok = fs.ok /\ t.wrote = {} /\ t.ref = fs.ref /\ t \in MemType
        /\ t.copy[i] = fs.inode[i]
    BY <1>2, ReadBack
  <1>4. o \in 0 .. MAXFILE * DPB
    <2>1. fs.inode[i] \in InodeType /\ file[f] \in FileType /\ MAXFILE * DPB \in Nat
      <3>1. fs \in MemType
        BY Known
      <3>2. fs.inode[i] \in InodeType
        BY <1>2, <3>1, CopyTyped
      <3>3. file[f] \in FileType
        BY <1>2, FileTyped
      <3> QED
        BY <3>2, <3>3, Sizes1
    <2>2. size \in 0 .. MAXFILE * DPB
      BY <1>3, <2>1, InodeFields
    <2>3. file[f].off \in 0 .. MAXFILE * DPB
      BY <2>1 DEF FileType
    <2>4. n \in Nat
      BY FsAssumption
    <2>5. \A m \in Nat : \A x, z \in 0 .. m : x + (IF n < z - x THEN n ELSE z - x) \in 0 .. m
      BY <2>4
    <2> DEFINE m == MAXFILE * DPB
    <2>6. m \in Nat /\ size \in 0 .. m /\ file[f].off \in 0 .. m
      BY <2>1, <2>2, <2>3
    <2> HIDE DEF m, size
    <2>7. o \in 0 .. m
      BY <2>5, <2>6
    <2> QED
      BY <2>7 DEF m
  <1>5. file' = [file EXCEPT ![f].off = o] \/ file' = file
    BY <1>1
  <1>6. Do(p, t, "user") /\ pc[p] = "user" /\ lock[i] = Nil
        /\ UNCHANGED <<disk, ops, lock, ftlock, ofile, cwd, loc, ncalls>>
    BY <1>1
  <1> HIDE DEF o, f, t
  <1>7. /\ file' \in [File -> FileType]
        /\ \A g \in File : /\ file'[g].type = file[g].type /\ file'[g].ip = file[g].ip
                           /\ file'[g].ref = file[g].ref /\ file'[g].write = file[g].write
                           /\ g # f => file'[g].off = file[g].off
    BY <1>2, <1>4, <1>5, OffsetMoves
  <1>8. /\ Healthy(fs') /\ fs'.wrote = {} /\ fs'.ok /\ Grows(fs, fs', {})
        /\ fs'.ref = t.ref /\ pc' = [pc EXCEPT ![p] = "user"] /\ LogInv'
        /\ \A q \in Proc : q # p => wrote'[q] = wrote[q]
        /\ wrote'[p] = wrote[p] \cup t.wrote
    <2>1. t.ok
      BY <1>3 DEF FsInv, MemInv
    <2>2. MemInv /\ LogInv
      BY FileTyped
    <2>3. Do(p, t, "user") /\ Grows(fs, t, {})
      BY <1>3, <1>6
    <2>4. Done(p, t, "user", {})
      BY <2>1, <2>2, <2>3, DoDone
    <2> QED
      BY <2>4 DEF Done
  <1>9. Stored /\ fs'.ref = fs.ref
    BY <1>3, <1>6, <1>8, FileTyped DEF Stored, MemInv
  <1>10. Leaves(p)
    <2>1. ASSUME NEW q \in Proc \ {p}, pc[q] = "wadv" PROVE loc[q].f # f /\ loc[q].f \in File
      <3>1. LockIs(q, fs, pc[q], loc[q], file, lock) /\ DescIs(q, pc[q], loc[q], file, ofile, ftlock)
        BY Known DEF LockOK, DescOK
      <3>2. lock[file[loc[q].f].ip] = q /\ loc[q].f \in File
        BY <2>1, <3>1 DEF LockIs, DescIs, Writing
      <3>3. Nil \notin Proc
        BY FsAssumption
      <3> QED
        BY <1>6, <3>2, <3>3
    <2> QED
      BY <1>6, <1>7, <1>8, <2>1 DEF Leaves
  <1>11. ~loc[p].ok /\ ~InOp("user", loc[p]) /\ p \notin ops' /\ wrote'[p] = {}
    BY <1>0, <1>3, <1>6, <1>8 DEF OpsOK, InOp, CallIs
  <1>12. LockIs(p, fs', "user", loc[p], file', lock') /\ "user" \notin Closing \cup Writing
    BY DEF LockIs, Closing, Writing
  <1>13. "user" \in Quiet
    BY DEF Quiet
  <1> QED
    BY <1>0, <1>6, <1>7, <1>8, <1>9, <1>10, <1>11, <1>12, <1>13, FileTyped, QuietStep

-----------------------------------------------------------------------------
(* A piece is written, or the writer panics. *)
LEMMA WriteGoes ==
    ASSUME FsInv, ~Panicked, NEW p \in Proc, pc[p] = "wlock", NEW f, f = loc[p].f,
           NEW i, i = file[f].ip, Locked(p, i), NEW t, Do(p, t, "wadv"),
           NEW n1 \in Nat, loc' = [loc EXCEPT ![p] = [loc[p] EXCEPT !.at = file[f].off, !.n1 = n1]],
           UNCHANGED <<disk, ops, ftlock, file, ofile, cwd, ncalls>>,
           t.ok => /\ Grows(fs, t, {}) /\ t.ref = fs.ref /\ t.copy[i].type = t.inode[i].type
                   /\ t.copy[i].type # "dev" => file[f].off + n1 <= MAXFILE * DPB
    PROVE  FsInv'
  <1> DEFINE r == [loc[p] EXCEPT !.at = file[f].off, !.n1 = n1]
  <1>0. /\ CallIs(fs, pc[p], cwd[p], loc[p]) /\ loc[p] \in LocalType
        /\ OpsOK(p) /\ DescIs(p, pc[p], loc[p], file, ofile, ftlock) /\ \A g \in File : FileOK(g)
    BY Known DEF DescOK, FsInv, Running
  <1>1. /\ f \in File /\ file[f].type = "inode" /\ loc[p].n > 0 /\ \E fd \in Fd : ofile[p][fd] = f
    BY <1>0 DEF DescIs, Writing
  <1>2. i \in Inum
    BY <1>0, <1>1 DEF FileOK, Linked
  <1>3. r \in LocalType /\ r.f = f /\ r.n = loc[p].n /\ r.at = file[f].off /\ r.n1 = n1 /\ r.ok = loc[p].ok
    <2>1. file[f] \in FileType
      BY <1>1, FileTyped
    <2> QED
      BY <1>0, <2>1 DEF LocalType, FileType
  <1>4. lock' \in [Inum -> Proc \cup {Nil}] /\ lock'[i] = p
        /\ \A q \in Proc \ {p} : \A j \in Inum : lock[j] = q => lock'[j] = q
    BY <1>2, FileTyped, FsAssumption DEF Locked
  <1> HIDE DEF r
  <1>5. loc' = [loc EXCEPT ![p] = r]
    BY DEF r
  <1>6. CASE ~t.ok
    <2>1. pc' = [pc EXCEPT ![p] = "panic"] /\ UNCHANGED <<fs, wrote, logged>>
      BY <1>6 DEF Do, Goto
    <2>2. TypeInv'
      <3>1. pc' \in [Proc -> PC] /\ loc' \in [Proc -> LocalType]
        BY <1>3, <1>5, <2>1, FileTyped DEF TypeInv, PC
      <3> QED
        BY <1>4, <3>1, FileTyped DEF TypeInv
    <2>3. \A q \in Proc : q # p => loc'[q] = loc[q]
      BY <1>5, FileTyped DEF TypeInv
    <2> QED
      BY <2>1, <2>2, <2>3, PanicStep
  <1>7. CASE t.ok
    <2>1. /\ Healthy(fs') /\ fs'.wrote = {} /\ fs'.ok /\ Grows(fs, fs', {})
          /\ fs'.inode = t.inode /\ fs'.ref = t.ref /\ fs'.copy = t.copy
          /\ pc' = [pc EXCEPT ![p] = "wadv"] /\ LogInv'
          /\ \A q \in Proc : q # p => wrote'[q] = wrote[q]
      <3>1. Grows(fs, t, {})
        BY <1>7
      <3>2. MemInv /\ LogInv
        BY FileTyped
      <3>3. Do(p, t, "wadv") /\ t.ok
        BY <1>7
      <3>4. Done(p, t, "wadv", {})
        BY <3>1, <3>2, <3>3, DoDone
      <3> QED
        BY <3>4 DEF Done
    <2>2. Stored /\ fs'.ref = fs.ref
      BY <1>7, <2>1, FileTyped DEF Stored, MemInv
    <2>3. Leaves(p)
      BY <1>4, <2>1 DEF Leaves
    <2>4. InOp("wadv", r) /\ p \in ops' /\ ~r.ok /\ ~loc[p].ok
      BY <1>0, <1>3 DEF OpsOK, InOp, CallIs
    <2>5. LockIs(p, fs', "wadv", r, file', lock')
      <3>1. fs'.copy[i].type = fs'.inode[i].type
        BY <1>7, <2>1
      <3>2. fs'.copy[i].type # "dev" => r.at + r.n1 <= MAXFILE * DPB
        BY <1>3, <1>7, <2>1
      <3>3. file'[r.f].ip = i
        BY <1>3
      <3> QED
        BY <1>4, <3>1, <3>2, <3>3 DEF LockIs
    <2>6. pc[p] \in Quiet /\ "wadv" \in Quiet /\ "wadv" \notin Closing /\ pc[p] \notin Closing
      BY DEF Quiet, Closing
    <2>7. /\ file' \in [File -> FileType] /\ ops' \subseteq Proc
          /\ \A g \in File : /\ file'[g].type = file[g].type /\ file'[g].ip = file[g].ip
                             /\ file'[g].ref = file[g].ref /\ file'[g].write = file[g].write
      BY FileTyped
    <2>8. /\ r.f \in File /\ file[r.f].type = "inode" /\ r.n > 0
          /\ \E fd \in Fd : ofile[p][fd] = r.f
      BY <1>1, <1>3
    <2>9. file'[r.f].off = r.at /\ r \in LocalType /\ lock' \in [Inum -> Proc \cup {Nil}]
      BY <1>3, <1>4
    <2>10. pc' = [pc EXCEPT ![p] = "wadv"]
      BY <2>1
    <2> QED
      BY <1>5, <2>2, <2>3, <2>4, <2>5, <2>6, <2>7, <2>8, <2>9, <2>10, QuietStep
  <1> QED
    BY <1>6, <1>7

(* filewrite locks the inode, and writes at the offset. *)
LEMMA WriteLockedKeeps == ASSUME FsInv, ~Panicked, NEW p \in Proc, WriteLocked(p) PROVE FsInv'
  <1> DEFINE f == loc[p].f
             i == file[f].ip
             off == file[f].off
             n == Piece(p)
             t == Ilock(fs, i)
             w(n1) == Zeroed(Writei(t, i, off, n1), i, off, n1)
             dev == t.copy[i].type = "dev"
  <1>1. PICK n1 \in Taken(p, t) :
        /\ pc[p] = "wlock" /\ Locked(p, i)
        /\ loc' = [loc EXCEPT ![p] = [loc[p] EXCEPT !.at = off, !.n1 = n1]]
        /\ UNCHANGED <<disk, ops, ftlock, file, ofile, cwd, ncalls>>
        /\ \/ (n1 = 0 \/ dev) /\ Do(p, t, "wadv")
           \/ n1 # 0 /\ ~dev /\ Do(p, w(n1), "wadv")
    BY DEF WriteLocked, Local
  <1>2. /\ f \in File /\ file[f].type = "inode" /\ loc[p].n > 0 /\ loc[p] \in LocalType
        /\ Healthy(fs) /\ fs.ok
    <2>1. DescIs(p, pc[p], loc[p], file, ofile, ftlock) /\ loc[p] \in LocalType /\ Healthy(fs) /\ fs.ok
      BY Known DEF DescOK, FsInv, MemInv
    <2> QED
      BY <1>1, <2>1 DEF DescIs, Writing
  <1>3. Linked(fs, i) /\ i \in Inum
    BY <1>2 DEF FileOK, Linked, FsInv, Running
  <1>4. /\ Grows(fs, t, {}) /\ t.ok = fs.ok /\ t.ref = fs.ref /\ t \in MemType
        /\ t.copy[i] = fs.inode[i] /\ t.inode = fs.inode
    BY <1>3, ReadBack
  <1>5. n \in Nat \ {0} /\ off \in 0 .. MAXFILE * DPB /\ off \in Nat
    <2>1. loc[p].n \in Nat /\ file[f] \in FileType
      BY <1>2, FileTyped DEF LocalType
    <2>2. n = Part(loc[p].n)
      BY DEF Piece, Part
    <2>3. off \in 0 .. MAXFILE * DPB /\ MAXFILE * DPB \in Nat
      BY <2>1, Sizes1 DEF FileType
    <2> QED
      BY <1>2, <2>1, <2>2, <2>3, PieceOf
  <1>6. n1 \in {0, n} /\ (n1 # 0 /\ ~dev => n1 = n /\ ~WriteRefused(t, i, off, n))
    BY <1>1 DEF Taken
  <1>7. n1 \in Nat
    BY <1>5, <1>6
  <1>8. CASE (n1 = 0 \/ dev) /\ Do(p, t, "wadv")
    <2>1. ~dev => off + n1 <= MAXFILE * DPB
      <3> DEFINE m == MAXFILE * DPB
      <3>1. off \in 0 .. m
        BY <1>5
      <3> HIDE DEF m, off, dev
      <3>2. ~dev => n1 = 0
        BY <1>8
      <3>3. off + 0 <= m
        BY <3>1
      <3> QED
        BY <3>2, <3>3 DEF m
    <2>2. Grows(fs, t, {}) /\ t.ref = fs.ref /\ t.copy[i].type = t.inode[i].type
      BY <1>4
    <2>3. Do(p, t, "wadv")
      BY <1>8
    <2> HIDE DEF t
    <2> QED
      BY <1>1, <1>7, <2>1, <2>2, <2>3, WriteGoes
  <1>9. CASE n1 # 0 /\ ~dev /\ Do(p, w(n1), "wadv")
    <2> DEFINE x == w(n1)
    <2>1. x.ok => /\ Grows(fs, x, {}) /\ x.ref = fs.ref
                  /\ x.copy[i].type = fs.inode[i].type /\ x.inode[i].type = fs.inode[i].type
      <3>1. fs.inode[i].nlink > 0
        BY <1>3 DEF Linked
      <3>2. t = Ilock(fs, i) /\ ~WriteRefused(t, i, off, n1) /\ n1 \in Nat \ {0}
        BY <1>5, <1>6, <1>9
      <3> HIDE DEF n, off, i, t
      <3> QED
        BY <1>2, <1>3, <1>5, <3>1, <3>2, WriteEffect
    <2>2. off + n1 <= MAXFILE * DPB
      <3>1. ~(off + n1 > MAXFILE * DPB)
        BY <1>6, <1>9 DEF WriteRefused
      <3> DEFINE m == MAXFILE * DPB
      <3>2. m \in Int /\ ~(off + n1 > m)
        BY <3>1, Sizes1
      <3> HIDE DEF m
      <3>3. \A a, b \in Nat : ~(a + b > m) => a + b <= m
        BY <3>2
      <3> HIDE DEF off
      <3>4. off + n1 <= m
        BY <1>5, <1>7, <3>2, <3>3
      <3> QED
        BY <3>4 DEF m
    <2>3. x.ok => /\ Grows(fs, x, {}) /\ x.ref = fs.ref /\ x.copy[i].type = x.inode[i].type
                  /\ x.copy[i].type # "dev" => off + n1 <= MAXFILE * DPB
      BY <2>1, <2>2
    <2>4. Do(p, x, "wadv")
      BY <1>9
    <2> HIDE DEF x
    <2> QED
      BY <1>1, <1>7, <2>3, <2>4, WriteGoes
  <1> QED
    BY <1>1, <1>8, <1>9

-----------------------------------------------------------------------------
(* An iput of the file system as it is. *)
LEMMA PutNow ==
    ASSUME FsInv, NEW i \in Inum, NEW t, t = Iput(fs, i)
    PROVE  /\ Grows(fs, t, {}) /\ t.ok /\ t.wrote = {}
           /\ \A j \in Inum : t.ref[j] = fs.ref[j] - One(i, j)
  <1>1. Healthy(fs) /\ fs.ok /\ fs.wrote = {}
    BY DEF FsInv, MemInv
  <1>2. Grows(fs, fs, {})
    BY <1>1, GrowsItself
  <1>3. Grows(fs, t, {}) /\ t.ok = fs.ok /\ t.wrote = fs.wrote /\ \A j \in Inum : t.ref[j] = fs.ref[j] - One(i, j)
    BY <1>2, RefEffect
  <1> QED
    BY <1>1, <1>3

(* The last descriptor of a process is closed, and its directory put back. *)
LEMMA ExitCwdKeeps == ASSUME FsInv, ~Panicked, NEW p \in Proc, ExitCwd(p) PROVE FsInv'
  <1> DEFINE t == Iput(fs, cwd[p])
  <1>0. /\ CallIs(fs, pc[p], cwd[p], loc[p]) /\ OpsOK(p) /\ Grows(fs, fs, {})
        /\ DescIs(p, pc[p], loc[p], file, ofile, ftlock) /\ fs.ok /\ fs.wrote = {}
        /\ \A i \in Inum : fs.ref[i] \in Nat /\ fs.ref[i] = Uses(i)
    BY Known DEF DescOK, FsInv, MemInv, Running
  <1>1. /\ pc[p] = "exit" /\ FreeFd(p) = Fd /\ Do(p, t, "unused")
        /\ cwd' = [cwd EXCEPT ![p] = 0] /\ loc' = [loc EXCEPT ![p] = NoLocal]
        /\ UNCHANGED <<disk, ops, lock, ftlock, file, ofile, ncalls>>
    BY DEF ExitCwd, Local
  <1>2. cwd[p] \in Inum /\ ~loc[p].ok
    BY <1>0, <1>1 DEF CallIs, Linked
  <1>3. /\ Grows(fs, t, {}) /\ t.ok /\ t.wrote = {}
        /\ \A i \in Inum : t.ref[i] = fs.ref[i] - One(cwd[p], i)
    BY <1>2, PutNow
  <1> HIDE DEF t
  <1>4. /\ Healthy(fs') /\ fs'.wrote = {} /\ fs'.ok /\ Grows(fs, fs', {})
        /\ fs'.ref = t.ref /\ pc' = [pc EXCEPT ![p] = "unused"] /\ LogInv'
        /\ \A q \in Proc : q # p => wrote'[q] = wrote[q]
        /\ wrote'[p] = wrote[p] \cup t.wrote
    <2>1. MemInv /\ LogInv
      BY FileTyped
    <2>2. Do(p, t, "unused") /\ t.ok /\ Grows(fs, t, {})
      BY <1>1, <1>3
    <2>3. Done(p, t, "unused", {})
      BY <2>1, <2>2, DoDone
    <2> QED
      BY <2>3 DEF Done
  <1>5. Stored
    BY <1>1, <1>4, FileTyped DEF Stored, MemInv
  <1>6. TypeInv'
    BY <1>1, <1>4, NoLocalTyped, FileTyped DEF TypeInv, PC
  <1>7. pc'[p] = "unused" /\ loc'[p] = NoLocal /\ cwd'[p] = 0 /\ Only(p)
    BY <1>1, <1>4, FileTyped DEF Only, TypeInv
  <1>8. Leaves(p)
    BY <1>1, <1>4 DEF Leaves
  <1>9. CallIs(fs', "unused", 0, NoLocal)
    BY NoLocalTyped DEF CallIs
  <1>10. Arrives(p)
    <2>1. LockIs(p, fs', "unused", NoLocal, file', lock')
      BY DEF LockIs
    <2>2. p \notin ops' /\ ~InOp("unused", NoLocal) /\ wrote'[p] = {}
      BY <1>0, <1>1, <1>3, <1>4 DEF OpsOK, InOp
    <2> QED
      BY <1>7, <1>9, <2>1, <2>2 DEF Arrives
  <1>11. Tabled
    <2>1. \A fd \in Fd : ofile[p][fd] = Nil
      BY <1>1 DEF FreeFd
    <2>2. \A f : ~Opening("unused", NoLocal, f)
      BY DEF Opening
    <2>3. DescIs(p, "unused", NoLocal, file, ofile, ftlock)
      BY <2>1, <2>2 DEF DescIs, Closing, Writing
    <2>4. pc[p] \notin Closing
      BY <1>1 DEF Closing
    <2> QED
      BY <1>1, <1>4, <1>7, <2>3, <2>4, FilesKept
  <1>12. \A i \in Inum : fs'.ref[i] = Uses(i)'
    <2> TAKE i \in Inum
    <2>1. HeldBy(pc[p], cwd[p], loc[p], i) = One(cwd[p], i) /\ One(cwd[p], i) \in Nat
      BY <1>0, <1>1, <1>2, HeldIs
    <2>2. HeldBy("unused", 0, NoLocal, i) = One(0, i)
      BY <1>9, NoLocalTyped, HeldIs
    <2>3. One(0, i) = 0
      BY Sizes1 DEF One
    <2>4. fs'.ref[i] = fs.ref[i] - HeldBy(pc[p], cwd[p], loc[p], i) + HeldBy(pc'[p], cwd'[p], loc'[p], i)
      BY <1>0, <1>3, <1>4, <1>7, <2>1, <2>2, <2>3
    <2> QED
      BY <1>0, <1>1, <1>7, <2>4, RefsMove
  <1> QED
    BY <1>5, <1>6, <1>7, <1>8, <1>10, <1>11, <1>12, FileStep

(* A file without references has no descriptor. *)
LEMMA NoRef ==
    ASSUME FsInv, NEW f \in File
    PROVE  /\ IsFiniteSet(Refs(f)) /\ Cardinality(Refs(f)) = file[f].ref /\ file[f].ref \in Nat
           /\ file[f].ref = 0 => \A q \in Proc : \A fd \in Fd : ofile[q][fd] # f
  <1>1. IsFiniteSet(Proc \X Fd)
    <2>1. IsFiniteSet(Proc) /\ NOFILE \in Nat
      BY FsAssumption
    <2>2. IsFiniteSet(Fd)
      BY <2>1, FS_Interval DEF Fd
    <2> QED
      BY <2>1, <2>2, FS_Product
  <1>2. IsFiniteSet(Refs(f))
    BY <1>1, FS_Subset DEF Refs, RefsIn
  <1>3. Cardinality(Refs(f)) = file[f].ref /\ Cardinality(Refs(f)) \in Nat
    BY <1>2, FS_CardinalityType DEF FsInv
  <1>4. ASSUME file[f].ref = 0, NEW q \in Proc, NEW fd \in Fd PROVE ofile[q][fd] # f
    <2>1. Refs(f) = {}
      BY <1>2, <1>3, <1>4, FS_EmptySet
    <2>2. <<q, fd>> \in Refs(f) <=> ofile[q][fd] = f
      BY DEF Refs, RefsIn
    <2> QED
      BY <2>1, <2>2
  <1> QED
    BY <1>2, <1>3, <1>4

(* Only one process is in the last close of a file, of any file. *)
LEMMA OneCloser ==
    ASSUME FsInv, ~Panicked, NEW p \in Proc, pc[p] \in Closing
    PROVE  /\ \A q \in Proc \ {p} : pc[q] \notin Closing
           /\ ftlock = p /\ loc[p].f \in File /\ file[loc[p].f].type = "inode" /\ file[loc[p].f].ref = 0
           /\ Linked(fs, file[loc[p].f].ip)
  <1>1. \A q \in Proc : DescIs(q, pc[q], loc[q], file, ofile, ftlock)
    BY Known DEF DescOK
  <1>2. /\ ftlock = p /\ loc[p].f \in File /\ file[loc[p].f].type = "inode" /\ file[loc[p].f].ref = 0
    BY <1>1 DEF DescIs
  <1>3. \A q \in Proc \ {p} : pc[q] \notin Closing
    BY <1>1, <1>2 DEF DescIs
  <1> QED
    BY <1>2, <1>3 DEF FsInv, Running, FileOK

-----------------------------------------------------------------------------
(* The references that open files count, after a step of p. *)
LEMMA OpenedMove ==
    ASSUME FsInv, NEW f \in File, NEW i, \A g \in File \ {f} : g \in Opened(i) <=> g \in Opened(i)'
    PROVE  Cardinality(Opened(i)') = Cardinality(Opened(i)) - B(f \in Opened(i)) + B(f \in Opened(i)')
  <1>1. IsFiniteSet(File) /\ Opened(i) \in SUBSET File /\ Opened(i)' \in SUBSET File
    BY FsAssumption DEF Opened
  <1> QED
    BY <1>1, OneChange

(* The iput of fileclose. *)
LEMMA ClosePutKeeps == ASSUME FsInv, ~Panicked, NEW p \in Proc, ClosePut(p) PROVE FsInv'
  <1> DEFINE f == loc[p].f
             k == file[f].ip
             t == Iput(fs, k)
  <1>0. /\ CallIs(fs, pc[p], cwd[p], loc[p]) /\ OpsOK(p)
        /\ DescIs(p, pc[p], loc[p], file, ofile, ftlock)
        /\ \A i \in Inum : fs.ref[i] \in Nat /\ fs.ref[i] = Uses(i)
    BY Known DEF DescOK, FsInv, MemInv, Running
  <1>1. /\ pc[p] = "cput" /\ Do(p, t, "cend")
        /\ UNCHANGED <<disk, ops, lock, ftlock, file, ofile, cwd, loc, ncalls>>
    BY DEF ClosePut
  <1>2. /\ \A q \in Proc \ {p} : pc[q] \notin Closing
        /\ f \in File /\ file[f].type = "inode" /\ k \in Inum
    BY <1>1, OneCloser DEF Closing, Linked
  <1>3. /\ Grows(fs, t, {}) /\ t.ok /\ t.wrote = {}
        /\ \A i \in Inum : t.ref[i] = fs.ref[i] - One(k, i)
    BY <1>2, PutNow
  <1> HIDE DEF t
  <1>4. /\ Healthy(fs') /\ fs'.wrote = {} /\ fs'.ok /\ Grows(fs, fs', {})
        /\ fs'.ref = t.ref /\ pc' = [pc EXCEPT ![p] = "cend"] /\ LogInv'
        /\ \A q \in Proc : q # p => wrote'[q] = wrote[q]
    BY <1>1, <1>3, FileTyped, DoEffect
  <1>5. Stored
    BY <1>1, <1>4, FileTyped DEF Stored, MemInv
  <1>6. TypeInv'
    BY <1>1, <1>4, FileTyped DEF TypeInv, PC
  <1>7. pc'[p] = "cend" /\ loc' = loc /\ cwd' = cwd /\ Only(p)
    BY <1>1, <1>4, FileTyped DEF Only, TypeInv
  <1>8. Leaves(p)
    BY <1>1, <1>4 DEF Leaves
  <1>9. CallIs(fs', "cend", cwd[p], loc[p]) /\ ~loc[p].ok
    <2>1. Linked(fs, cwd[p]) /\ ~loc[p].ok
      BY <1>0, <1>1 DEF CallIs
    <2> QED
      BY <1>4, <2>1 DEF CallIs, Linked, Grows
  <1>10. Arrives(p)
    <2>1. LockIs(p, fs', "cend", loc[p], file', lock')
      BY DEF LockIs
    <2>2. p \in ops' /\ InOp("cend", loc[p])
      BY <1>0, <1>1 DEF OpsOK, InOp
    <2> QED
      BY <1>7, <1>9, <2>1, <2>2 DEF Arrives
  <1>11. Tabled
    <2>1. DescIs(p, "cend", loc[p], file, ofile, ftlock)
      <3>1. \A g : ~Opening("cput", loc[p], g) /\ ~Opening("cend", loc[p], g)
        BY DEF Opening
      <3>2. DescIs(p, "cput", loc[p], file, ofile, ftlock)
        BY <1>0, <1>1
      <3> QED
        BY <3>1, <3>2 DEF DescIs, Closing, Writing
    <2> QED
      BY <1>1, <1>4, <1>7, <2>1, FilesKept DEF Closing
  <1>12. \A i \in Inum : fs'.ref[i] = Uses(i)'
    <2> TAKE i \in Inum
    <2>1. HeldBy(pc[p], cwd[p], loc[p], i) = One(cwd[p], i) /\ One(cwd[p], i) \in Nat
      BY <1>0, <1>1, <1>9, HeldIs
    <2>2. HeldBy("cend", cwd[p], loc[p], i) = One(cwd[p], i)
      BY <1>9, HeldIs
    <2>3. \A q \in Proc : pc[q] # "cend"
      BY <1>1, <1>2 DEF Closing
    <2>4. \A q \in Proc : pc'[q] = "cend" <=> q = p
      BY <1>7, <2>3 DEF Only
    <2>5. \A g \in File : g \in Opened(i) <=> file[g].type = "inode" /\ file[g].ip = i
      BY <2>3 DEF Opened
    <2>6. \A g \in File : g \in Opened(i)' <=> file[g].type = "inode" /\ file[g].ip = i /\ g # f
      BY <1>1, <2>4 DEF Opened
    <2>7. Cardinality(Opened(i)') = Cardinality(Opened(i)) - B(f \in Opened(i)) + B(f \in Opened(i)')
      BY <1>2, <2>5, <2>6, OpenedMove
    <2>8. B(f \in Opened(i)) = One(k, i) /\ B(f \in Opened(i)') = 0
      BY <1>2, <2>5, <2>6 DEF B, One
    <2>9. Uses(i)' = Cardinality(Opened(i)') + (Uses(i) - Cardinality(Opened(i)))
                     - HeldBy(pc[p], cwd[p], loc[p], i) + HeldBy(pc'[p], cwd'[p], loc'[p], i)
      BY <1>7, UsesMove DEF Only
    <2>10. Uses(i) \in Nat /\ Cardinality(Opened(i)) \in Nat /\ One(k, i) \in Nat
      BY UsesAre DEF One
    <2> QED
      BY <1>0, <1>3, <1>4, <1>7, <2>1, <2>2, <2>7, <2>8, <2>9, <2>10
  <1> QED
    BY <1>5, <1>6, <1>7, <1>8, <1>10, <1>11, <1>12, FileStep

(* The end_op of fileclose. *)
LEMMA CloseEndKeeps == ASSUME FsInv, ~Panicked, NEW p \in Proc, CloseEnd(p) PROVE FsInv'
  <1> DEFINE f == loc[p].f
             l == IF loc[p].call = "exit" THEN "exit" ELSE "user"
             r == [NoLocal EXCEPT !.call = IF loc[p].call = "exit" THEN "exit" ELSE "none"]
  <1>0. /\ CallIs(fs, pc[p], cwd[p], loc[p])
        /\ DescIs(p, pc[p], loc[p], file, ofile, ftlock)
        /\ \A q \in Proc : DescIs(q, pc[q], loc[q], file, ofile, ftlock)
        /\ \A g \in File : FileOK(g)
        /\ \A i \in Inum : fs.ref[i] \in Nat /\ fs.ref[i] = Uses(i)
    BY Known DEF DescOK, FsInv, MemInv, Running
  <1>1. /\ pc[p] = "cend" /\ EndOp(p) /\ file' = [file EXCEPT ![f] = NoFile] /\ ftlock' = Nil
        /\ pc' = [pc EXCEPT ![p] = l] /\ loc' = [loc EXCEPT ![p] = r]
        /\ UNCHANGED <<fs, lock, ofile, cwd, ncalls>>
    BY DEF CloseEnd, Goto, Local
  <1>2. /\ \A q \in Proc \ {p} : pc[q] \notin Closing
        /\ f \in File /\ file[f].type = "inode" /\ file[f].ref = 0
    BY <1>1, OneCloser DEF Closing
  <1>3. r \in LocalType /\ ~r.ok /\ l \in {"user", "exit"}
    BY NoLocalTyped
  <1> HIDE DEF l, r
  <1>4. \A q \in Proc : \A fd \in Fd : ofile[q][fd] # f
    BY <1>2, NoRef
  <1>5. /\ Stored /\ ops' \subseteq Proc /\ p \notin ops' /\ wrote'[p] = {}
        /\ \A q \in Proc \ {p} : wrote'[q] = wrote[q] /\ (q \in ops' <=> q \in ops)
    BY <1>1, EndOpEffect
  <1>6. file' \in [File -> FileType] /\ file'[f] = NoFile /\ \A g \in File \ {f} : file'[g] = file[g]
    <2>1. NoFile \in FileType
      BY Sizes1 DEF NoFile, FileType
    <2> QED
      BY <1>1, <1>2, <2>1, FileTyped
  <1>7. TypeInv'
    BY <1>1, <1>3, <1>5, <1>6, FileTyped, FsAssumption DEF TypeInv, PC
  <1>8. pc'[p] = l /\ loc'[p] = r /\ cwd' = cwd /\ Only(p)
    BY <1>1, FileTyped DEF Only, TypeInv
  <1>9. \A q \in Proc : pc[q] \in Writing => loc[q].f # f /\ loc[q].f \in File
    BY <1>0, <1>4 DEF DescIs
  <1>10. Leaves(p)
    BY <1>1, <1>5, <1>6, <1>9 DEF Leaves, Writing
  <1>11. CallIs(fs', l, cwd[p], r) /\ ~loc[p].ok
    BY <1>0, <1>1, <1>3 DEF CallIs
  <1>12. Arrives(p)
    <2>1. LockIs(p, fs', l, r, file', lock') /\ ~InOp(l, r)
      BY <1>3 DEF LockIs, InOp
    <2> QED
      BY <1>3, <1>5, <1>8, <1>11, <2>1 DEF Arrives
  <1>13. Tabled
    <2>1. ASSUME NEW g \in File PROVE FileOK(g)' /\ file'[g].ref = Cardinality(Refs(g)')
      <3>1. CASE g = f
        <4>1. FileOK(g)'
          BY <1>6, <3>1 DEF FileOK, NoFile
        <4>2. Refs(g)' = Refs(g)
          BY <1>1 DEF Refs, RefsIn
        <4> QED
          BY <1>2, <1>6, <3>1, <4>1, <4>2, NoRef DEF NoFile
      <3>2. CASE g # f
        <4>1. file'[g] = file[g] /\ FileOK(g)
          BY <1>0, <1>6, <3>2
        <4>2. ~(file[g].ref = 0 /\ file[g].type = "inode")
          BY <1>2, <3>2, <4>1 DEF FileOK
        <4>3. FileOK(g)'
          BY <1>1, <4>1, <4>2 DEF FileOK
        <4>4. Refs(g)' = Refs(g)
          BY <1>1 DEF Refs, RefsIn
        <4> QED
          BY <4>1, <4>3, <4>4, NoRef
      <3> QED
        BY <3>1, <3>2
    <2>2. ASSUME NEW q \in Proc PROVE DescOK(q)'
      <3>1. \A fd \in Fd : ofile[q][fd] # Nil => ofile[q][fd] \in File \ {f}
        BY <1>4, FileTyped DEF TypeInv
      <3>2. CASE q = p
        <4>1. \A g : ~Opening(pc[p], loc[p], g) /\ ~Opening(l, r, g)
          BY <1>1, <1>3 DEF Opening
        <4>2. \A fd \in Fd : ofile[p][fd] # Nil => file'[ofile[p][fd]].type = "inode"
          BY <1>0, <1>6, <3>1, <3>2, <4>1 DEF DescIs
        <4>3. DescIs(p, l, r, file', ofile, ftlock')
          BY <1>3, <4>1, <4>2 DEF DescIs, Closing, Writing
        <4> QED
          BY <1>1, <1>8, <3>2, <4>3 DEF DescOK
      <3>3. CASE q # p
        <4>1. DescIs(q, pc[q], loc[q], file, ofile, ftlock) /\ pc[q] \notin Closing
          BY <1>0, <1>2, <3>3
        <4>2. \A fd \in Fd : ofile[q][fd] # Nil => file'[ofile[q][fd]] = file[ofile[q][fd]]
          BY <1>6, <3>1
        <4>3. Opening(pc[q], loc[q], loc[q].f) => file'[loc[q].f] = file[loc[q].f]
          BY <1>2, <1>6, <4>1 DEF DescIs
        <4>4. pc[q] \in Writing => file'[loc[q].f] = file[loc[q].f]
          BY <1>6, <1>9
        <4>5. DescIs(q, pc[q], loc[q], file', ofile, ftlock')
          BY <4>1, <4>2, <4>3, <4>4 DEF DescIs
        <4> QED
          BY <1>1, <1>8, <3>3, <4>5 DEF DescOK, Only
      <3> QED
        BY <3>2, <3>3
    <2> QED
      BY <2>1, <2>2 DEF Tabled
  <1>14. \A i \in Inum : fs'.ref[i] = Uses(i)'
    <2> TAKE i \in Inum
    <2>1. HeldBy(pc[p], cwd[p], loc[p], i) = One(cwd[p], i) /\ One(cwd[p], i) \in Nat
      BY <1>0, <1>1, <1>11, HeldIs
    <2>2. HeldBy(l, cwd[p], r, i) = One(cwd[p], i)
      BY <1>3, <1>11, HeldIs
    <2>3. \A g \in File : g \in Opened(i) <=> file[g].type = "inode" /\ file[g].ip = i /\ g # f
      BY <1>1, <1>2 DEF Opened, Closing
    <2>4. \A g \in File : g \in Opened(i)' <=> file[g].type = "inode" /\ file[g].ip = i /\ g # f
      <3>1. \A q \in Proc : pc'[q] # "cend"
        BY <1>2, <1>3, <1>8 DEF Only, Closing
      <3> QED
        BY <1>6, <3>1 DEF Opened, NoFile
    <2>5. Opened(i)' = Opened(i)
      <3>1. Opened(i) \subseteq File /\ Opened(i)' \subseteq File
        BY DEF Opened
      <3> QED
        BY <2>3, <2>4, <3>1
    <2>6. Uses(i)' = Cardinality(Opened(i)') + (Uses(i) - Cardinality(Opened(i)))
                     - HeldBy(pc[p], cwd[p], loc[p], i) + HeldBy(pc'[p], cwd'[p], loc'[p], i)
      BY <1>8, UsesMove DEF Only
    <2>7. Uses(i) \in Nat /\ Cardinality(Opened(i)) \in Nat
      BY UsesAre
    <2> QED
      BY <1>0, <1>1, <1>8, <2>1, <2>2, <2>5, <2>6, <2>7
  <1> QED
    BY <1>5, <1>7, <1>8, <1>10, <1>12, <1>13, <1>14, FileStep

-----------------------------------------------------------------------------
(* A process is in user mode again after its end_op. *)
LEMMA EndArrives ==
    ASSUME FsInv, ~Panicked, NEW p \in Proc, pc[p] = "end", EndOp(p),
           pc' = [pc EXCEPT ![p] = "user"], loc' = [loc EXCEPT ![p] = NoLocal],
           NEW c, Linked(fs, c), cwd' = [cwd EXCEPT ![p] = c], UNCHANGED <<fs, lock, ftlock, ofile, ncalls>>,
           file' \in [File -> FileType],
           \A q \in Proc \ {p} : pc[q] = "wadv" => file'[loc[q].f] = file[loc[q].f]
    PROVE  /\ TypeInv' /\ Stored /\ Only(p) /\ Leaves(p) /\ Arrives(p)
           /\ pc'[p] = "user" /\ loc'[p] = NoLocal /\ cwd'[p] = c
           /\ \A i : HeldBy(pc'[p], cwd'[p], loc'[p], i) = One(c, i)
  <1>1. /\ Stored /\ ops' \subseteq Proc /\ p \notin ops' /\ wrote'[p] = {}
        /\ \A q \in Proc \ {p} : wrote'[q] = wrote[q] /\ (q \in ops' <=> q \in ops)
    BY EndOpEffect
  <1>2. c \in Inum
    BY DEF Linked
  <1>3. TypeInv'
    BY <1>1, <1>2, NoLocalTyped, FileTyped DEF TypeInv, PC
  <1>4. pc'[p] = "user" /\ loc'[p] = NoLocal /\ cwd'[p] = c /\ Only(p)
    BY <1>2, FileTyped DEF Only, TypeInv
  <1>5. Leaves(p)
    BY <1>1 DEF Leaves
  <1>6. CallIs(fs', "user", c, NoLocal)
    BY NoLocalTyped DEF CallIs
  <1>7. LockIs(p, fs', "user", NoLocal, file', lock') /\ ~InOp("user", NoLocal)
    BY DEF LockIs, InOp
  <1>8. Arrives(p)
    BY <1>1, <1>4, <1>6, <1>7 DEF Arrives
  <1>9. \A i : HeldBy("user", c, NoLocal, i) = One(c, i)
    BY <1>6, NoLocalTyped, HeldIs
  <1> QED
    BY <1>1, <1>3, <1>4, <1>5, <1>8, <1>9

(* A process that has ended its call, in directory c. *)
Ended(p, c) ==
    /\ TypeInv' /\ Stored /\ Only(p) /\ Leaves(p) /\ Arrives(p)
    /\ pc'[p] = "user" /\ loc'[p] = NoLocal /\ cwd'[p] = c
    /\ \A i : HeldBy(pc'[p], cwd'[p], loc'[p], i) = One(c, i)

(* The end of a call, with what it leaves under one name. *)
LEMMA EndEnds ==
    ASSUME FsInv, ~Panicked, NEW p \in Proc, pc[p] = "end", EndOp(p),
           pc' = [pc EXCEPT ![p] = "user"], loc' = [loc EXCEPT ![p] = NoLocal],
           NEW c, Linked(fs, c), cwd' = [cwd EXCEPT ![p] = c], UNCHANGED <<fs, lock, ftlock, ofile, ncalls>>,
           file' \in [File -> FileType],
           \A q \in Proc \ {p} : pc[q] = "wadv" => file'[loc[q].f] = file[loc[q].f]
    PROVE  Ended(p, c)
  BY EndArrives, ZenonT(60) DEF Ended

(* The end_op of a call with a path. *)
LEMMA EndKeeps == ASSUME FsInv, ~Panicked, NEW p \in Proc, End(p) PROVE FsInv'
  <1> DEFINE l == loc[p]
             f == l.f
  <1>0. /\ CallIs(fs, pc[p], cwd[p], l) /\ l \in LocalType
        /\ \A q \in Proc : DescIs(q, pc[q], loc[q], file, ofile, ftlock)
        /\ \A g \in File : FileOK(g)
        /\ \A i \in Inum : fs.ref[i] \in Nat /\ fs.ref[i] = Uses(i)
    BY Known DEF DescOK, FsInv, MemInv, Running
  <1>1. /\ pc[p] = "end" /\ EndOp(p) /\ pc' = [pc EXCEPT ![p] = "user"] /\ loc' = [loc EXCEPT ![p] = NoLocal]
        /\ UNCHANGED <<fs, lock, ftlock, ofile, ncalls>>
    BY DEF End, Goto, Local
  <1>2. Linked(fs, cwd[p])
    BY <1>0, <1>1 DEF CallIs
  <1>3. CASE ~l.ok
    <2>1. UNCHANGED <<file, cwd>>
      BY <1>3 DEF End
    <2>2. NoLocal \in LocalType /\ ~NoLocal.ok
      BY NoLocalTyped
    <2> QED
      BY <1>1, <1>3, <2>1, <2>2, EndStep
  <1>4. CASE l.ok /\ l.call = "chdir"
    <2>1. file' = file /\ cwd' = [cwd EXCEPT ![p] = l.ip]
      BY <1>4 DEF End
    <2>2. Linked(fs, l.ip)
      BY <1>0, <1>4 DEF CallIs
    <2>3. /\ TypeInv' /\ Stored /\ Only(p) /\ Leaves(p) /\ Arrives(p)
          /\ pc'[p] = "user" /\ loc'[p] = NoLocal /\ cwd'[p] = l.ip
          /\ \A i : HeldBy(pc'[p], cwd'[p], loc'[p], i) = One(l.ip, i)
      BY <1>1, <2>1, <2>2, FileTyped, EndArrives
    <2>4. Tabled
      <3>1. \A g : ~Opening("user", NoLocal, g) /\ ~Opening(pc[p], l, g)
        BY <1>4 DEF Opening
      <3>2. DescIs(p, "user", NoLocal, file, ofile, ftlock)
        BY <1>0, <3>1 DEF DescIs, Closing, Writing
      <3> QED
        BY <1>1, <2>1, <2>3, <3>2, FilesKept DEF Stored, Closing
    <2>5. \A i \in Inum : fs'.ref[i] = Uses(i)'
      <3> TAKE i \in Inum
      <3>1. HeldBy(pc[p], cwd[p], l, i) = One(l.ip, i) /\ One(l.ip, i) \in Nat
        BY <1>0, <1>1, <1>4, HeldIs
      <3>2. fs'.ref[i] = fs.ref[i] - HeldBy(pc[p], cwd[p], l, i) + HeldBy(pc'[p], cwd'[p], loc'[p], i)
        BY <1>0, <1>1, <2>3, <3>1
      <3> QED
        BY <1>0, <1>1, <2>1, <2>3, <3>2, RefsMove
    <2> QED
      BY <2>3, <2>4, <2>5, FileStep
  <1>5. CASE l.ok /\ l.call # "chdir"
    <2>1. l.call \in {"open", "creat"} /\ Linked(fs, l.ip) /\ l.ip \in Inum
      BY <1>0, <1>5 DEF CallIs, Linked
    <2> DEFINE e == [file[f] EXCEPT !.type = "inode", !.ip = l.ip, !.off = 0, !.write = l.mode = "rw"]
    <2>2. /\ file' = [file EXCEPT ![f] = e]
          /\ cwd' = cwd
      BY <1>5, <2>1 DEF End
    <2>3. \A g : Opening(pc[p], l, g) <=> g = f
      BY <1>1, <1>5, <2>1 DEF Opening
    <2>4. f \in File /\ file[f].type = "none" /\ \E fd \in Fd : RefsIn(ofile, f) = {<<p, fd>>}
      BY <1>0, <2>3 DEF DescIs
    <2>5. \A q \in Proc \ {p} : \A fd \in Fd : ofile[q][fd] # f
      <3> SUFFICES ASSUME NEW q \in Proc \ {p}, NEW fd \in Fd, ofile[q][fd] = f PROVE FALSE
        OBVIOUS
      <3>1. <<q, fd>> \in RefsIn(ofile, f)
        BY DEF RefsIn
      <3> QED
        BY <2>4, <3>1
    <2>6. Cardinality(Refs(f)) = 1 /\ file[f].ref = 1
      <3>1. Cardinality(Refs(f)) = 1
        BY <2>4, FS_Singleton DEF Refs
      <3> QED
        BY <2>4, <3>1, NoRef
    <2>7. /\ file' \in [File -> FileType] /\ file'[f].type = "inode" /\ file'[f].ip = l.ip
          /\ file'[f].ref = file[f].ref
          /\ \A g \in File \ {f} : file'[g] = file[g]
      <3>1. file \in [File -> FileType] /\ file[f] \in FileType /\ 0 \in 0 .. MAXFILE * DPB
        BY <2>4, FileTyped, Sizes1
      <3>2. (l.mode = "rw") \in BOOLEAN
        OBVIOUS
      <3>3. e \in FileType /\ e.type = "inode" /\ e.ip = l.ip /\ e.ref = file[f].ref
        BY <2>1, <3>1, <3>2 DEF FileType
      <3> HIDE DEF e
      <3> QED
        BY <2>2, <2>4, <3>1, <3>3
    <2>8. /\ TypeInv' /\ Stored /\ Only(p) /\ Leaves(p) /\ Arrives(p)
          /\ pc'[p] = "user" /\ loc'[p] = NoLocal /\ cwd'[p] = cwd[p]
          /\ \A i : HeldBy(pc'[p], cwd'[p], loc'[p], i) = One(cwd[p], i)
      <3>1. \A q \in Proc \ {p} : pc[q] = "wadv" => file'[loc[q].f] = file[loc[q].f]
        <4>1. \A q \in Proc \ {p} : pc[q] = "wadv" => loc[q].f \in File \ {f}
          BY <1>0, <2>5 DEF DescIs, Writing
        <4> QED
          BY <2>7, <4>1
      <3>2. cwd' = [cwd EXCEPT ![p] = cwd[p]]
        BY <2>2, FileTyped DEF TypeInv
      <3>3. Linked(fs, cwd[p]) /\ UNCHANGED <<fs, lock, ftlock, ofile, ncalls>>
        BY <1>1, <1>2
      <3>4. /\ pc[p] = "end" /\ EndOp(p) /\ pc' = [pc EXCEPT ![p] = "user"]
            /\ loc' = [loc EXCEPT ![p] = NoLocal]
        BY <1>1
      <3> HIDE DEF f, l, e
      <3>5. Ended(p, cwd[p])
        BY <2>7, <3>1, <3>2, <3>3, <3>4, EndEnds
      <3> QED
        BY <3>5 DEF Ended
    <2>9. Tabled
      <3>1. ASSUME NEW g \in File PROVE FileOK(g)' /\ file'[g].ref = Cardinality(Refs(g)')
        <4>1. Refs(g)' = Refs(g)
          BY <1>1 DEF Refs, RefsIn
        <4>2. file'[g].ref = file[g].ref
          BY <2>7
        <4>3. FileOK(g)'
          <5>1. CASE g = f
            BY <1>1, <2>1, <2>6, <2>7, <5>1 DEF FileOK
          <5>2. CASE g # f
            <6>1. FileOK(g) /\ file'[g] = file[g]
              BY <1>0, <2>7, <5>2
            <6>2. \A q \in Proc : pc[q] \in Closing => pc'[q] = pc[q] /\ loc'[q] = loc[q]
              BY <1>1, <2>8 DEF Only, Closing
            <6> QED
              BY <1>1, <6>1, <6>2 DEF FileOK
          <5> QED
            BY <5>1, <5>2
        <4> QED
          BY <4>1, <4>2, <4>3, NoRef
      <3>2. ASSUME NEW q \in Proc PROVE DescOK(q)'
        <4>0. \A fd \in Fd : ofile[q][fd] \in File \cup {Nil}
          BY FileTyped DEF TypeInv
        <4>1. CASE q = p
          <5>1. \A g : ~Opening("user", NoLocal, g)
            BY DEF Opening
          <5>2. \A fd \in Fd : ofile[p][fd] # Nil => file'[ofile[p][fd]].type = "inode"
            BY <1>0, <2>3, <2>7, <4>0, <4>1 DEF DescIs
          <5>3. DescIs(p, "user", NoLocal, file', ofile, ftlock)
            BY <5>1, <5>2 DEF DescIs, Closing, Writing
          <5> QED
            BY <1>1, <2>8, <4>1, <5>3 DEF DescOK
        <4>2. CASE q # p
          <5>1. DescIs(q, pc[q], loc[q], file, ofile, ftlock)
            BY <1>0
          <5>2. \A fd \in Fd : ofile[q][fd] # Nil => file'[ofile[q][fd]] = file[ofile[q][fd]]
            BY <2>5, <2>7, <4>0, <4>2
          <5>3. Opening(pc[q], loc[q], loc[q].f) => file'[loc[q].f] = file[loc[q].f]
            <6>1. ASSUME Opening(pc[q], loc[q], loc[q].f) PROVE loc[q].f \in File \ {f}
              <7>1. PICK fd \in Fd : RefsIn(ofile, loc[q].f) = {<<q, fd>>}
                BY <5>1, <6>1 DEF DescIs
              <7>2. <<q, fd>> \in RefsIn(ofile, loc[q].f)
                BY <7>1
              <7>3. ofile[q][fd] = loc[q].f
                BY <7>2 DEF RefsIn
              <7> QED
                BY <2>5, <4>2, <5>1, <6>1, <7>3 DEF DescIs
            <6> QED
              BY <2>7, <6>1
          <5>4. pc[q] \in Writing => file'[loc[q].f] = file[loc[q].f]
            BY <2>5, <2>7, <4>2, <5>1 DEF DescIs
          <5>5. pc[q] \in Closing => file'[loc[q].f] = file[loc[q].f]
            BY <2>4, <2>7, <5>1 DEF DescIs
          <5>6. DescIs(q, pc[q], loc[q], file', ofile, ftlock)
            BY <5>1, <5>2, <5>3, <5>4, <5>5 DEF DescIs
          <5> QED
            BY <1>1, <2>8, <4>2, <5>6 DEF DescOK, Only
        <4> QED
          BY <4>1, <4>2
      <3> QED
        BY <3>1, <3>2 DEF Tabled
    <2>10. \A i \in Inum : fs'.ref[i] = Uses(i)'
      <3> TAKE i \in Inum
      <3>1. HeldBy(pc[p], cwd[p], l, i) = One(cwd[p], i) + One(l.ip, i)
            /\ One(cwd[p], i) \in Nat /\ One(l.ip, i) \in Nat
        BY <1>0, <1>1, <1>5, HeldIs
      <3>2. \A q \in Proc : (pc[q] = "cend" <=> pc'[q] = "cend") /\ (pc[q] = "cend" => loc'[q] = loc[q] /\ loc[q].f # f)
        <4> TAKE q \in Proc
        <4>1. CASE q = p
          BY <1>1, <2>8, <4>1
        <4>2. CASE q # p
          <5>1. DescIs(q, pc[q], loc[q], file, ofile, ftlock)
            BY <1>0
          <5> QED
            BY <2>4, <2>8, <4>2, <5>1 DEF Only, DescIs, Closing
        <4> QED
          BY <4>1, <4>2
      <3>3. \A g \in File \ {f} : g \in Opened(i) <=> g \in Opened(i)'
        BY <2>7, <3>2 DEF Opened
      <3>4. f \notin Opened(i) /\ (f \in Opened(i)' <=> l.ip = i)
        BY <2>4, <2>7, <3>2 DEF Opened
      <3>5. Cardinality(Opened(i)') = Cardinality(Opened(i)) - B(f \in Opened(i)) + B(f \in Opened(i)')
        BY <2>4, <3>3, OpenedMove
      <3>6. B(f \in Opened(i)) = 0 /\ B(f \in Opened(i)') = One(l.ip, i)
        BY <3>4 DEF B, One
      <3>7. Uses(i)' = Cardinality(Opened(i)') + (Uses(i) - Cardinality(Opened(i)))
                       - HeldBy(pc[p], cwd[p], loc[p], i) + HeldBy(pc'[p], cwd'[p], loc'[p], i)
        BY <2>8, UsesMove DEF Only
      <3>8. Uses(i) \in Nat /\ Cardinality(Opened(i)) \in Nat /\ HeldBy(pc'[p], cwd'[p], loc'[p], i) = One(cwd[p], i)
        BY <2>8, UsesAre
      <3> QED
        BY <1>0, <1>1, <3>1, <3>5, <3>6, <3>7, <3>8
    <2> QED
      BY <2>8, <2>9, <2>10, FileStep
  <1> QED
    BY <1>3, <1>4, <1>5

-----------------------------------------------------------------------------
(* An entry of the file table that is free, while no one closes a file. *)
LEMMA FreeFile ==
    ASSUME FsInv, ~Panicked, ftlock = Nil, NEW f \in File, file[f].ref = 0
    PROVE  file[f].type = "none" /\ \A q \in Proc : \A fd \in Fd : ofile[q][fd] # f
  <1>1. (\A q \in Proc : DescIs(q, pc[q], loc[q], file, ofile, ftlock)) /\ FileOK(f)
    BY Known DEF DescOK, FsInv, Running
  <1>2. \A q \in Proc : pc[q] \notin Closing
    BY <1>1, FsAssumption DEF DescIs
  <1>3. file[f].type # "inode" /\ file[f] \in FileType
    BY <1>1, <1>2, FileTyped DEF FileOK
  <1> QED
    BY <1>3, NoRef DEF FileType

(* The lowest descriptor that a process has free. *)
LEMMA LowFd ==
    ASSUME NEW p, FreeFd(p) # {}
    PROVE  Min(FreeFd(p)) \in Fd /\ ofile[p][Min(FreeFd(p))] = Nil
  <1>1. FreeFd(p) \in SUBSET Nat
    BY DEF FreeFd, Fd
  <1> QED
    BY <1>1, LeastNumber DEF FreeFd

(* sys_openat has a file, and a descriptor for it. *)
LEMMA OpenGets ==
    ASSUME FsInv, ~Panicked, NEW p \in Proc, pc[p] = "alloc", ftlock = Nil,
           NEW f \in File, file[f].ref = 0, FreeFd(p) # {},
           file' = [file EXCEPT ![f].ref = 1], ofile' = [ofile EXCEPT ![p][Min(FreeFd(p))] = f],
           Local(p, [loc[p] EXCEPT !.f = f, !.ok = TRUE]), Do(p, fs, "end"),
           lock' = [lock EXCEPT ![loc[p].ip] = Nil], UNCHANGED <<ftlock, disk, ops, cwd, ncalls>>
    PROVE  FsInv'
  <1> DEFINE r == [loc[p] EXCEPT !.f = f, !.ok = TRUE]
             n == Min(FreeFd(p))
  <1>0. /\ CallIs(fs, pc[p], cwd[p], loc[p]) /\ OpsOK(p) /\ Grows(fs, fs, {}) /\ fs.ok /\ fs.wrote = {}
        /\ LockIs(p, fs, pc[p], loc[p], file, lock) /\ loc[p] \in LocalType
        /\ \A q \in Proc : DescIs(q, pc[q], loc[q], file, ofile, ftlock)
        /\ \A g \in File : FileOK(g)
        /\ \A i \in Inum : fs.ref[i] \in Nat /\ fs.ref[i] = Uses(i)
    BY Known DEF DescOK, LockOK, FsInv, MemInv, Running
  <1>1. /\ r \in LocalType /\ r.ok /\ r.f = f /\ r.ip = loc[p].ip /\ r.call = loc[p].call
        /\ loc' = [loc EXCEPT ![p] = r]
    BY <1>0 DEF LocalType, Local
  <1> HIDE DEF r
  <1>2. Linked(fs, loc[p].ip) /\ loc[p].call \in {"open", "creat"} /\ loc[p].ip \in Inum /\ ~loc[p].ok
    BY <1>0 DEF CallIs, Linked
  <1>3. file[f].type = "none" /\ \A q \in Proc : \A fd \in Fd : ofile[q][fd] # f
    BY FreeFile
  <1>4. n \in Fd /\ ofile[p][n] = Nil
    BY LowFd
  <1> HIDE DEF n
  <1>5. /\ Healthy(fs') /\ fs'.wrote = {} /\ fs'.ok /\ Grows(fs, fs', {})
        /\ fs'.ref = fs.ref /\ pc' = [pc EXCEPT ![p] = "end"] /\ LogInv'
        /\ \A q \in Proc : q # p => wrote'[q] = wrote[q]
    BY <1>0, FileTyped, DoEffect
  <1>6. Stored
    BY <1>5, FileTyped DEF Stored, MemInv
  <1>7. /\ file' \in [File -> FileType] /\ file'[f].ref = 1
        /\ \A g \in File : /\ file'[g].type = file[g].type /\ file'[g].ip = file[g].ip
                           /\ file'[g].off = file[g].off /\ file'[g].write = file[g].write
                           /\ g # f => file'[g] = file[g]
    BY FileTyped DEF FileType
  <1>8. /\ ofile' \in [Proc -> [Fd -> File \cup {Nil}]] /\ ofile'[p][n] = f
        /\ \A q \in Proc : \A fd \in Fd : q # p \/ fd # n => ofile'[q][fd] = ofile[q][fd]
    BY <1>4, FileTyped DEF TypeInv, n
  <1>9. lock' \in [Inum -> Proc \cup {Nil}] /\ \A i \in Inum : i # loc[p].ip => lock'[i] = lock[i]
    BY FileTyped
  <1>10. TypeInv'
    BY <1>1, <1>5, <1>7, <1>8, <1>9, FileTyped DEF TypeInv, PC
  <1>11. pc'[p] = "end" /\ loc'[p] = r /\ Only(p)
    BY <1>1, <1>5, FileTyped DEF Only, TypeInv
  <1>12. Leaves(p)
    <2>1. \A q \in Proc \ {p} : pc[q] = "wadv" => loc[q].f \in File
      BY <1>0 DEF DescIs, Writing
    <2>2. \A q \in Proc \ {p} : \A i \in Inum : lock[i] = q => lock'[i] = q
      BY <1>0, <1>9 DEF LockIs
    <2> QED
      BY <1>5, <1>7, <2>1, <2>2 DEF Leaves
  <1>13. CallIs(fs', "end", cwd[p], r)
    <2>1. Linked(fs, cwd[p])
      BY <1>0 DEF CallIs
    <2>2. Linked(fs', cwd[p]) /\ Linked(fs', loc[p].ip)
      BY <1>2, <1>5, <2>1 DEF Linked, Grows
    <2> QED
      BY <1>1, <1>2, <2>2 DEF CallIs
  <1>14. Arrives(p)
    <2>1. LockIs(p, fs', "end", r, file', lock') /\ InOp("end", r)
      BY DEF LockIs, InOp
    <2>2. p \in ops'
      BY <1>0 DEF OpsOK, InOp
    <2> QED
      BY <1>11, <1>13, <2>1, <2>2 DEF Arrives
  <1>15. RefsIn(ofile', f) = {<<p, n>>} /\ \A g \in File \ {f} : RefsIn(ofile', g) = RefsIn(ofile, g)
    <2>1. \A d \in Proc \X Fd : d[1] \in Proc /\ d[2] \in Fd /\ d = <<d[1], d[2]>>
      OBVIOUS
    <2>2. \A d \in Proc \X Fd : ofile'[d[1]][d[2]] = f <=> d = <<p, n>>
      BY <1>3, <1>8, <2>1
    <2>3. \A g \in File \ {f} : \A d \in Proc \X Fd : ofile'[d[1]][d[2]] = g <=> ofile[d[1]][d[2]] = g
      <3>1. Nil \notin File
        BY FsAssumption
      <3>2. \A g \in File \ {f} : ofile'[p][n] # g /\ ofile[p][n] # g
        BY <1>4, <1>8, <3>1
      <3>3. ASSUME NEW g \in File \ {f}, NEW d \in Proc \X Fd PROVE ofile'[d[1]][d[2]] = g <=> ofile[d[1]][d[2]] = g
        <4>1. CASE d[1] = p /\ d[2] = n
          BY <3>2, <4>1
        <4>2. CASE d[1] # p \/ d[2] # n
          BY <1>8, <2>1, <4>2
        <4> QED
          BY <4>1, <4>2
      <3> QED
        BY <3>3
    <2>4. <<p, n>> \in Proc \X Fd
      BY <1>4
    <2> QED
      BY <2>2, <2>3, <2>4 DEF RefsIn
  <1>16. Tabled
    <2>1. ASSUME NEW g \in File PROVE FileOK(g)' /\ file'[g].ref = Cardinality(Refs(g)')
      <3>1. CASE g = f
        <4>1. FileOK(g)'
          BY <1>0, <1>3, <1>7, <3>1 DEF FileOK
        <4>2. Refs(g)' = {<<p, n>>}
          BY <1>15, <3>1 DEF Refs
        <4>3. Cardinality({<<p, n>>}) = 1
          BY FS_Singleton
        <4>4. file'[g].ref = 1 /\ Cardinality(Refs(g)') = 1
          BY <1>7, <3>1, <4>2, <4>3
        <4> QED
          BY <4>1, <4>4
      <3>2. CASE g # f
        <4>1. FileOK(g) /\ file'[g] = file[g]
          BY <1>0, <1>7, <3>2
        <4>2. \A q \in Proc : pc[q] \in Closing => pc'[q] = pc[q] /\ loc'[q] = loc[q]
          <5>1. pc[p] \notin Closing
            BY DEF Closing
          <5> QED
            BY <1>11, <5>1 DEF Only
        <4>3. FileOK(g)'
          <5>1. \A i : Linked(fs, i) => Linked(fs', i)
            BY <1>5 DEF Linked, Grows
          <5> QED
            BY <4>1, <4>2, <5>1 DEF FileOK
        <4>4. Refs(g)' = Refs(g)
          BY <1>15, <3>2 DEF Refs
        <4> QED
          BY <4>1, <4>3, <4>4, NoRef
      <3> QED
        BY <3>1, <3>2
    <2>2. ASSUME NEW q \in Proc PROVE DescOK(q)'
      <3>0. \A fd \in Fd : ofile[q][fd] \in File \cup {Nil}
        BY FileTyped DEF TypeInv
      <3>1. CASE q = p
        <4>1. \A g : Opening("end", r, g) <=> g = f
          BY <1>1, <1>2 DEF Opening
        <4>2. \A g : ~Opening(pc[p], loc[p], g)
          BY DEF Opening
        <4>3. ASSUME NEW fd \in Fd, ofile'[p][fd] # Nil
              PROVE  file'[ofile'[p][fd]].type = "inode" \/ Opening("end", r, ofile'[p][fd])
          <5>1. CASE fd = n
            BY <1>8, <4>1, <5>1
          <5>2. CASE fd # n
            BY <1>0, <1>7, <1>8, <3>0, <3>1, <4>2, <4>3, <5>2 DEF DescIs
          <5> QED
            BY <5>1, <5>2
        <4>4. r.f \in File /\ file'[r.f].type = "none" /\ \E fd \in Fd : RefsIn(ofile', r.f) = {<<p, fd>>}
          BY <1>1, <1>3, <1>4, <1>7, <1>15
        <4>5. DescIs(p, "end", r, file', ofile', ftlock')
          BY <4>3, <4>4 DEF DescIs, Closing, Writing
        <4> QED
          BY <1>11, <3>1, <4>5 DEF DescOK
      <3>2. CASE q # p
        <4>1. DescIs(q, pc[q], loc[q], file, ofile, ftlock) /\ pc[q] \notin Closing
          BY <1>0, FsAssumption DEF DescIs
        <4>2. \A fd \in Fd : ofile'[q][fd] = ofile[q][fd] /\ (ofile[q][fd] # Nil => file'[ofile[q][fd]] = file[ofile[q][fd]])
          BY <1>3, <1>7, <1>8, <3>0, <3>2
        <4>3. ASSUME Opening(pc[q], loc[q], loc[q].f)
              PROVE  file'[loc[q].f] = file[loc[q].f] /\ RefsIn(ofile', loc[q].f) = RefsIn(ofile, loc[q].f)
          <5>1. PICK fd \in Fd : RefsIn(ofile, loc[q].f) = {<<q, fd>>}
            BY <4>1, <4>3 DEF DescIs
          <5>2. <<q, fd>> \in RefsIn(ofile, loc[q].f)
            BY <5>1
          <5>3. ofile[q][fd] = loc[q].f
            BY <5>2 DEF RefsIn
          <5>4. loc[q].f \in File \ {f}
            BY <1>3, <4>1, <4>3, <5>3 DEF DescIs
          <5> QED
            BY <1>7, <1>15, <5>4
        <4>4. pc[q] \in Writing => file'[loc[q].f] = file[loc[q].f]
          BY <1>3, <1>7, <4>1 DEF DescIs
        <4>5. DescIs(q, pc[q], loc[q], file', ofile', ftlock')
          BY <4>1, <4>2, <4>3, <4>4 DEF DescIs
        <4> QED
          BY <1>11, <3>2, <4>5 DEF DescOK, Only
      <3> QED
        BY <3>1, <3>2
    <2> QED
      BY <2>1, <2>2 DEF Tabled
  <1>17. \A i \in Inum : fs'.ref[i] = Uses(i)'
    <2> TAKE i \in Inum
    <2>1. HeldBy(pc[p], cwd[p], loc[p], i) = One(cwd[p], i) + One(loc[p].ip, i)
          /\ One(cwd[p], i) \in Nat /\ One(loc[p].ip, i) \in Nat
      BY <1>0, HeldIs
    <2>2. HeldBy("end", cwd[p], r, i) = One(cwd[p], i) + One(loc[p].ip, i)
      BY <1>1, <1>2, <1>13, HeldIs
    <2>3. fs'.ref[i] = fs.ref[i] - HeldBy(pc[p], cwd[p], loc[p], i) + HeldBy(pc'[p], cwd'[p], loc'[p], i)
      BY <1>0, <1>5, <1>11, <2>1, <2>2
    <2> QED
      BY <1>0, <1>7, <1>11, <2>3, RefsMove
  <1> QED
    BY <1>6, <1>10, <1>11, <1>12, <1>14, <1>16, <1>17, FileStep

(* open takes a file and a descriptor. *)
LEMMA OpenAllocKeeps == ASSUME FsInv, ~Panicked, NEW p \in Proc, OpenAlloc(p) PROVE FsInv'
  <1> DEFINE i == loc[p].ip
             Free == {f \in File : file[f].ref = 0}
  <1>0. /\ pc[p] = "alloc" /\ ftlock = Nil /\ UNCHANGED <<disk, ops, cwd, ncalls>>
    BY DEF OpenAlloc
  <1>1. CASE Free = {}
    <2>1. /\ Leave(p, Iput(fs, i)) /\ lock' = [lock EXCEPT ![i] = Nil]
          /\ UNCHANGED <<file, ofile, ftlock>>
      BY <1>1 DEF OpenAlloc
    <2>2. lock' \in [Inum -> Proc \cup {Nil}]
      BY <2>1, FileTyped
    <2>3. lock[i] = p
      BY <1>0, Known DEF LockOK, LockIs
    <2>4. \A q \in Proc \ {p} : \A j \in Inum : lock[j] = q => lock'[j] = q
      BY <2>1, <2>3, FileTyped
    <2> QED
      BY <1>0, <2>1, <2>2, <2>4, PutAndLeave
  <1>2. CASE Free # {} /\ FreeFd(p) = {}
    <2>1. /\ ftlock' = p /\ pc' = [pc EXCEPT ![p] = "panic"]
          /\ UNCHANGED <<fs, wrote, logged, lock, file, ofile, loc>>
      BY <1>2 DEF OpenAlloc, Goto
    <2>2. TypeInv'
      BY <1>0, <2>1, FileTyped DEF TypeInv, PC
    <2> QED
      BY <1>0, <2>1, <2>2, PanicStep
  <1>3. CASE Free # {} /\ FreeFd(p) # {}
    <2>1. PICK f \in Free :
                         /\ file' = [file EXCEPT ![f].ref = 1]
                         /\ ofile' = [ofile EXCEPT ![p][Min(FreeFd(p))] = f]
                         /\ Local(p, [loc[p] EXCEPT !.f = f, !.ok = TRUE])
      BY <1>3 DEF OpenAlloc
    <2>2. Do(p, fs, "end") /\ lock' = [lock EXCEPT ![i] = Nil] /\ UNCHANGED ftlock
      BY <1>3 DEF OpenAlloc
    <2>3. f \in File /\ file[f].ref = 0
      OBVIOUS
    <2> QED
      BY <1>0, <1>3, <2>1, <2>2, <2>3, OpenGets
  <1> QED
    BY <1>1, <1>2, <1>3

-----------------------------------------------------------------------------
(* Descriptors u are descriptors o with one more, of f. *)
Gained(o, u, p, n, f) ==
    /\ o[p][n] = Nil /\ u[p][n] = f
    /\ \A q \in Proc : \A fd \in Fd : q # p \/ fd # n => u[q][fd] = o[q][fd]

(* One more descriptor names f. *)
LEMMA FdGained ==
    ASSUME NEW o, NEW u, NEW p \in Proc, NEW n \in Fd, NEW f \in File, Gained(o, u, p, n, f)
    PROVE  /\ RefsIn(u, f) = RefsIn(o, f) \cup {<<p, n>>} /\ <<p, n>> \notin RefsIn(o, f)
  <1>1. \A d \in Proc \X Fd : d[1] \in Proc /\ d[2] \in Fd /\ d = <<d[1], d[2]>>
    OBVIOUS
  <1>2. <<p, n>> \in Proc \X Fd /\ Nil \notin File
    BY FsAssumption
  <1>3. \A d \in Proc \X Fd : d = <<p, n>> \/ u[d[1]][d[2]] = o[d[1]][d[2]]
    BY <1>1 DEF Gained
  <1>4. \A d \in Proc \X Fd : u[d[1]][d[2]] = f <=> (o[d[1]][d[2]] = f \/ d = <<p, n>>)
    BY <1>3 DEF Gained
  <1>6. <<p, n>> \notin RefsIn(o, f)
    BY <1>2 DEF RefsIn, Gained
  <1> QED
    BY <1>2, <1>4, <1>6 DEF RefsIn

(* ... and one more is counted. *)
LEMMA FdCounted ==
    ASSUME NEW o, NEW u, NEW p \in Proc, NEW n \in Fd, NEW f \in File, Gained(o, u, p, n, f),
           IsFiniteSet(RefsIn(o, f))
    PROVE  Cardinality(RefsIn(u, f)) = Cardinality(RefsIn(o, f)) + 1
  <1>1. RefsIn(u, f) = RefsIn(o, f) \cup {<<p, n>>} /\ <<p, n>> \notin RefsIn(o, f)
    BY FdGained
  <1>2. Cardinality(RefsIn(o, f) \cup {<<p, n>>}) = Cardinality(RefsIn(o, f)) + 1
    BY <1>1, FS_AddElement
  <1> QED
    BY <1>1, <1>2

(* A process in user mode opens nothing that someone has yet to say what it is. *)
LEMMA NotOpening ==
    ASSUME FsInv, ~Panicked, NEW q \in Proc, Opening(pc[q], loc[q], loc[q].f),
           NEW p \in Proc, pc[p] # "end"
    PROVE  loc[q].f \in File /\ \A fd \in Fd : ofile[p][fd] # loc[q].f
  <1>1. DescIs(q, pc[q], loc[q], file, ofile, ftlock)
    BY Known DEF DescOK
  <1>2. loc[q].f \in File /\ file[loc[q].f].type = "none"
    BY <1>1 DEF DescIs
  <1>3. Nil \notin File
    BY FsAssumption
  <1>4. ASSUME NEW fd \in Fd, ofile[p][fd] = loc[q].f PROVE FALSE
    <2>1. ofile[p][fd] # Nil
      BY <1>2, <1>3, <1>4
    <2>2. file[ofile[p][fd]].type = "inode"
      BY <2>1, OpenFile
    <2> QED
      BY <1>2, <1>4, <2>2
  <1> QED
    BY <1>2, <1>4

(* dup *)
LEMMA DupKeeps == ASSUME FsInv, ~Panicked, NEW p \in Proc, Dup(p) PROVE FsInv'
  <1> DEFINE n == Min(FreeFd(p))
  <1>0. /\ CallIs(fs, pc[p], cwd[p], loc[p]) /\ OpsOK(p) /\ LockIs(p, fs, pc[p], loc[p], file, lock)
        /\ \A q \in Proc : DescIs(q, pc[q], loc[q], file, ofile, ftlock)
        /\ \A g \in File : FileOK(g)
    BY Known DEF DescOK, LockOK, FsInv, Running
  <1>1. /\ pc[p] = "user" /\ ftlock = Nil /\ FreeFd(p) # {}
        /\ UNCHANGED <<fs, disk, ops, logged, wrote, lock, ftlock, cwd, pc, loc, ncalls>>
    BY DEF Dup
  <1>2. PICK m \in Fd : /\ ofile[p][m] # Nil
                        /\ ofile' = [ofile EXCEPT ![p][n] = ofile[p][m]]
                        /\ file' = [file EXCEPT ![ofile[p][m]].ref = @ + 1]
    BY DEF Dup
  <1> DEFINE f == ofile[p][m]
  <1>3. f \in File /\ file[f].type = "inode"
    BY <1>1, <1>2, OpenFile
  <1>4. n \in Fd /\ ofile[p][n] = Nil
    BY <1>1, LowFd
  <1>5. /\ file' \in [File -> FileType] /\ file'[f].ref = file[f].ref + 1 /\ file[f].ref \in Nat
        /\ \A g \in File : /\ file'[g].type = file[g].type /\ file'[g].ip = file[g].ip
                           /\ file'[g].off = file[g].off /\ file'[g].write = file[g].write
                           /\ g # f => file'[g] = file[g]
    <2>1. file[f].ref + 1 \in Nat /\ file[f].ref \in Nat
      BY <1>3, FileTyped DEF FileType
    <2> HIDE DEF f
    <2> QED
      BY <1>2, <1>3, <2>1, FileTyped DEF FileType, f
  <1>6. /\ ofile' \in [Proc -> [Fd -> File \cup {Nil}]] /\ ofile'[p][n] = f
        /\ \A q \in Proc : \A fd \in Fd : q # p \/ fd # n => ofile'[q][fd] = ofile[q][fd]
    <2> HIDE DEF n, f
    <2> QED
      BY <1>2, <1>3, <1>4, FileTyped DEF TypeInv, f
  <1> HIDE DEF n, f
  <1>7. TypeInv'
    BY <1>1, <1>5, <1>6, FileTyped DEF TypeInv
  <1>8. Stored /\ fs'.ref = fs.ref /\ Only(p)
    BY <1>1, StoredSame DEF Only
  <1>9. \A q \in Proc : pc[q] \in Writing => loc[q].f \in File
    BY <1>0 DEF DescIs
  <1>10. Leaves(p)
    BY <1>1, <1>5, <1>9 DEF Leaves, Writing
  <1>11. Arrives(p)
    <2>1. LockIs(p, fs', pc'[p], loc'[p], file', lock')
      BY <1>1 DEF LockIs
    <2> QED
      BY <1>0, <1>1, <2>1 DEF Arrives, OpsOK
  <1>12. \A q \in Proc : pc[q] \notin Closing
    BY <1>0, <1>1, FsAssumption DEF DescIs
  <1>15. \A g \in File \ {f} : RefsIn(ofile', g) = RefsIn(ofile, g)
    <2>1. f \in File /\ \A q \in Proc : \A fd \in Fd : q # p \/ fd # n => ofile'[q][fd] = ofile[q][fd]
      BY <1>3, <1>6
    <2>2. ASSUME NEW g \in File, g # f PROVE RefsIn(ofile', g) = RefsIn(ofile, g)
      <3>1. Nil \notin File
        BY FsAssumption
      <3>2. \A d \in Proc \X Fd : ofile'[d[1]][d[2]] = g <=> ofile[d[1]][d[2]] = g
        BY <1>4, <1>6, <2>2, <3>1
      <3> QED
        BY <3>2 DEF RefsIn
    <2> QED
      BY <2>2
  <1>13. Tabled
    <2>1. ASSUME NEW g \in File PROVE FileOK(g)' /\ file'[g].ref = Cardinality(Refs(g)')
      <3>0. IsFiniteSet(RefsIn(ofile, g)) /\ Cardinality(RefsIn(ofile, g)) = file[g].ref
        BY NoRef DEF Refs
      <3>1. CASE g = f
        <4>1. file'[g].ref # 0
          BY <1>5, <3>1
        <4>2. FileOK(g)'
          BY <1>0, <1>1, <1>5, <4>1 DEF FileOK
        <4>3. Gained(ofile, ofile', p, n, g)
          BY <1>4, <1>6, <3>1 DEF Gained
        <4>4. Cardinality(RefsIn(ofile', g)) = Cardinality(RefsIn(ofile, g)) + 1
          BY <1>4, <3>0, <4>3, FdCounted
        <4> QED
          BY <1>5, <3>0, <3>1, <4>2, <4>4 DEF Refs
      <3>2. CASE g # f
        <4>1. FileOK(g) /\ file'[g] = file[g]
          BY <1>0, <1>5, <3>2
        <4>2. FileOK(g)'
          BY <1>1, <4>1 DEF FileOK
        <4>3. RefsIn(ofile', g) = RefsIn(ofile, g)
          BY <1>15, <3>2
        <4> QED
          BY <3>0, <4>1, <4>2, <4>3 DEF Refs
      <3> QED
        BY <3>1, <3>2
    <2>2. ASSUME NEW q \in Proc PROVE DescOK(q)'
      <3>0. \A fd \in Fd : ofile[q][fd] \in File \cup {Nil}
        BY FileTyped DEF TypeInv
      <3>1. DescIs(q, pc[q], loc[q], file, ofile, ftlock)
        BY <1>0
      <3>2. \A fd \in Fd : ofile'[q][fd] # Nil =>
                 file'[ofile'[q][fd]].type = "inode" \/ Opening(pc[q], loc[q], ofile'[q][fd])
        <4> TAKE fd \in Fd
        <4>1. CASE q = p /\ fd = n
          BY <1>3, <1>5, <1>6, <4>1
        <4>2. CASE q # p \/ fd # n
          BY <1>5, <1>6, <3>0, <3>1, <4>2 DEF DescIs
        <4> QED
          BY <4>1, <4>2
      <3>3. ASSUME Opening(pc[q], loc[q], loc[q].f)
            PROVE  file'[loc[q].f] = file[loc[q].f] /\ RefsIn(ofile', loc[q].f) = RefsIn(ofile, loc[q].f)
        <4>1. loc[q].f \in File \ {f}
          BY <1>1, <3>3, NotOpening DEF f
        <4> QED
          BY <1>5, <1>15, <4>1
      <3>4. pc[q] \in Writing => /\ file'[loc[q].f].type = file[loc[q].f].type
                                 /\ \A fd \in Fd : ofile'[q][fd] = ofile[q][fd]
        BY <1>1, <1>5, <1>6, <1>9 DEF Writing
      <3>5. pc[q] = "unused" => \A fd \in Fd : ofile'[q][fd] = ofile[q][fd]
        BY <1>1, <1>6
      <3>6. DescIs(q, pc[q], loc[q], file', ofile', ftlock')
        BY <1>12, <3>1, <3>2, <3>3, <3>4, <3>5 DEF DescIs
      <3> QED
        BY <1>1, <3>6 DEF DescOK
    <2> QED
      BY <2>1, <2>2 DEF Tabled
  <1>14. \A i \in Inum : fs'.ref[i] = Uses(i)'
    <2>1. ~loc[p].ok /\ CallIs(fs', pc'[p], cwd'[p], loc'[p])
      BY <1>0, <1>1 DEF CallIs
    <2> QED
      BY <1>1, <1>5, <1>8, <2>1, StillHeld
  <1> QED
    BY <1>7, <1>8, <1>10, <1>11, <1>13, <1>14, FileStep

-----------------------------------------------------------------------------
(* The descriptors of a process that name f. *)
FdsOf(o, p, f) == {fd \in Fd : o[p][fd] = f}

(* Descriptors u are descriptors o, and q, which had none, has those of p. *)
Copied(o, u, p, q) ==
    \A fd \in Fd : /\ o[q][fd] = Nil /\ u[q][fd] = o[p][fd]
                   /\ \A r \in Proc \ {q} : u[r][fd] = o[r][fd]

(* fork adds as many names of f as the parent has. *)
LEMMA FdsCopied ==
    ASSUME NEW o, NEW u, NEW p \in Proc, NEW q \in Proc, NEW f \in File,
           Copied(o, u, p, q), IsFiniteSet(RefsIn(o, f))
    PROVE  /\ Cardinality(RefsIn(u, f)) = Cardinality(RefsIn(o, f)) + Cardinality(FdsOf(o, p, f))
           /\ Cardinality(FdsOf(o, p, f)) \in Nat
  <1>0. /\ \A fd \in Fd : o[q][fd] # f
        /\ \A fd \in Fd : u[q][fd] = o[p][fd]
        /\ \A r \in Proc : \A fd \in Fd : r # q => u[r][fd] = o[r][fd]
    BY FsAssumption DEF Copied
  <1> DEFINE D == FdsOf(o, p, f)
             N == {q} \X D
  <1>1. IsFiniteSet(Fd) /\ D \subseteq Fd
    BY FsAssumption, FS_Interval DEF Fd, FdsOf
  <1>2. IsFiniteSet(D) /\ IsFiniteSet({q}) /\ Cardinality({q}) = 1
    BY <1>1, FS_Subset, FS_Singleton
  <1>3. Cardinality(D) \in Nat
    BY <1>2, FS_CardinalityType
  <1>4. IsFiniteSet(N) /\ Cardinality(N) = Cardinality(D)
    BY <1>2, <1>3, FS_Product
  <1>5. \A d \in Proc \X Fd : d[1] \in Proc /\ d[2] \in Fd /\ d = <<d[1], d[2]>>
    OBVIOUS
  <1>6. \A d \in Proc \X Fd : u[d[1]][d[2]] = f <=> o[d[1]][d[2]] = f \/ (d[1] = q /\ o[p][d[2]] = f)
    BY <1>0, <1>5
  <1>7. \A d \in Proc \X Fd : d \in N <=> d[1] = q /\ o[p][d[2]] = f
    BY <1>5 DEF FdsOf
  <1>8. N \subseteq Proc \X Fd
    BY <1>1
  <1>9. RefsIn(o, f) \cap N = {}
    <2> SUFFICES ASSUME NEW d \in Proc \X Fd, d \in RefsIn(o, f), d \in N PROVE FALSE
      BY <1>8
    <2>1. o[d[1]][d[2]] = f /\ d[1] = q
      BY <1>7 DEF RefsIn
    <2> QED
      BY <1>0, <1>5, <2>1
  <1> HIDE DEF N, D
  <1>10. RefsIn(u, f) = RefsIn(o, f) \cup N
    <2>1. RefsIn(u, f) = {d \in Proc \X Fd : o[d[1]][d[2]] = f \/ d \in N}
      BY <1>6, <1>7 DEF RefsIn
    <2> QED
      BY <1>8, <2>1 DEF RefsIn
  <1>11. Cardinality(RefsIn(o, f) \cup N)
         = Cardinality(RefsIn(o, f)) + Cardinality(N) - Cardinality(RefsIn(o, f) \cap N)
    BY <1>4, FS_Union
  <1>12. Cardinality(RefsIn(o, f) \cap N) = 0
    BY <1>9, FS_EmptySet
  <1>13. Cardinality(RefsIn(o, f)) \in Nat
    BY FS_CardinalityType
  <1>14. Cardinality(RefsIn(u, f)) = Cardinality(RefsIn(o, f)) + Cardinality(D)
    BY <1>3, <1>4, <1>10, <1>11, <1>12, <1>13
  <1> QED
    BY <1>3, <1>14 DEF D

(* idup of the file system as it is. *)
LEMMA DupNow ==
    ASSUME FsInv, NEW i \in Inum, NEW t, t = Idup(fs, i)
    PROVE  /\ Grows(fs, t, {}) /\ t.ok /\ t.wrote = {}
           /\ \A j \in Inum : t.ref[j] = fs.ref[j] + One(i, j)
  <1>1. Healthy(fs) /\ fs.ok /\ fs.wrote = {}
    BY DEF FsInv, MemInv
  <1>2. Grows(fs, fs, {})
    BY <1>1, GrowsItself
  <1>3. Grows(fs, t, {}) /\ t.ok = fs.ok /\ t.wrote = fs.wrote /\ \A j \in Inum : t.ref[j] = fs.ref[j] + One(i, j)
    BY <1>2, RefEffect
  <1> QED
    BY <1>1, <1>3

(* fork *)
LEMMA ForkKeeps == ASSUME FsInv, ~Panicked, NEW p \in Proc, Fork(p) PROVE FsInv'
  <1>0. /\ \A r \in Proc : CallIs(fs, pc[r], cwd[r], loc[r]) /\ OpsOK(r)
        /\ \A r \in Proc : DescIs(r, pc[r], loc[r], file, ofile, ftlock)
        /\ \A g \in File : FileOK(g)
        /\ \A i \in Inum : fs.ref[i] \in Nat /\ fs.ref[i] = Uses(i)
        /\ Grows(fs, fs, {}) /\ fs.ok /\ fs.wrote = {}
    BY Known DEF DescOK, FsInv, MemInv, Running
  <1>1. /\ pc[p] = "user" /\ ftlock = Nil
        /\ UNCHANGED <<disk, ops, logged, wrote, lock, ftlock, loc, ncalls>>
    BY DEF Fork
  <1>2. PICK q \in Proc : /\ pc[q] = "unused" /\ file' = Filedup(p)
                          /\ ofile' = [ofile EXCEPT ![q] = ofile[p]]
                          /\ fs' = Idup(fs, cwd[p]) /\ cwd' = [cwd EXCEPT ![q] = cwd[p]]
                          /\ pc' = [pc EXCEPT ![q] = "user"]
    BY DEF Fork, Goto
  <1>3. /\ ~loc[q].ok /\ cwd[q] = 0 /\ q \notin ops /\ wrote[q] = {} /\ ~loc[p].ok
        /\ Linked(fs, cwd[p]) /\ cwd[p] \in Inum /\ \A fd \in Fd : ofile[q][fd] = Nil
    BY <1>0, <1>1, <1>2 DEF CallIs, OpsOK, InOp, DescIs, Linked
  <1>4. /\ Grows(fs, fs', {}) /\ fs'.ok /\ fs'.wrote = {} /\ Healthy(fs')
        /\ \A i \in Inum : fs'.ref[i] = fs.ref[i] + One(cwd[p], i)
    <2>1. /\ Grows(fs, fs', {}) /\ fs'.ok /\ fs'.wrote = {}
          /\ \A i \in Inum : fs'.ref[i] = fs.ref[i] + One(cwd[p], i)
      BY <1>2, <1>3, DupNow
    <2> QED
      BY <2>1 DEF Grows
  <1>5. Stored
    BY <1>1, <1>4, FileTyped DEF Stored, MemInv, LogInv
  <1>6. /\ ofile' \in [Proc -> [Fd -> File \cup {Nil}]] /\ \A fd \in Fd : ofile'[q][fd] = ofile[p][fd]
        /\ \A r \in Proc : \A fd \in Fd : r # q => ofile'[r][fd] = ofile[r][fd]
    BY <1>2, FileTyped DEF TypeInv
  <1>7. ASSUME NEW g \in File
        PROVE  /\ Cardinality(RefsIn(ofile', g)) = Cardinality(Refs(g)) + Cardinality(FdsOf(ofile, p, g))
               /\ Cardinality(FdsOf(ofile, p, g)) \in Nat
               /\ (\A fd \in Fd : ofile[p][fd] # g) => RefsIn(ofile', g) = RefsIn(ofile, g)
    <2>1. \A fd \in Fd : ofile[q][fd] # g
      BY <1>3, FsAssumption
    <2>2. IsFiniteSet(RefsIn(ofile, g))
      BY NoRef DEF Refs
    <2>3. /\ Cardinality(RefsIn(ofile', g)) = Cardinality(RefsIn(ofile, g)) + Cardinality(FdsOf(ofile, p, g))
          /\ Cardinality(FdsOf(ofile, p, g)) \in Nat
      <3>1. Copied(ofile, ofile', p, q)
        BY <1>3, <1>6 DEF Copied
      <3> QED
        BY <2>2, <3>1, FdsCopied
    <2>4. ASSUME \A fd \in Fd : ofile[p][fd] # g PROVE RefsIn(ofile', g) = RefsIn(ofile, g)
      <3>1. \A d \in Proc \X Fd : ofile'[d[1]][d[2]] = g <=> ofile[d[1]][d[2]] = g
        BY <1>6, <2>1, <2>4
      <3> QED
        BY <3>1 DEF RefsIn
    <2> QED
      BY <2>3, <2>4 DEF Refs
  <1>8. /\ file' \in [File -> FileType]
        /\ \A g \in File : /\ file'[g].type = file[g].type /\ file'[g].ip = file[g].ip
                           /\ file'[g].off = file[g].off /\ file'[g].write = file[g].write
                           /\ file'[g].ref = file[g].ref + Cardinality(FdsOf(ofile, p, g))
    <2>1. file' = [f \in File |-> [file[f] EXCEPT !.ref = @ + Cardinality(FdsOf(ofile, p, f))]]
      BY <1>2 DEF Filedup, FdsOf
    <2>2. ASSUME NEW g \in File
          PROVE  LET e == [file[g] EXCEPT !.ref = @ + Cardinality(FdsOf(ofile, p, g))] IN
                 /\ e \in FileType /\ e.type = file[g].type /\ e.ip = file[g].ip
                 /\ e.off = file[g].off /\ e.write = file[g].write
                 /\ e.ref = file[g].ref + Cardinality(FdsOf(ofile, p, g))
      <3> DEFINE c == Cardinality(FdsOf(ofile, p, g))
      <3>1. file[g] \in FileType /\ c \in Nat
        BY <1>7, FileTyped
      <3>2. file[g].ref + c \in Nat
        BY <3>1 DEF FileType
      <3> HIDE DEF c
      <3>3. LET e == [file[g] EXCEPT !.ref = @ + c] IN
                 /\ e \in FileType /\ e.type = file[g].type /\ e.ip = file[g].ip
                 /\ e.off = file[g].off /\ e.write = file[g].write
                 /\ e.ref = file[g].ref + c
        BY <3>1, <3>2 DEF FileType
      <3> QED
        BY <3>3 DEF c
    <2>3. \A g \in File : file'[g] = [file[g] EXCEPT !.ref = @ + Cardinality(FdsOf(ofile, p, g))]
      BY <2>1
    <2>4. \A g \in File : file'[g] \in FileType
      BY <2>2, <2>3
    <2>5. file' \in [File -> FileType]
      BY <2>1, <2>4
    <2> QED
      BY <2>2, <2>3, <2>5
  <1>9. TypeInv'
    BY <1>1, <1>2, <1>6, <1>8, FileTyped DEF TypeInv, PC
  <1>10. pc'[q] = "user" /\ loc' = loc /\ cwd'[q] = cwd[p] /\ Only(q)
    BY <1>1, <1>2, FileTyped DEF TypeInv, Only
  <1>11. Leaves(q)
    <2>1. \A r \in Proc : pc[r] = "wadv" => loc[r].f \in File
      BY <1>0 DEF DescIs, Writing
    <2> QED
      BY <1>1, <1>8, <2>1 DEF Leaves
  <1>12. CallIs(fs', "user", cwd[p], loc[q])
    BY <1>3, <1>4 DEF CallIs, Linked, Grows
  <1>13. Arrives(q)
    <2>1. LockIs(q, fs', "user", loc[q], file', lock') /\ ~InOp("user", loc[q])
      BY DEF LockIs, InOp
    <2> QED
      BY <1>1, <1>3, <1>10, <1>12, <2>1 DEF Arrives
  <1>14. \A r \in Proc : pc[r] \notin Closing /\ (pc'[r] \in Closing <=> pc[r] \in Closing)
    <2>1. \A r \in Proc : pc[r] \notin Closing
      BY <1>0, <1>1, FsAssumption DEF DescIs
    <2>2. pc'[q] \notin Closing
      BY <1>10 DEF Closing
    <2> QED
      BY <1>10, <2>1, <2>2 DEF Only
  <1>15. Tabled
    <2>1. ASSUME NEW g \in File PROVE FileOK(g)' /\ file'[g].ref = Cardinality(Refs(g)')
      <3>1. file[g].ref \in Nat /\ Cardinality(FdsOf(ofile, p, g)) \in Nat /\ Cardinality(Refs(g)) = file[g].ref
        BY <1>7, NoRef
      <3>2. file'[g].ref = 0 => file[g].ref = 0
        BY <1>8, <3>1
      <3>3. \A i : Linked(fs, i) => Linked(fs', i)
        BY <1>4 DEF Linked, Grows
      <3>4. FileOK(g)'
        BY <1>0, <1>8, <1>14, <3>2, <3>3 DEF FileOK
      <3> QED
        BY <1>7, <1>8, <3>1, <3>4 DEF Refs
    <2>2. ASSUME NEW r \in Proc PROVE DescOK(r)'
      <3>0. \A fd \in Fd : ofile[r][fd] \in File \cup {Nil} /\ ofile[p][fd] \in File \cup {Nil}
        BY FileTyped DEF TypeInv
      <3>1. CASE r = q
        <4>1. ASSUME NEW fd \in Fd, ofile'[q][fd] # Nil PROVE file'[ofile'[q][fd]].type = "inode"
          <5>1. ofile[p][fd] # Nil /\ ofile'[q][fd] = ofile[p][fd]
            BY <1>6, <4>1
          <5>2. ofile[p][fd] \in File /\ file[ofile[p][fd]].type = "inode"
            BY <1>1, <5>1, OpenFile
          <5> QED
            BY <1>8, <5>1, <5>2
        <4>2. \A g : ~Opening("user", loc[q], g)
          BY DEF Opening
        <4>3. DescIs(q, "user", loc[q], file', ofile', ftlock')
          BY <4>1, <4>2 DEF DescIs, Closing, Writing
        <4> QED
          BY <1>10, <3>1, <4>3 DEF DescOK
      <3>2. CASE r # q
        <4>1. DescIs(r, pc[r], loc[r], file, ofile, ftlock) /\ pc[r] \notin Closing
          BY <1>0, <1>14
        <4>2. \A fd \in Fd : ofile'[r][fd] = ofile[r][fd]
          BY <1>6, <3>2
        <4>3. \A fd \in Fd : ofile[r][fd] # Nil => file'[ofile[r][fd]].type = file[ofile[r][fd]].type
          BY <1>8, <3>0
        <4>4. ASSUME Opening(pc[r], loc[r], loc[r].f)
              PROVE  /\ file'[loc[r].f].type = file[loc[r].f].type
                     /\ RefsIn(ofile', loc[r].f) = RefsIn(ofile, loc[r].f)
          <5>1. loc[r].f \in File /\ \A fd \in Fd : ofile[p][fd] # loc[r].f
            BY <1>1, <4>4, NotOpening
          <5> QED
            BY <1>7, <1>8, <5>1
        <4>5. pc[r] \in Writing => file'[loc[r].f].type = file[loc[r].f].type
          BY <1>8, <4>1 DEF DescIs
        <4>6. DescIs(r, pc[r], loc[r], file', ofile', ftlock')
          BY <4>1, <4>2, <4>3, <4>4, <4>5 DEF DescIs
        <4> QED
          BY <1>10, <3>2, <4>6 DEF DescOK, Only
      <3> QED
        BY <3>1, <3>2
    <2> QED
      BY <2>1, <2>2 DEF Tabled
  <1>16. \A i \in Inum : fs'.ref[i] = Uses(i)'
    <2> TAKE i \in Inum
    <2>1. HeldBy(pc[q], cwd[q], loc[q], i) = 0
      <3>1. HeldBy(pc[q], cwd[q], loc[q], i) = One(0, i)
        BY <1>0, <1>2, <1>3, HeldIs
      <3> QED
        BY <3>1, Sizes1 DEF One
    <2>2. HeldBy("user", cwd[p], loc[q], i) = One(cwd[p], i) /\ One(cwd[p], i) \in Nat
      BY <1>3, <1>12, HeldIs
    <2>3. fs'.ref[i] = fs.ref[i] - HeldBy(pc[q], cwd[q], loc[q], i) + HeldBy(pc'[q], cwd'[q], loc'[q], i)
      BY <1>0, <1>4, <1>10, <2>1, <2>2
    <2>4. pc[q] # "cend" /\ pc'[q] # "cend"
      BY <1>2, <1>10
    <2> QED
      BY <1>0, <1>8, <1>10, <2>3, <2>4, RefsMove
  <1> QED
    BY <1>5, <1>9, <1>10, <1>11, <1>13, <1>15, <1>16, FileStep

-----------------------------------------------------------------------------
(* fileclose *)
LEMMA DropKeeps ==
    ASSUME FsInv, ~Panicked, NEW p \in Proc, pc[p] \in {"user", "exit"}, NEW n \in Fd, ofile[p][n] # Nil,
           DropFile(p, ofile[p][n], [ofile[p] EXCEPT ![n] = Nil])
    PROVE  FsInv'
  <1> DEFINE f == ofile[p][n]
             l == IF file[f].ref > 1 THEN pc[p] ELSE "cbegin"
             r == IF file[f].ref > 1 THEN loc[p] ELSE [loc[p] EXCEPT !.f = f]
  <1>0. /\ CallIs(fs, pc[p], cwd[p], loc[p]) /\ OpsOK(p) /\ loc[p] \in LocalType
        /\ \A q \in Proc : DescIs(q, pc[q], loc[q], file, ofile, ftlock)
        /\ \A g \in File : FileOK(g)
    BY Known DEF DescOK, FsInv, Running
  <1>1. /\ ftlock = Nil /\ file' = [file EXCEPT ![f].ref = @ - 1]
        /\ ofile' = [ofile EXCEPT ![p] = [ofile[p] EXCEPT ![n] = Nil]]
        /\ UNCHANGED <<fs, disk, ops, logged, wrote, lock, cwd, ncalls>>
    BY DEF DropFile
  <1>2. f \in File /\ file[f].type = "inode" /\ f # Nil
    BY OpenFile
  <1>3. file[f].ref \in Nat \ {0} /\ (file[f].ref > 1 <=> file[f].ref - 1 # 0)
    <2>1. file[f].ref \in Nat /\ (file[f].ref = 0 => \A q \in Proc : \A fd \in Fd : ofile[q][fd] # f)
      BY <1>2, NoRef
    <2> QED
      BY <2>1
  <1>4. /\ pc' = [pc EXCEPT ![p] = l] /\ loc' = [loc EXCEPT ![p] = r]
        /\ ftlock' = IF file[f].ref > 1 THEN Nil ELSE p
    <2>1. CASE file[f].ref > 1
      BY <1>1, <2>1, FileTyped DEF DropFile, TypeInv
    <2>2. CASE ~(file[f].ref > 1)
      BY <2>2 DEF DropFile, Goto, Local
    <2> QED
      BY <2>1, <2>2
  <1>5. /\ r \in LocalType /\ ~r.ok /\ ~loc[p].ok /\ l \in {"user", "exit", "cbegin"}
        /\ l = "cbegin" => r.f = f /\ ftlock' = p /\ file[f].ref - 1 = 0
        /\ l # "cbegin" => ftlock' = Nil /\ file[f].ref - 1 # 0
    <2>1. ~loc[p].ok
      BY <1>0 DEF CallIs
    <2>2. [loc[p] EXCEPT !.f = f] \in LocalType /\ ~[loc[p] EXCEPT !.f = f].ok /\ [loc[p] EXCEPT !.f = f].f = f
      BY <1>0, <1>2, <2>1 DEF LocalType
    <2> HIDE DEF f
    <2> QED
      BY <1>0, <1>3, <1>4, <2>1, <2>2
  <1> HIDE DEF l, r
  <1>6. /\ file' \in [File -> FileType] /\ file'[f].ref = file[f].ref - 1
        /\ \A g \in File : /\ file'[g].type = file[g].type /\ file'[g].ip = file[g].ip
                           /\ file'[g].off = file[g].off /\ file'[g].write = file[g].write
                           /\ g # f => file'[g] = file[g]
    <2>1. file[f].ref - 1 \in Nat
      BY <1>3
    <2> HIDE DEF f
    <2> QED
      BY <1>1, <1>2, <2>1, FileTyped DEF FileType
  <1>7. /\ ofile' \in [Proc -> [Fd -> File \cup {Nil}]] /\ ofile'[p][n] = Nil
        /\ \A q \in Proc : \A fd \in Fd : q # p \/ fd # n => ofile'[q][fd] = ofile[q][fd]
    BY <1>1, FileTyped DEF TypeInv
  <1>8. TypeInv'
    BY <1>1, <1>4, <1>5, <1>6, <1>7, FileTyped, FsAssumption DEF TypeInv, PC
  <1>9. pc'[p] = l /\ loc'[p] = r /\ cwd' = cwd /\ Only(p) /\ Stored /\ fs'.ref = fs.ref
    BY <1>1, <1>4, StoredSame, FileTyped DEF Only, TypeInv
  <1>10. Leaves(p)
    <2>1. \A q \in Proc : pc[q] = "wadv" => loc[q].f \in File
      BY <1>0 DEF DescIs, Writing
    <2> QED
      BY <1>1, <1>6, <2>1 DEF Leaves
  <1>11. CallIs(fs', l, cwd[p], r)
    BY <1>0, <1>1, <1>5 DEF CallIs
  <1>12. Arrives(p)
    <2>1. LockIs(p, fs', l, r, file', lock') /\ ~InOp(l, r)
      BY <1>5 DEF LockIs, InOp
    <2>2. p \notin ops' /\ wrote'[p] = {}
      BY <1>0, <1>1 DEF OpsOK, InOp
    <2> QED
      BY <1>5, <1>9, <1>11, <2>1, <2>2 DEF Arrives
  <1>13. \A q \in Proc : pc[q] \notin Closing
    BY <1>0, <1>1, FsAssumption DEF DescIs
  <1>14. file'[f].ref = Cardinality(RefsIn(ofile', f))
    <2>0. Gained(ofile', ofile, p, n, f)
      BY <1>7 DEF Gained
    <2>1. RefsIn(ofile, f) = RefsIn(ofile', f) \cup {<<p, n>>} /\ <<p, n>> \notin RefsIn(ofile', f)
      BY <1>2, <2>0, FdGained
    <2>2. IsFiniteSet(RefsIn(ofile, f)) /\ Cardinality(RefsIn(ofile, f)) = file[f].ref
      BY <1>2, NoRef DEF Refs
    <2>3. IsFiniteSet(RefsIn(ofile', f))
      BY <2>1, <2>2, FS_Subset
    <2>4. Cardinality(RefsIn(ofile', f) \cup {<<p, n>>}) = Cardinality(RefsIn(ofile', f)) + 1
      BY <2>1, <2>3, FS_AddElement
    <2>5. Cardinality(RefsIn(ofile', f)) \in Nat
      BY <2>3, FS_CardinalityType
    <2> QED
      BY <1>6, <2>1, <2>2, <2>4, <2>5
  <1>15. \A g \in File : g # f => RefsIn(ofile', g) = RefsIn(ofile, g)
    <2> SUFFICES ASSUME NEW g \in File, g # f PROVE RefsIn(ofile', g) = RefsIn(ofile, g)
      OBVIOUS
    <2>1. Nil \notin File
      BY FsAssumption
    <2>2. \A d \in Proc \X Fd : ofile'[d[1]][d[2]] = g <=> ofile[d[1]][d[2]] = g
      BY <1>7, <2>1
    <2> QED
      BY <2>2 DEF RefsIn
  <1>16. Tabled
    <2>1. ASSUME NEW g \in File PROVE FileOK(g)' /\ file'[g].ref = Cardinality(Refs(g)')
      <3>1. CASE g = f
        <4>1. file'[f].ref = 0 => pc'[p] \in Closing /\ loc'[p].f = f
          BY <1>5, <1>6, <1>9 DEF Closing
        <4>2. FileOK(g)'
          BY <1>0, <1>1, <1>6, <3>1, <4>1 DEF FileOK
        <4> QED
          BY <1>14, <3>1, <4>2 DEF Refs
      <3>2. CASE g # f
        <4>1. FileOK(g) /\ file'[g] = file[g]
          BY <1>0, <1>6, <3>2
        <4>2. FileOK(g)'
          BY <1>1, <1>13, <4>1 DEF FileOK
        <4>3. Refs(g)' = Refs(g)
          BY <1>15, <3>2 DEF Refs
        <4> QED
          BY <4>1, <4>2, <4>3, NoRef
      <3> QED
        BY <3>1, <3>2
    <2>2. ASSUME NEW q \in Proc PROVE DescOK(q)'
      <3>0. /\ \A fd \in Fd : ofile[q][fd] \in File \cup {Nil}
            /\ \A fd \in Fd : ofile'[q][fd] = ofile[q][fd] \/ (q = p /\ ofile'[q][fd] = Nil)
        BY <1>7, FileTyped DEF TypeInv
      <3>1. DescIs(q, pc[q], loc[q], file, ofile, ftlock)
        BY <1>0
      <3>2. CASE q = p
        <4>1. \A g : ~Opening(pc[p], loc[p], g) /\ ~Opening(l, r, g)
          BY <1>5 DEF Opening
        <4>2. \A fd \in Fd : ofile'[p][fd] # Nil => file'[ofile'[p][fd]].type = "inode"
          BY <1>6, <3>0, <3>1, <3>2, <4>1 DEF DescIs
        <4>3. l = "cbegin" => r.f \in File /\ file'[r.f].type = "inode" /\ file'[r.f].ref = 0
          BY <1>2, <1>5, <1>6
        <4>4. DescIs(p, l, r, file', ofile', ftlock')
          BY <1>5, <4>1, <4>2, <4>3 DEF DescIs, Closing, Writing
        <4> QED
          BY <1>9, <3>2, <4>4 DEF DescOK
      <3>3. CASE q # p
        <4>1. pc[q] \notin Closing /\ \A fd \in Fd : ofile'[q][fd] = ofile[q][fd]
          BY <1>13, <3>0, <3>3
        <4>2. \A fd \in Fd : ofile[q][fd] # Nil => file'[ofile[q][fd]].type = file[ofile[q][fd]].type
          BY <1>6, <3>0
        <4>3. ASSUME Opening(pc[q], loc[q], loc[q].f)
              PROVE  /\ file'[loc[q].f].type = file[loc[q].f].type
                     /\ RefsIn(ofile', loc[q].f) = RefsIn(ofile, loc[q].f)
          <5>1. loc[q].f \in File /\ \A fd \in Fd : ofile[p][fd] # loc[q].f
            BY <4>3, NotOpening
          <5>2. loc[q].f # f
            BY <5>1
          <5> QED
            BY <1>6, <1>15, <5>1, <5>2
        <4>4. pc[q] \in Writing => file'[loc[q].f].type = file[loc[q].f].type
          BY <1>6, <3>1 DEF DescIs
        <4>5. DescIs(q, pc[q], loc[q], file', ofile', ftlock')
          BY <3>1, <4>1, <4>2, <4>3, <4>4 DEF DescIs
        <4> QED
          BY <1>9, <3>3, <4>5 DEF DescOK, Only
      <3> QED
        BY <3>2, <3>3
    <2> QED
      BY <2>1, <2>2 DEF Tabled
  <1>17. \A i \in Inum : fs'.ref[i] = Uses(i)'
    <2>1. CallIs(fs', pc'[p], cwd'[p], loc'[p])
      BY <1>9, <1>11
    <2> QED
      BY <1>5, <1>6, <1>9, <2>1, StillHeld
  <1> QED
    BY <1>8, <1>9, <1>10, <1>12, <1>16, <1>17, FileStep

(* close *)
LEMMA CloseKeeps == ASSUME FsInv, ~Panicked, NEW p \in Proc, Close(p) PROVE FsInv'
  BY DropKeeps DEF Close

(* exit closes a descriptor. *)
LEMMA ExitCloseKeeps == ASSUME FsInv, ~Panicked, NEW p \in Proc, ExitClose(p) PROVE FsInv'
  <1> DEFINE S == Fd \ FreeFd(p)
             n == Min(S)
  <1>1. pc[p] = "exit" /\ S # {} /\ DropFile(p, ofile[p][n], [ofile[p] EXCEPT ![n] = Nil])
    BY DEF ExitClose, FreeFd
  <1>2. S \in SUBSET Nat
    BY DEF Fd
  <1>3. n \in S
    <2> HIDE DEF S
    <2> QED
      BY <1>1, <1>2, LeastNumber
  <1>4. n \in Fd /\ ofile[p][n] # Nil
    BY <1>3 DEF FreeFd
  <1> QED
    BY <1>1, <1>4, DropKeeps

-----------------------------------------------------------------------------
(* A disk that has been mounted is healthy, and no inode of it is cached. *)
LEMMA MountHealthy ==
    ASSUME NEW d, Readable(d), NEW s, s = Mount(d)
    PROVE  /\ Healthy(s) /\ s.wrote = {} /\ s.ok /\ s.inode = d.inode
           /\ \A i \in Inum : s.ref[i] = 0
  <1>1. /\ s.inode = d.inode /\ s.used = d.used /\ s.dir = d.dir /\ s.wrote = {} /\ s.ok
        /\ s.ref = [i \in Inum |-> 0] /\ s.valid = [i \in Inum |-> FALSE]
        /\ s.copy = [i \in Inum |-> NewInode("free", 0)]
    BY DEF Mount
  <1>2. d.inode \in [Inum -> InodeType] /\ d.used \in SUBSET Block
        /\ d.dir \in [Addr -> [0 .. DPB - 1 -> Dirent]]
    BY DEF Readable, DiskType
  <1>3. NewInode("free", 0) \in InodeType /\ NewInode("free", 0).type = "free"
    <2>1. 0 \in 0 .. MAXFILE * DPB /\ 0 \in Nat
      BY Sizes1
    <2> QED
      BY <2>1 DEF NewInode, InodeType, Type
  <1> HIDE DEF NewInode
  <1>4. s \in MemType
    <2>1. {} \in SUBSET BlockName /\ 0 \in Int /\ s.ok \in BOOLEAN
      BY DEF Mount
    <2>2. s.ref \in [Inum -> Int] /\ s.valid \in [Inum -> BOOLEAN] /\ s.copy \in [Inum -> InodeType]
      BY <1>1, <1>3
    <2> QED
      BY <1>2, <2>1, <2>2 DEF MemType, Mount
  <1>5. \A i \in Inum : InodeOK(s, i)
    BY <1>1, <1>3 DEF Readable, InodeOK
  <1>6. \A b \in Addr : \A o \in 0 .. DPB - 1 : EntryOK(s, s.dir[b][o])
    BY <1>1 DEF Readable, EntryOK
  <1>7. s.inode[ROOTINO].nlink > 0
    BY <1>1 DEF Readable
  <1>8. Healthy(s)
    BY <1>4, <1>5, <1>6, <1>7, HealthyIs
  <1> QED
    BY <1>1, <1>8

(* The first process has the root for its directory. *)
LEMMA BootHealthy ==
    ASSUME NEW d, Readable(d), NEW s, s = Iget(Mount(d), ROOTINO)
    PROVE  /\ Healthy(s) /\ s.wrote = {} /\ s.ok /\ Linked(s, ROOTINO)
           /\ \A i \in Inum : s.ref[i] = One(ROOTINO, i)
  <1> DEFINE m == Mount(d)
  <1>1. /\ Healthy(m) /\ m.wrote = {} /\ m.ok /\ m.inode = d.inode
        /\ \A i \in Inum : m.ref[i] = 0
    BY MountHealthy
  <1> HIDE DEF m
  <1>2. Grows(m, m, {}) /\ ROOTINO \in Inum /\ m \in MemType
    BY <1>1, GrowsItself, HealthyTyped, Sizes1
  <1>3. s.ok
    <2>1. {j \in Inum : m.ref[j] > 0} = {}
      BY <1>1
    <2>2. Cardinality({j \in Inum : m.ref[j] > 0}) # NINODE
      BY <2>1, FS_EmptySet, Sizes1
    <2>3. s = [m EXCEPT !.ref[ROOTINO] = 1, !.valid[ROOTINO] = FALSE]
      BY <1>1, <1>2, <2>2 DEF Iget, m
    <2> QED
      BY <1>1, <1>2, <2>3 DEF MemType
  <1>4. \A i \in Inum : m.ref[i] \in Nat
    BY <1>1
  <1>5. s = Iget(m, ROOTINO)
    BY DEF m
  <1>6. /\ Grows(m, s, {}) /\ s.inode = m.inode /\ s.wrote = m.wrote
        /\ \A i \in Inum : s.ref[i] = m.ref[i] + One(ROOTINO, i)
    <2>1. LET t == Iget(m, ROOTINO) IN
           t.ok => /\ t \in MemType /\ Grows(m, t, {})
                   /\ t.inode = m.inode /\ t.copy = m.copy /\ t.wrote = m.wrote
                   /\ \A j \in Inum : t.ref[j] = m.ref[j] + One(ROOTINO, j)
      BY <1>2, <1>4, GetEffect
    <2> QED
      BY <1>3, <1>5, <2>1
  <1>7. Linked(s, ROOTINO)
    BY <1>1, <1>2, <1>6 DEF Linked, Readable
  <1>8. \A i \in Inum : One(ROOTINO, i) \in Nat
    BY DEF One
  <1> QED
    BY <1>1, <1>3, <1>6, <1>7, <1>8 DEF Grows

(* The state after a start on the disk. *)
Started ==
    /\ Readable(disk)
    /\ fs = Booted(disk).fs /\ pc = Booted(disk).pc /\ cwd = Booted(disk).cwd
    /\ ops = {} /\ logged = {} /\ wrote = Cold.wrote
    /\ lock = Cold.lock /\ ftlock = Nil
    /\ file = Cold.file /\ ofile = Cold.ofile /\ loc = Cold.loc
    /\ ncalls \in 0 .. MaxCalls

(* A start keeps the invariant. *)
LEMMA StartedInv == Started => FsInv
  <1> SUFFICES ASSUME Started PROVE FsInv
    OBVIOUS
  <1>1. /\ Readable(disk) /\ ops = {} /\ ftlock = Nil /\ ncalls \in 0 .. MaxCalls /\ logged = {}
        /\ fs = Iget(Mount(disk), ROOTINO)
        /\ pc = [p \in Proc |-> IF p = Initproc THEN "user" ELSE "unused"]
        /\ cwd = [p \in Proc |-> IF p = Initproc THEN ROOTINO ELSE 0]
        /\ wrote = [p \in Proc |-> {}] /\ lock = [i \in Inum |-> Nil]
        /\ file = [f \in File |-> NoFile] /\ loc = [p \in Proc |-> NoLocal]
        /\ ofile = [p \in Proc |-> [fd \in Fd |-> Nil]]
    BY DEF Started, Booted, Cold
  <1>2. /\ Healthy(fs) /\ fs.wrote = {} /\ fs.ok /\ Linked(fs, ROOTINO)
        /\ \A i \in Inum : fs.ref[i] = One(ROOTINO, i)
    BY <1>1, BootHealthy
  <1>3. /\ \A i \in Inum : One(ROOTINO, i) \in Nat
        /\ NoLocal \in LocalType /\ ~NoLocal.ok /\ NoLocal.call = "none"
        /\ NoFile \in FileType /\ NoFile.type = "none" /\ NoFile.ref = 0 /\ ~NoFile.write
        /\ Initproc \in Proc /\ ROOTINO \in Inum
    <2>1. NoFile \in FileType
      BY Sizes1 DEF NoFile, FileType
    <2> QED
      BY <2>1, NoLocalTyped, Sizes1, FsAssumption DEF One, NoFile
  <1> HIDE DEF NoFile, NoLocal
  <1>4. TypeInv
    BY <1>1, <1>3 DEF TypeInv, PC
  <1>5. MemInv /\ LogInv
    BY <1>1, <1>2, <1>3 DEF MemInv, LogInv
  <1>6. \A f \in File : file[f].ref = Cardinality(Refs(f))
    <2> TAKE f \in File
    <2>1. Refs(f) = {}
      <3> SUFFICES ASSUME NEW e \in Proc \X Fd, ofile[e[1]][e[2]] = f PROVE FALSE
        BY DEF Refs, RefsIn
      <3>1. e[1] \in Proc /\ e[2] \in Fd
        OBVIOUS
      <3> QED
        BY <1>1, <3>1, FsAssumption
    <2> QED
      BY <1>1, <1>3, <2>1, FS_EmptySet
  <1>7. \A p \in Proc : /\ loc[p] = NoLocal /\ (\A fd \in Fd : ofile[p][fd] = Nil) /\ wrote[p] = {}
                        /\ \/ pc[p] = "user" /\ cwd[p] = ROOTINO
                           \/ pc[p] = "unused" /\ cwd[p] = 0
    BY <1>1
  <1>8. OffsetUnderLock
    BY <1>7 DEF OffsetUnderLock
  <1>9. \A f \in File : FileOK(f)
    BY <1>1, <1>3 DEF FileOK
  <1>10. \A p \in Proc : DescOK(p) /\ CallOK(p) /\ LockOK(p) /\ OpsOK(p)
    <2> TAKE p \in Proc
    <2>1. \A f : ~Opening(pc[p], loc[p], f)
      BY <1>7 DEF Opening
    <2>2. DescOK(p)
      BY <1>7, <2>1 DEF DescOK, DescIs, Closing, Writing
    <2>3. CallOK(p)
      BY <1>2, <1>3, <1>7 DEF CallOK, CallIs
    <2>4. LockOK(p)
      BY <1>7 DEF LockOK, LockIs
    <2>5. OpsOK(p)
      BY <1>1, <1>7 DEF OpsOK, InOp
    <2> QED
      BY <2>2, <2>3, <2>4, <2>5
  <1>11. FillsApart
    BY <1>7 DEF FillsApart
  <1>12. \A i \in Inum : fs.ref[i] = Uses(i)
    <2> TAKE i \in Inum
    <2>1. Opened(i) = {}
      BY <1>1, <1>3 DEF Opened
    <2>2. Way(i) = {} /\ Made1(i) = {} /\ Place(i) = {}
      BY <1>7 DEF Way, Made1, Place, InPath, InFile, InPlace
    <2>3. Dir(i) = IF i = ROOTINO THEN {Initproc} ELSE {}
      BY <1>1, <1>3, Sizes1 DEF Dir, InDir
    <2>4. Cardinality({}) = 0 /\ Cardinality({Initproc}) = 1
      BY FS_EmptySet, FS_Singleton
    <2>5. Cardinality(Dir(i)) = One(ROOTINO, i)
      BY <2>3, <2>4 DEF One
    <2>6. Uses(i) = Cardinality(Opened(i)) + Cardinality(Dir(i)) + Cardinality(Way(i))
                    + Cardinality(Made1(i)) + Cardinality(Place(i))
      BY UsesAre
    <2>7. Uses(i) = 0 + One(ROOTINO, i) + 0 + 0 + 0
      BY <2>1, <2>2, <2>4, <2>5, <2>6
    <2> QED
      BY <1>2, <1>3, <2>7
  <1>13. Running
    BY <1>9, <1>10, <1>11, <1>12 DEF Running
  <1> QED
    BY <1>4, <1>5, <1>6, <1>8, <1>13 DEF FsInv

(* The first start is on the disk that mkfs has made. *)
LEMMA InitInv == Init => FsInv
  <1>1. Init => Started
    BY ProgramsFit, FsAssumption DEF Init, Started
  <1> QED
    BY <1>1, StartedInv

(* Another is on what the log has committed. *)
LEMMA CrashKeeps == ASSUME FsInv, Crash PROVE FsInv'
  <1>1. Started'
    BY DEF Crash, Started, FsInv, MemInv, TypeInv
  <1>2. (Started => FsInv)'
    BY StartedInv, PTL
  <1> QED
    BY <1>1, <1>2

-----------------------------------------------------------------------------
(* Every step keeps the invariant. *)
LEMMA StepKeeps == ASSUME FsInv, [Next]_vars PROVE FsInv'
  <1>1. CASE Crash
    BY <1>1, CrashKeeps
  <1>2. CASE ~Panicked /\ \E p \in Proc : Namei(p) \/ Creat(p) \/ Files(p) \/ Io(p)
    <2>1. PICK p \in Proc : Namei(p) \/ Creat(p) \/ Files(p) \/ Io(p)
      BY <1>2
    <2>2. CASE Namei(p)
      BY <1>2, <2>2, CallKeeps, NoParentKeeps, WalkKeeps, OpenFoundKeeps, ChdirFoundKeeps, StatFoundKeeps
         DEF Namei
    <2>3. CASE Creat(p)
      BY <1>2, <2>3, CreateLookKeeps, CreateExistKeeps, CreateIallocKeeps, CreateFillKeeps DEF Creat
    <2>4. CASE Files(p)
      BY <1>2, <2>4, OpenAllocKeeps, EndKeeps, DupKeeps, ForkKeeps, CloseKeeps, CloseBeginKeeps,
         ClosePutKeeps, CloseEndKeeps, ExitKeeps, ExitCloseKeeps, ExitCwdKeeps DEF Files
    <2>5. CASE Io(p)
      BY <1>2, <2>5, ReadKeeps, WriteKeeps, WriteBeginKeeps, WriteLockedKeeps, WriteAdvanceKeeps,
         WriteEndKeeps DEF Io
    <2> QED
      BY <2>1, <2>2, <2>3, <2>4, <2>5
  <1>3. CASE UNCHANGED vars
    <2>1. /\ UNCHANGED <<fs, disk, ops, logged, wrote, lock, ftlock, file, ofile, cwd, pc, loc, ncalls>>
      BY <1>3 DEF vars
    <2>2. TypeInv' /\ MemInv' /\ LogInv' /\ OffsetUnderLock'
      BY <2>1 DEF FsInv, TypeInv, MemInv, LogInv, OffsetUnderLock
    <2>3. \A f \in File : file'[f].ref = Cardinality(Refs(f)')
      BY <2>1 DEF FsInv, Refs
    <2>4. Panicked' => Panicked
      BY <2>1 DEF Panicked
    <2>5. ASSUME ~Panicked' PROVE Running'
      <3>1. Running /\ ~Panicked
        BY <2>1, <2>5 DEF FsInv, Panicked
      <3>2. \A f \in File : FileOK(f)'
        BY <2>1, <3>1 DEF Running, FileOK
      <3>3. \A p \in Proc : DescOK(p)' /\ CallOK(p)' /\ LockOK(p)' /\ OpsOK(p)'
        BY <2>1, <3>1 DEF Running, DescOK, CallOK, LockOK, OpsOK
      <3>4. FillsApart'
        BY <2>1, <3>1 DEF Running, FillsApart
      <3>5. \A i \in Inum : fs'.ref[i] = Uses(i)'
        BY <2>1, <3>1 DEF Running, Uses
      <3> QED
        BY <3>2, <3>3, <3>4, <3>5 DEF Running
    <2> QED
      BY <2>2, <2>3, <2>5 DEF FsInv
  <1> QED
    BY <1>1, <1>2, <1>3 DEF Next

(* The invariant holds, of any number of processes. *)
THEOREM FsInvariant == Spec => []FsInv
  BY InitInv, StepKeeps, PTL DEF Spec

(* Two writers of a file do not write at the same offset. *)
THEOREM WritesFollow == Spec => []OffsetUnderLock
  <1>1. FsInv => OffsetUnderLock
    BY DEF FsInv
  <1> QED
    BY <1>1, FsInvariant, PTL

(* The inode cache is write-through. *)
THEOREM CacheWritesThrough == Spec => []CacheIsDisk
  <1>1. FsInv => CacheIsDisk
    BY DEF FsInv, MemInv, Healthy, CacheIsDisk
  <1> QED
    BY <1>1, FsInvariant, PTL

(* What is taken is given back, once. *)
THEOREM ReferencesCounted == Spec => []ReferencesExact
  <1>1. FsInv => TypeOK
    <2> SUFFICES ASSUME FsInv PROVE TypeOK
      OBVIOUS
    <2>1. TypeInv /\ Healthy(fs) /\ fs.wrote = {} /\ fs.ok /\ Readable(disk)
          /\ (\A p \in Proc : wrote[p] \subseteq logged) /\ \A i \in Inum : fs.ref[i] \in Nat
      BY DEF FsInv, MemInv, LogInv
    <2>2. Image(fs) \in DiskType /\ disk \in DiskType /\ fs \in MemType
      BY <2>1 DEF Healthy, Readable
    <2>3. fs.ref \in [Inum -> Nat] /\ fs.valid \in [Inum -> BOOLEAN] /\ fs.copy \in [Inum -> InodeType]
      BY <2>1, <2>2 DEF MemType
    <2> QED
      BY <2>1, <2>2, <2>3 DEF TypeOK, TypeInv, FileType
  <1>2. FsInv => RefsExact /\ FileRefsExact
    BY DEF FsInv, Running, RefsExact, FileRefsExact, Refs, RefsIn
  <1>3. FsInv => InodesStayLinked
    <2> SUFFICES ASSUME FsInv, NEW i \in Inum, fs.valid[i] PROVE fs.copy[i].nlink > 0
      BY DEF InodesStayLinked
    <2> QED
      BY DEF FsInv, MemInv, Healthy
  <1> QED
    BY <1>1, <1>2, <1>3, FsInvariant, PTL DEF ReferencesExact

-----------------------------------------------------------------------------
(* What create logs. *)

(* What ilock, iget, iput and idup make of a file system in which nothing  *)
(* is logged yet.                                                          *)
Unlogged(s) ==
    /\ DOMAIN s = {"inode", "used", "dir", "ref", "valid", "copy", "wrote", "ok"}
    /\ s.wrote = {}

(* They log nothing. *)
LEMMA UnloggedKept ==
    ASSUME NEW s, Unlogged(s), NEW i
    PROVE  Unlogged(Iget(s, i)) /\ Unlogged(Iput(s, i)) /\ Unlogged(Ilock(s, i)) /\ Unlogged(Idup(s, i))
  <1>1. Unlogged(Iget(s, i))
    BY DEF Unlogged, Iget
  <1>2. Unlogged(Iput(s, i))
    BY DEF Unlogged, Iput
  <1>3. Unlogged(Ilock(s, i))
    BY DEF Unlogged, Ilock
  <1>4. Unlogged(Idup(s, i))
    BY DEF Unlogged, Idup
  <1> QED
    BY <1>1, <1>2, <1>3, <1>4

(* Between two steps nothing waits to be logged. *)
LEMMA UnloggedNow == ASSUME FsInv PROVE Unlogged(fs)
  <1>1. fs \in MemType /\ fs.wrote = {}
    BY DEF FsInv, MemInv, Healthy
  <1> QED
    BY <1>1 DEF Unlogged, MemType

(* Where the others are, and where p is. *)
Stay(p) == \A q \in Proc \ {p} : pc'[q] = pc[q] /\ loc'[q] = loc[q] /\ wrote'[q] = wrote[q]
Locals(p, r) == loc'[p] = r /\ \A q \in Proc \ {p} : loc'[q] = loc[q]

(* What Local and UNCHANGED say of the locals. *)
LEMMA LocalsAre ==
    ASSUME FsInv, NEW p \in Proc
    PROVE  /\ \A r : Local(p, r) => Locals(p, r)
           /\ UNCHANGED loc => Locals(p, loc[p])
  <1>1. DOMAIN loc = Proc
    BY DEF FsInv, TypeInv
  <1> QED
    BY <1>1 DEF Local, Locals

(* Only p moves. *)
LEMMA CreateMoves ==
    ASSUME CreateInv, NEW p \in Proc, Stay(p), CreateIs(pc'[p], loc'[p], wrote'[p])
    PROVE  CreateInv'
  <1> SUFFICES ASSUME NEW q \in Proc PROVE CreateIs(pc'[q], loc'[q], wrote'[q])
    BY DEF CreateInv
  <1>1. CASE q = p
    BY <1>1
  <1>2. CASE q # p
    BY <1>2 DEF CreateInv, Stay
  <1> QED
    BY <1>1, <1>2

(* Do, for what is logged. *)
LEMMA DoLogs ==
    ASSUME FsInv, NEW p \in Proc, NEW t, NEW l, Do(p, t, l), NEW r, Locals(p, r)
    PROVE  /\ Stay(p) /\ loc'[p] = r
           /\ \/ t.ok /\ pc'[p] = l /\ wrote'[p] = wrote[p] \cup t.wrote
              \/ ~t.ok /\ pc'[p] = "panic" /\ wrote'[p] = wrote[p]
  <1>1. DOMAIN wrote = Proc /\ DOMAIN pc = Proc
    BY DEF FsInv, TypeInv, LogInv
  <1>2. CASE t.ok
    BY <1>1, <1>2 DEF Do, Goto, Locals, Stay
  <1>3. CASE ~t.ok
    BY <1>1, <1>3 DEF Do, Goto, Locals, Stay
  <1> QED
    BY <1>2, <1>3

Early == {"walk", "create", "exist", "ialloc"}
Late  == {"alloc", "end"}

(* A step of a call that logs nothing. *)
LEMMA QuietDoes ==
    ASSUME FsInv, CreateInv, NEW p \in Proc, NEW t, NEW l, Do(p, t, l), NEW r, Locals(p, r),
           Unlogged(t),
           r.call \in Create => loc[p].call \in Create /\ (l \in Late \/ (l \in Early /\ pc[p] \in Early))
    PROVE  CreateInv'
  <1>1. /\ Stay(p) /\ loc'[p] = r
        /\ \/ t.ok /\ pc'[p] = l /\ wrote'[p] = wrote[p] \cup t.wrote
           \/ ~t.ok /\ pc'[p] = "panic" /\ wrote'[p] = wrote[p]
    BY DoLogs
  <1>2. wrote'[p] = wrote[p]
    BY <1>1 DEF Unlogged
  <1>3. CreateIs(pc[p], loc[p], wrote[p])
    BY DEF CreateInv
  <1>4. CreateIs(pc'[p], loc'[p], wrote'[p])
    BY <1>1, <1>2, <1>3 DEF CreateIs, Early, Late
  <1> QED
    BY <1>1, <1>4, CreateMoves

(* A step of anything else. *)
LEMMA OtherDoes ==
    ASSUME CreateInv, NEW p \in Proc, Stay(p), loc'[p].call \notin Create
    PROVE  CreateInv'
  <1>1. CreateIs(pc'[p], loc'[p], wrote'[p])
    BY DEF CreateIs
  <1> QED
    BY <1>1, CreateMoves

(* Leave *)
LEMMA LeaveDoes ==
    ASSUME FsInv, CreateInv, NEW p \in Proc, NEW t, Leave(p, t), Unlogged(t)
    PROVE  CreateInv'
  <1>1. CASE loc[p].call = "exec"
    <2>1. Do(p, t, "user") /\ Locals(p, NoLocal)
      BY <1>1, LocalsAre DEF Leave
    <2>2. NoLocal.call \in Create
          => loc[p].call \in Create /\ ("user" \in Late \/ ("user" \in Early /\ pc[p] \in Early))
      BY DEF NoLocal, Create
    <2> QED
      BY <2>1, <2>2, QuietDoes
  <1>2. CASE loc[p].call # "exec"
    <2> DEFINE r == [NoLocal EXCEPT !.call = loc[p].call]
    <2>1. Do(p, t, "end") /\ Locals(p, r)
      BY <1>2, LocalsAre DEF Leave
    <2>2. r.call \in Create => loc[p].call \in Create /\ ("end" \in Late \/ ("end" \in Early /\ pc[p] \in Early))
      BY DEF NoLocal, Late
    <2> HIDE DEF r
    <2> QED
      BY <2>1, <2>2, QuietDoes
  <1> QED
    BY <1>1, <1>2

-----------------------------------------------------------------------------
(* Where a process is not in a call that makes an inode. *)
LEMMA NoCreate ==
    ASSUME CreateInv, NEW p \in Proc,
           pc[p] \notin {"walk", "create", "exist", "ialloc", "fill", "alloc", "end", "panic"}
    PROVE  loc[p].call \notin Create
  BY DEF CreateInv, CreateIs

(* The first step of a call. *)
LEMMA CallLogs == ASSUME FsInv, CreateInv, ~Panicked, NEW p \in Proc, Call(p) PROVE CreateInv'
  <1>1. PICK i, r : pc[p] = "user" /\ Do(p, Iget(fs, i), "walk") /\ Local(p, r)
    BY DEF Call
  <1>2. Locals(p, r) /\ Unlogged(Iget(fs, i))
    BY <1>1, LocalsAre, UnloggedNow, UnloggedKept
  <1>3. p \notin ops /\ wrote[p] = {}
    BY <1>1, Known DEF OpsOK, InOp
  <1>4. /\ Stay(p) /\ loc'[p] = r /\ wrote'[p] = {} /\ pc'[p] \in {"walk", "panic"}
    BY <1>1, <1>2, <1>3, DoLogs DEF Unlogged
  <1>5. Six({})
    BY BlockNames DEF Six
  <1>6. CreateIs(pc'[p], loc'[p], wrote'[p])
    BY <1>4, <1>5 DEF CreateIs
  <1> QED
    BY <1>4, <1>6, CreateMoves

(* The next elements, and what namei finds. *)
LEMMA NameiLogs == ASSUME FsInv, CreateInv, ~Panicked, NEW p \in Proc, Namei(p) PROVE CreateInv'
  <1>0. Unlogged(fs) /\ (UNCHANGED loc => Locals(p, loc[p])) /\ \A r : Local(p, r) => Locals(p, r)
    BY UnloggedNow, LocalsAre
  <1>1. CASE Call(p)
    BY <1>1, CallLogs
  <1>2. CASE NoParent(p)
    <2>1. Leave(p, Iput(fs, loc[p].ip))
      BY <1>2 DEF NoParent
    <2> QED
      BY <1>0, <2>1, LeaveDoes, UnloggedKept
  <1>3. CASE Walk(p)
    <2> DEFINE l    == loc[p]
               t    == Ilock(fs, l.ip)
               next == Dirlookup(t, t.copy[l.ip], Head(l.elems))
               r    == [l EXCEPT !.ip = next, !.elems = Tail(@)]
    <2>1. /\ pc[p] = "walk"
          /\ \/ Do(p, t, "create") /\ UNCHANGED loc
             \/ Leave(p, Iput(t, l.ip))
             \/ Do(p, Iput(Iget(t, next), l.ip), "walk") /\ Local(p, r)
      BY <1>3 DEF Walk
    <2>2. r.call = l.call /\ "walk" \in Early /\ "create" \in Early /\ loc[p] = l
      BY <1>0 DEF Early
    <2> HIDE DEF next, l, r
    <2>3. Unlogged(t) /\ Unlogged(Iput(t, l.ip)) /\ Unlogged(Iput(Iget(t, next), l.ip))
      BY <1>0, UnloggedKept
    <2> HIDE DEF t
    <2>4. CASE Do(p, t, "create") /\ UNCHANGED loc
      BY <1>0, <2>1, <2>2, <2>3, <2>4, QuietDoes
    <2>5. CASE Leave(p, Iput(t, l.ip))
      BY <2>3, <2>5, LeaveDoes
    <2>6. CASE Do(p, Iput(Iget(t, next), l.ip), "walk") /\ Local(p, r)
      BY <1>0, <2>1, <2>2, <2>3, <2>6, QuietDoes
    <2> QED
      BY <2>1, <2>4, <2>5, <2>6
  <1>4. CASE OpenFound(p)
    <2> DEFINE i == loc[p].ip
               t == Ilock(fs, i)
    <2>1. \/ Leave(p, Iput(t, i))
          \/ Do(p, t, "alloc") /\ UNCHANGED loc
      BY <1>4 DEF OpenFound
    <2> HIDE DEF i
    <2>2. Unlogged(t) /\ Unlogged(Iput(t, i)) /\ "alloc" \in Late
      BY <1>0, UnloggedKept DEF Late
    <2> HIDE DEF t
    <2> QED
      BY <1>0, <2>1, <2>2, LeaveDoes, QuietDoes
  <1>5. CASE ChdirFound(p)
    <2> DEFINE i == loc[p].ip
               t == Ilock(fs, i)
               r == [loc[p] EXCEPT !.ok = TRUE]
    <2>1. \/ Leave(p, Iput(t, i))
          \/ Do(p, Iput(t, cwd[p]), "end") /\ Local(p, r)
      BY <1>5 DEF ChdirFound
    <2>2. r.call = loc[p].call
      OBVIOUS
    <2> HIDE DEF i, r
    <2>3. Unlogged(t) /\ Unlogged(Iput(t, i)) /\ Unlogged(Iput(t, cwd[p])) /\ "end" \in Late
      BY <1>0, UnloggedKept DEF Late
    <2> HIDE DEF t
    <2> QED
      BY <1>0, <2>1, <2>2, <2>3, LeaveDoes, QuietDoes
  <1>6. CASE StatFound(p)
    <2>1. Leave(p, Iput(Ilock(fs, loc[p].ip), loc[p].ip))
      BY <1>6 DEF StatFound
    <2>2. Unlogged(Iput(Ilock(fs, loc[p].ip), loc[p].ip))
      BY <1>0, UnloggedKept
    <2> QED
      BY <2>1, <2>2, LeaveDoes
  <1> QED
    BY <1>1, <1>2, <1>3, <1>4, <1>5, <1>6 DEF Namei

-----------------------------------------------------------------------------
(* What create has logged when the new inode is in its directory. *)
LEMMA FillLogs ==
    ASSUME FsInv, CreateInv, ~Panicked, DPB >= 2, NEW p \in Proc, pc[p] = "fill",
           NEW t, t = Iput(Filled(p), loc[p].dp), t.ok
    PROVE  Six(wrote[p] \cup t.wrote)
  <1> DEFINE u  == Filled(p)
             i  == loc[p].ip
             dp == loc[p].dp
  <1>0. Filling(p)
    BY FillingNow
  <1>1. i \in Inum /\ dp \in Inum
    BY <1>0 DEF Filling
  <1>2. u \in MemType /\ (u.ok => \E b, c, d \in BlockName :
                   u.wrote \subseteq {InodeBlock(i), InodeBlock(dp), Bitmap, b, c, d})
    BY <1>0, FilledEffect
  <1>3. loc[p].call \in Create
    BY Known DEF CallIs
  <1>4. wrote[p] \subseteq {InodeBlock(i)}
    BY <1>3 DEF CreateInv, CreateIs
  <1> HIDE DEF u
  <1>5. t = Iput(u, dp)
    BY DEF u
  <1>6. u.ok
    <2>1. Iput(u, dp).ok
      BY <1>5
    <2> QED
      BY <1>2, <2>1, PutOk
  <1>7. t.wrote = u.wrote
    BY <1>2, <1>5, <1>6 DEF Iput, MemType
  <1>8. PICK b, c, d \in BlockName : u.wrote \subseteq {InodeBlock(i), InodeBlock(dp), Bitmap, b, c, d}
    BY <1>2, <1>6
  <1>9. wrote[p] \cup t.wrote \subseteq {InodeBlock(i), InodeBlock(dp), Bitmap, b, c, d}
    BY <1>4, <1>7, <1>8
  <1> QED
    BY <1>1, <1>9, BlockNames DEF Six

(* The directory is found to have the name, or not. *)
LEMMA LookLogs ==
    ASSUME FsInv, CreateInv, ~Panicked, NEW p \in Proc, CreateLook(p) \/ CreateExist(p)
    PROVE  CreateInv'
  <1>0. Unlogged(fs) /\ (UNCHANGED loc => Locals(p, loc[p])) /\ \A r : Local(p, r) => Locals(p, r)
    BY UnloggedNow, LocalsAre
  <1>1. CASE CreateLook(p)
    <2> DEFINE dp == loc[p].ip
               t  == Ilock(fs, dp)
               ip == Dirlookup(t, t.copy[dp], Name1(p))
               r  == [loc[p] EXCEPT !.ip = ip]
               z  == [loc[p] EXCEPT !.dp = dp, !.ip = 0]
    <2>1. /\ pc[p] = "create"
          /\ \/ Do(p, Iput(Iget(t, ip), dp), "exist") /\ Local(p, r)
             \/ Do(p, t, "ialloc") /\ Local(p, z)
      BY <1>1 DEF CreateLook
    <2>2. r.call = loc[p].call /\ z.call = loc[p].call /\ {"create", "exist", "ialloc"} \subseteq Early
      BY DEF Early
    <2> HIDE DEF ip, r, z
    <2>3. Unlogged(t) /\ Unlogged(Iput(Iget(t, ip), dp))
      BY <1>0, UnloggedKept
    <2> HIDE DEF t
    <2>4. CASE Do(p, Iput(Iget(t, ip), dp), "exist") /\ Local(p, r)
      BY <1>0, <2>1, <2>2, <2>3, <2>4, QuietDoes
    <2>5. CASE Do(p, t, "ialloc") /\ Local(p, z)
      BY <1>0, <2>1, <2>2, <2>3, <2>5, QuietDoes
    <2> QED
      BY <2>1, <2>4, <2>5
  <1>2. CASE CreateExist(p)
    <2> DEFINE i == loc[p].ip
               t == Ilock(fs, i)
    <2>1. \/ Do(p, t, "alloc") /\ UNCHANGED loc
          \/ Leave(p, Iput(t, i))
      BY <1>2 DEF CreateExist
    <2> HIDE DEF i
    <2>2. Unlogged(t) /\ Unlogged(Iput(t, i)) /\ "alloc" \in Late
      BY <1>0, UnloggedKept DEF Late
    <2> HIDE DEF t
    <2> QED
      BY <1>0, <2>1, <2>2, LeaveDoes, QuietDoes
  <1> QED
    BY <1>1, <1>2

(* The new inode is the first block that create logs. *)
LEMMA IallocLogs == ASSUME FsInv, CreateInv, ~Panicked, NEW p \in Proc, CreateIalloc(p) PROVE CreateInv'
  <1> DEFINE type == Made[loc[p].call]
             i    == IF FreeInum(fs) = {} THEN 0 ELSE Min(FreeInum(fs))
             t    == Ialloc(fs, type)
             r    == [loc[p] EXCEPT !.ip = i]
  <1>0. /\ CallIs(fs, pc[p], cwd[p], loc[p]) /\ loc[p] \in LocalType
        /\ Healthy(fs) /\ fs.wrote = {} /\ \A j \in Inum : fs.ref[j] \in Nat
    BY Known
  <1>1. pc[p] = "ialloc" /\ Do(p, t, "fill") /\ Local(p, r)
    BY DEF CreateIalloc
  <1>2. loc[p].call \in Create
    BY <1>0, <1>1 DEF CallIs
  <1>3. type \in Type
    BY <1>2 DEF Create, Made, Type
  <1>4. r.call = loc[p].call /\ r.ip = i
    BY <1>0 DEF LocalType
  <1>5. ASSUME t.ok PROVE t.wrote = {InodeBlock(i)} /\ i \in Inum
    <2>1. /\ FreeInum(fs) # {} /\ Min(FreeInum(fs)) \in FreeInum(fs)
          /\ t.wrote = fs.wrote \cup {InodeBlock(Min(FreeInum(fs)))}
      <3> HIDE DEF type
      <3> QED
        BY <1>0, <1>3, <1>5, IallocEffect
    <2> QED
      BY <1>0, <2>1 DEF FreeInum
  <1>6. Locals(p, r)
    BY <1>1, LocalsAre
  <1>7. CreateIs(pc[p], loc[p], wrote[p])
    BY DEF CreateInv
  <1>8. wrote[p] = {} /\ Six(wrote[p])
    BY <1>1, <1>2, <1>7 DEF CreateIs
  <1> HIDE DEF i, r, t, type
  <1>9. /\ Stay(p) /\ loc'[p] = r
        /\ \/ t.ok /\ pc'[p] = "fill" /\ wrote'[p] = wrote[p] \cup t.wrote
           \/ ~t.ok /\ pc'[p] = "panic" /\ wrote'[p] = wrote[p]
    BY <1>1, <1>6, DoLogs
  <1>10. CASE t.ok
    <2>1. wrote'[p] = {InodeBlock(i)} /\ pc'[p] = "fill"
      BY <1>5, <1>8, <1>9, <1>10
    <2>2. Six({InodeBlock(i)})
      BY <1>5, <1>10, BlockNames DEF Six
    <2>3. CreateIs(pc'[p], loc'[p], wrote'[p])
      BY <1>4, <1>9, <2>1, <2>2 DEF CreateIs
    <2> QED
      BY <1>9, <2>3, CreateMoves
  <1>11. CASE ~t.ok
    <2>1. CreateIs(pc'[p], loc'[p], wrote'[p])
      BY <1>8, <1>9, <1>11 DEF CreateIs
    <2> QED
      BY <1>9, <2>1, CreateMoves
  <1> QED
    BY <1>10, <1>11

(* The rest of create: six blocks with that one. *)
LEMMA FilledLogs ==
    ASSUME FsInv, CreateInv, ~Panicked, DPB >= 2, NEW p \in Proc, CreateFill(p)
    PROVE  CreateInv'
  <1> DEFINE i == loc[p].ip
             t == Iput(Filled(p), loc[p].dp)
             z == [NoLocal EXCEPT !.call = loc[p].call]
  <1>0. CallIs(fs, pc[p], cwd[p], loc[p])
    BY Known
  <1>1. pc[p] = "fill"
    BY DEF CreateFill
  <1>2. loc[p].call \in Create
    BY <1>0, <1>1 DEF CallIs
  <1>3. PICK u, l, r : /\ Do(p, u, l) /\ Locals(p, r) /\ r.call \in Create /\ l \in Late
                       /\ u \in {t, Iput(t, i)}
    <2>1. CASE loc[p].call = "creat"
      <3>1. Do(p, t, "alloc") /\ Locals(p, loc[p])
        BY <2>1, LocalsAre DEF CreateFill
      <3> HIDE DEF t
      <3> QED
        BY <1>2, <3>1 DEF Late
    <2>2. CASE loc[p].call # "creat"
      <3>1. Leave(p, Iput(t, i))
        BY <2>2 DEF CreateFill
      <3>2. loc[p].call # "exec"
        BY <1>2 DEF Create
      <3> HIDE DEF t
      <3>3. Do(p, Iput(t, i), "end") /\ Locals(p, z)
        BY <3>1, <3>2, LocalsAre DEF Leave
      <3>4. z.call = loc[p].call
        BY DEF NoLocal
      <3> HIDE DEF z
      <3> QED
        BY <1>2, <3>3, <3>4 DEF Late
    <2> QED
      BY <2>1, <2>2
  <1>4. CreateIs(pc[p], loc[p], wrote[p])
    BY DEF CreateInv
  <1>5. Six(wrote[p])
    BY <1>2, <1>4 DEF CreateIs
  <1> HIDE DEF t
  <1>6. Filled(p) \in MemType /\ loc[p].dp \in Inum /\ i \in Inum
    <2>1. Filling(p)
      BY <1>1, FillingNow
    <2> QED
      BY <2>1, FilledEffect DEF Filling
  <1>7. /\ Stay(p) /\ loc'[p] = r
        /\ \/ u.ok /\ pc'[p] = l /\ wrote'[p] = wrote[p] \cup u.wrote
           \/ ~u.ok /\ pc'[p] = "panic" /\ wrote'[p] = wrote[p]
    BY <1>3, DoLogs
  <1>8. ASSUME u.ok PROVE Six(wrote[p] \cup u.wrote)
    <2>1. DOMAIN Filled(p) = {"inode", "used", "dir", "ref", "valid", "copy", "wrote", "ok"}
      BY <1>6 DEF MemType
    <2>2. DOMAIN t = {"inode", "used", "dir", "ref", "valid", "copy", "wrote", "ok"}
      BY <2>1 DEF t, Iput
    <2>3. Iput(t, i).ok = t.ok /\ Iput(t, i).wrote = t.wrote
      BY <2>2 DEF Iput
    <2>4. t.ok /\ u.wrote = t.wrote
      BY <1>3, <1>8, <2>3
    <2> QED
      BY <1>1, <2>4, FillLogs DEF t
  <1>9. CreateIs(pc'[p], loc'[p], wrote'[p])
    BY <1>3, <1>5, <1>7, <1>8 DEF CreateIs, Late
  <1> QED
    BY <1>7, <1>9, CreateMoves

-----------------------------------------------------------------------------
(* begin_op and end_op of p, and what they log. *)
LEMMA EndLogs ==
    ASSUME FsInv, NEW p \in Proc, EndOp(p)
    PROVE  wrote'[p] = {} /\ \A q \in Proc \ {p} : wrote'[q] = wrote[q]
  <1>1. DOMAIN wrote = Proc
    BY DEF FsInv, LogInv
  <1> QED
    BY <1>1 DEF EndOp

(* Where a goto leads. *)
LEMMA GotoIs ==
    ASSUME FsInv, NEW p \in Proc, NEW l, Goto(p, l)
    PROVE  pc'[p] = l /\ \A q \in Proc \ {p} : pc'[q] = pc[q]
  BY DEF FsInv, TypeInv, Goto

(* Calls that do not make an inode stay what they are. *)
LEMMA OtherLogs ==
    ASSUME FsInv, CreateInv, NEW p \in Proc, NEW l, Goto(p, l), NEW r, Locals(p, r),
           \A q \in Proc \ {p} : wrote'[q] = wrote[q], r.call \notin Create
    PROVE  CreateInv'
  <1>1. Stay(p) /\ loc'[p].call \notin Create
    BY GotoIs DEF Stay, Locals
  <1> QED
    BY <1>1, OtherDoes

(* A file that is closed. *)
LEMMA DropLogs ==
    ASSUME FsInv, CreateInv, NEW p \in Proc, pc[p] \in {"user", "exit"}, NEW f, NEW c, DropFile(p, f, c)
    PROVE  CreateInv'
  <1> DEFINE r == [loc[p] EXCEPT !.f = f]
  <1>1. UNCHANGED wrote /\ loc[p].call \notin Create
    BY NoCreate DEF DropFile
  <1>2. CASE UNCHANGED <<pc, loc>>
    BY <1>1, <1>2 DEF CreateInv
  <1>3. CASE Goto(p, "cbegin") /\ Local(p, r)
    <2>1. r.call = loc[p].call
      OBVIOUS
    <2>2. Locals(p, r)
      BY <1>3, LocalsAre
    <2> HIDE DEF r
    <2> QED
      BY <1>1, <1>3, <2>1, <2>2, OtherLogs
  <1> QED
    BY <1>2, <1>3 DEF DropFile

(* open, close, dup, fork and exit. *)
LEMMA FilesLogs == ASSUME FsInv, CreateInv, ~Panicked, NEW p \in Proc, Files(p) PROVE CreateInv'
  <1>0. Unlogged(fs) /\ (UNCHANGED loc => Locals(p, loc[p])) /\ \A r : Local(p, r) => Locals(p, r)
    BY UnloggedNow, LocalsAre
  <1>1. CASE OpenAlloc(p)
    <2>1. CASE Leave(p, Iput(fs, loc[p].ip))
      BY <1>0, <2>1, LeaveDoes, UnloggedKept
    <2>2. CASE Goto(p, "panic") /\ UNCHANGED <<wrote, loc>>
      <3>1. /\ pc'[p] = "panic" /\ Stay(p) /\ UNCHANGED <<wrote, loc>>
        BY <2>2, GotoIs DEF Stay
      <3>2. CreateIs(pc[p], loc[p], wrote[p])
        BY DEF CreateInv
      <3>3. CreateIs(pc'[p], loc'[p], wrote'[p])
        BY <3>1, <3>2 DEF CreateIs
      <3> QED
        BY <3>1, <3>3, CreateMoves
    <2>3. CASE Do(p, fs, "end") /\ \E f : Local(p, [loc[p] EXCEPT !.f = f, !.ok = TRUE])
      <3>1. PICK f : Local(p, [loc[p] EXCEPT !.f = f, !.ok = TRUE])
        BY <2>3
      <3> DEFINE r == [loc[p] EXCEPT !.f = f, !.ok = TRUE]
      <3>2. r.call = loc[p].call /\ "end" \in Late
        BY DEF Late
      <3>3. Locals(p, r)
        BY <1>0, <3>1
      <3> HIDE DEF r
      <3> QED
        BY <1>0, <2>3, <3>2, <3>3, QuietDoes
    <2> QED
      BY <1>1, <2>1, <2>2, <2>3 DEF OpenAlloc
  <1>2. CASE End(p)
    <2>1. EndOp(p) /\ Goto(p, "user") /\ Locals(p, NoLocal) /\ NoLocal.call \notin Create
      BY <1>0, <1>2 DEF End, NoLocal, Create
    <2> QED
      BY <2>1, EndLogs, OtherLogs
  <1>3. CASE Dup(p)
    <2>1. UNCHANGED <<pc, loc, wrote>>
      BY <1>3 DEF Dup
    <2> QED
      BY <2>1 DEF CreateInv
  <1>4. CASE Fork(p)
    <2>1. PICK q \in Proc : pc[q] = "unused" /\ Goto(q, "user") /\ UNCHANGED <<wrote, loc>>
      BY <1>4 DEF Fork
    <2>2. loc[q].call \notin Create
      BY <2>1, NoCreate
    <2>3. Stay(q) /\ loc'[q].call \notin Create
      BY <2>1, <2>2, GotoIs DEF Stay
    <2> QED
      BY <2>3, OtherDoes
  <1>5. CASE Close(p)
    <2>1. PICK f, c : pc[p] = "user" /\ DropFile(p, f, c)
      BY <1>5 DEF Close
    <2> QED
      BY <2>1, DropLogs
  <1>6. CASE CloseBegin(p)
    <2>1. pc[p] = "cbegin" /\ Goto(p, "cput") /\ UNCHANGED <<wrote, loc>>
      BY <1>6 DEF CloseBegin
    <2> QED
      BY <1>0, <2>1, NoCreate, OtherLogs
  <1>7. CASE ClosePut(p)
    <2>1. PICK i : pc[p] = "cput" /\ Do(p, Iput(fs, i), "cend") /\ UNCHANGED loc
      BY <1>7 DEF ClosePut
    <2>2. Unlogged(Iput(fs, i)) /\ loc[p].call \notin Create
      BY <1>0, <2>1, UnloggedKept, NoCreate
    <2> QED
      BY <1>0, <2>1, <2>2, QuietDoes
  <1>8. CASE CloseEnd(p)
    <2> DEFINE r == [NoLocal EXCEPT !.call = IF loc[p].call = "exit" THEN "exit" ELSE "none"]
    <2>1. EndOp(p) /\ Locals(p, r) /\ \E l : Goto(p, l)
      BY <1>0, <1>8 DEF CloseEnd
    <2>2. r.call \notin Create
      BY DEF NoLocal, Create
    <2> HIDE DEF r
    <2> QED
      BY <2>1, <2>2, EndLogs, OtherLogs
  <1>9. CASE Exit(p)
    <2> DEFINE r == [NoLocal EXCEPT !.call = "exit"]
    <2>1. Goto(p, "exit") /\ Locals(p, r) /\ UNCHANGED wrote
      BY <1>0, <1>9 DEF Exit
    <2>2. r.call \notin Create
      BY DEF NoLocal, Create
    <2> HIDE DEF r
    <2> QED
      BY <2>1, <2>2, OtherLogs
  <1>10. CASE ExitClose(p)
    <2>1. PICK f, c : pc[p] = "exit" /\ DropFile(p, f, c)
      BY <1>10 DEF ExitClose
    <2> QED
      BY <2>1, DropLogs
  <1>11. CASE ExitCwd(p)
    <2>1. Do(p, Iput(fs, cwd[p]), "unused") /\ Locals(p, NoLocal) /\ NoLocal.call \notin Create
      BY <1>0, <1>11 DEF ExitCwd, NoLocal, Create
    <2>2. Unlogged(Iput(fs, cwd[p]))
      BY <1>0, UnloggedKept
    <2> QED
      BY <2>1, <2>2, QuietDoes
  <1> QED
    BY <1>1, <1>2, <1>3, <1>4, <1>5, <1>6, <1>7, <1>8, <1>9, <1>10, <1>11 DEF Files

(* read and write. *)
LEMMA IoLogs == ASSUME FsInv, CreateInv, ~Panicked, NEW p \in Proc, Io(p) PROVE CreateInv'
  <1>0. Unlogged(fs) /\ (UNCHANGED loc => Locals(p, loc[p])) /\ \A r : Local(p, r) => Locals(p, r)
    BY UnloggedNow, LocalsAre
  <1>1. CASE Read(p)
    <2>1. PICK i : pc[p] = "user" /\ Do(p, Ilock(fs, i), "user") /\ UNCHANGED loc
      BY <1>1 DEF Read
    <2>2. Unlogged(Ilock(fs, i)) /\ loc[p].call \notin Create
      BY <1>0, <2>1, UnloggedKept, NoCreate
    <2> QED
      BY <1>0, <2>1, <2>2, QuietDoes
  <1>2. CASE Write(p)
    <2>1. PICK f, n : Goto(p, "wbegin") /\ Local(p, [NoLocal EXCEPT !.f = f, !.n = n]) /\ UNCHANGED wrote
      BY <1>2 DEF Write
    <2> DEFINE r == [NoLocal EXCEPT !.f = f, !.n = n]
    <2>2. r.call \notin Create /\ Locals(p, r)
      BY <1>0, <2>1 DEF NoLocal, Create
    <2> HIDE DEF r
    <2> QED
      BY <2>1, <2>2, OtherLogs
  <1>3. CASE WriteBegin(p)
    <2>1. pc[p] = "wbegin" /\ Goto(p, "wlock") /\ UNCHANGED <<wrote, loc>>
      BY <1>3 DEF WriteBegin
    <2> QED
      BY <1>0, <2>1, NoCreate, OtherLogs
  <1>4. CASE WriteLocked(p)
    <2>1. PICK n1 : /\ pc[p] = "wlock" /\ \E t, l : Do(p, t, l)
                    /\ Local(p, [loc[p] EXCEPT !.at = file[loc[p].f].off, !.n1 = n1])
      BY <1>4 DEF WriteLocked
    <2> DEFINE r == [loc[p] EXCEPT !.at = file[loc[p].f].off, !.n1 = n1]
    <2>2. r.call = loc[p].call /\ loc[p].call \notin Create
      <3>1. loc[p] \in LocalType
        BY Known
      <3> QED
        BY <2>1, <3>1, NoCreate DEF LocalType
    <2>3. Local(p, r)
      BY <2>1
    <2> HIDE DEF r
    <2>4. Locals(p, r)
      BY <1>0, <2>3
    <2>5. Stay(p) /\ loc'[p] = r
      BY <2>1, <2>4, DoLogs
    <2> QED
      BY <2>2, <2>5, OtherDoes
  <1>5. CASE WriteAdvance(p)
    <2>1. pc[p] = "wadv" /\ Goto(p, "wend") /\ UNCHANGED <<wrote, loc>>
      BY <1>5 DEF WriteAdvance
    <2> QED
      BY <1>0, <2>1, NoCreate, OtherLogs
  <1>6. CASE WriteEnd(p)
    <2> DEFINE left == loc[p].n - Piece(p)
               r    == IF left = 0 THEN NoLocal ELSE [loc[p] EXCEPT !.n = left]
    <2>1. pc[p] = "wend" /\ EndOp(p) /\ Local(p, r) /\ \E l : Goto(p, l)
      BY <1>6 DEF WriteEnd
    <2> HIDE DEF left
    <2>2. r.call \notin Create
      BY <2>1, NoCreate DEF NoLocal, Create
    <2> HIDE DEF r
    <2> QED
      BY <1>0, <2>1, <2>2, EndLogs, OtherLogs
  <1> QED
    BY <1>1, <1>2, <1>3, <1>4, <1>5, <1>6 DEF Io

(* The state of a start. *)
LEMMA ColdLogs == wrote = Cold.wrote /\ loc = Cold.loc => CreateInv
  BY DEF Cold, CreateInv, CreateIs, NoLocal, Create

(* ... and after a crash. *)
LEMMA CrashLogs == Crash => CreateInv'
  BY DEF Crash, Cold, CreateInv, CreateIs, NoLocal, Create

(* A step keeps what create logs. *)
LEMMA CreateKeeps == ASSUME FsInv, CreateInv, DPB >= 2, [Next]_vars PROVE CreateInv'
  <1>1. CASE Crash
    BY <1>1, CrashLogs
  <1>2. CASE ~Panicked /\ \E p \in Proc : Namei(p) \/ Creat(p) \/ Files(p) \/ Io(p)
    BY <1>2, NameiLogs, LookLogs, IallocLogs, FilledLogs, FilesLogs, IoLogs DEF Creat
  <1>3. CASE UNCHANGED vars
    BY <1>3 DEF vars, CreateInv
  <1> QED
    BY <1>1, <1>2, <1>3 DEF Next

(* Six blocks are six at most. *)
LEMMA SixBlocks == ASSUME NEW w, Six(w) PROVE Cardinality(w) \in Nat /\ Cardinality(w) <= 6
  <1>1. PICK a, b, c, d, e, f \in BlockName : w \subseteq {a, b, c, d, e, f}
    BY DEF Six
  <1>2. ASSUME NEW S, NEW x, NEW n \in Nat, IsFiniteSet(S) /\ Cardinality(S) <= n
        PROVE  IsFiniteSet(S \cup {x}) /\ Cardinality(S \cup {x}) <= n + 1
    <2>1. Cardinality(S) \in Nat
      BY <1>2, FS_CardinalityType
    <2>2. /\ IsFiniteSet(S \cup {x})
          /\ Cardinality(S \cup {x}) = IF x \in S THEN Cardinality(S) ELSE Cardinality(S) + 1
      BY <1>2, FS_AddElement
    <2> QED
      BY <1>2, <2>1, <2>2
  <1>3. IsFiniteSet({a}) /\ Cardinality({a}) <= 1
    <2>1. IsFiniteSet({a}) /\ Cardinality({a}) = 1
      BY FS_Singleton
    <2> QED
      BY <2>1
  <1>4. IsFiniteSet({a, b}) /\ Cardinality({a, b}) <= 2
    <2>1. IsFiniteSet({a} \cup {b}) /\ Cardinality({a} \cup {b}) <= 1 + 1
      BY <1>2, <1>3
    <2>2. {a} \cup {b} = {a, b} /\ 1 + 1 = 2
      OBVIOUS
    <2> QED
      BY <2>1, <2>2
  <1>5. IsFiniteSet({a, b, c}) /\ Cardinality({a, b, c}) <= 3
    <2>1. IsFiniteSet({a, b} \cup {c}) /\ Cardinality({a, b} \cup {c}) <= 2 + 1
      BY <1>2, <1>4
    <2>2. {a, b} \cup {c} = {a, b, c} /\ 2 + 1 = 3
      OBVIOUS
    <2> QED
      BY <2>1, <2>2
  <1>6. IsFiniteSet({a, b, c, d}) /\ Cardinality({a, b, c, d}) <= 4
    <2>1. IsFiniteSet({a, b, c} \cup {d}) /\ Cardinality({a, b, c} \cup {d}) <= 3 + 1
      BY <1>2, <1>5
    <2>2. {a, b, c} \cup {d} = {a, b, c, d} /\ 3 + 1 = 4
      OBVIOUS
    <2> QED
      BY <2>1, <2>2
  <1>7. IsFiniteSet({a, b, c, d, e}) /\ Cardinality({a, b, c, d, e}) <= 5
    <2>1. IsFiniteSet({a, b, c, d} \cup {e}) /\ Cardinality({a, b, c, d} \cup {e}) <= 4 + 1
      BY <1>2, <1>6
    <2>2. {a, b, c, d} \cup {e} = {a, b, c, d, e} /\ 4 + 1 = 5
      OBVIOUS
    <2> QED
      BY <2>1, <2>2
  <1>8. IsFiniteSet({a, b, c, d, e, f}) /\ Cardinality({a, b, c, d, e, f}) <= 6
    <2>1. IsFiniteSet({a, b, c, d, e} \cup {f}) /\ Cardinality({a, b, c, d, e} \cup {f}) <= 5 + 1
      BY <1>2, <1>7
    <2>2. {a, b, c, d, e} \cup {f} = {a, b, c, d, e, f} /\ 5 + 1 = 6
      OBVIOUS
    <2> QED
      BY <2>1, <2>2
  <1>9. Cardinality(w) <= Cardinality({a, b, c, d, e, f}) /\ IsFiniteSet(w)
    BY <1>1, <1>8, FS_Subset
  <1>10. Cardinality(w) \in Nat /\ Cardinality({a, b, c, d, e, f}) \in Nat
    BY <1>8, <1>9, FS_CardinalityType
  <1> QED
    BY <1>8, <1>9, <1>10

(* With two entries to a block of a directory, as there are for the dots, a *)
(* call that makes an inode logs six blocks at most: begin_op's ten do.    *)
THEOREM CreateLogsSix ==
    ASSUME DPB >= 2, MAXOPBLOCKS >= 6
    PROVE  Spec => []CreateFits
  <1>1. Init => CreateInv
    BY ColdLogs DEF Init
  <1>2. FsInv /\ CreateInv /\ [Next]_vars => CreateInv'
    BY CreateKeeps
  <1>3. CreateInv => CreateFits
    <2> SUFFICES ASSUME CreateInv, NEW p \in Proc, loc[p].call \in Create
                 PROVE  Cardinality(wrote[p]) <= MAXOPBLOCKS
      BY DEF CreateFits
    <2>1. Six(wrote[p])
      BY DEF CreateInv, CreateIs
    <2> QED
      BY <2>1, SixBlocks, FsAssumption
  <1> QED
    BY <1>1, <1>2, <1>3, FsInvariant, PTL DEF Spec
=============================================================================
