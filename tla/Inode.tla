------------------------------- MODULE Inode -------------------------------
(***************************************************************************)
(* kern/fs.c: blocks, inodes, directories, and the inode cache, as         *)
(* functions of a state s:                                                 *)
(*                                                                         *)
(*   s.inode   the inodes on disk, through the buffer cache                *)
(*   s.used    the blocks that the bitmap marks                            *)
(*   s.dir     the directory entries in each data block, and in the sector *)
(*             before the file system, which the address -1 leads to       *)
(*   s.ref, s.valid, s.copy   the inode cache: ip->ref, ip->valid, the rest*)
(*   s.wrote   the blocks given to log_write                               *)
(*   s.ok      FALSE once the code has reached a panic, or the model the   *)
(*             end of what it knows (BmapInd)                              *)
(*                                                                         *)
(* The unit of sizes and offsets is one directory entry.  The numbers in   *)
(* an indirect block are kept with the inode.  Files hold zeroes.          *)
(***************************************************************************)
EXTENDS Integers, SequencesExt

CONSTANTS
    NBLOCKS,    \* data blocks
    NINODES,    \* inode numbers on disk: 1 .. NINODES - 1 are used
    NINODE,     \* entries of the inode cache
    DPB,        \* directory entries in a block
    IPB,        \* inodes in a block
    NDIRECT,    \* direct blocks of an inode
    NINDIRECT,  \* blocks that the indirect block lists
    Name        \* names of files, without "." and ".."

ASSUME InodeAssumption ==
    /\ {NBLOCKS, NINODES, NINODE, DPB, IPB, NDIRECT, NINDIRECT} \subseteq Nat \ {0}
    /\ NINODES > 1 /\ {".", ".."} \cap Name = {}

ROOTINO == 1
Inum    == 1 .. NINODES - 1
Block   == 1 .. NBLOCKS
MAXFILE == NDIRECT + NINDIRECT

(* balloc's -1 for a full disk, an address like any other: bget adds the   *)
(* first block of the file system to it, and the sector in front is there. *)
Off  == -1
Addr == Block \cup {Off}

Type   == {"free", "dir", "file", "dev"}
NoEnt  == [name |-> ".", inum |-> 0]
Dirent == {NoEnt} \cup [name : Name \cup {".", ".."}, inum : Inum]
Zeroes == [o \in 0 .. DPB - 1 |-> NoEnt]

(* addrs holds the direct blocks and the numbers in the indirect block ind. *)
NewInode(type, nlink) ==
    [type |-> type, nlink |-> nlink, size |-> 0,
     addrs |-> [bn \in 0 .. MAXFILE - 1 |-> 0], ind |-> 0]

InodeType ==
    [type : Type, nlink : Nat, size : 0 .. MAXFILE * DPB,
     addrs : [0 .. MAXFILE - 1 -> Addr \cup {0}], ind : Addr \cup {0}]

DiskType ==
    [inode : [Inum -> InodeType], used : SUBSET Block,
     dir : [Addr -> [0 .. DPB - 1 -> Dirent]]]

InodeBlock(i) == <<"inode", i \div IPB>>
Bitmap        == <<"bitmap", 0>>
Data(b)       == <<"data", b>>

(* What the disk part of s is, and s after a start on the disk d. *)
Image(s) == [inode |-> s.inode, used |-> s.used, dir |-> s.dir]
Mount(d) ==
    [inode |-> d.inode, used |-> d.used, dir |-> d.dir,
     ref |-> [i \in Inum |-> 0], valid |-> [i \in Inum |-> FALSE],
     copy |-> [i \in Inum |-> NewInode("free", 0)], wrote |-> {}, ok |-> TRUE]

-----------------------------------------------------------------------------
(* The inode cache. *)

(* A cached inode is found; any other needs an entry that no one refers to. *)
Iget(s, i) ==
    IF s.ref[i] > 0 THEN [s EXCEPT !.ref[i] = @ + 1]
    ELSE IF Cardinality({j \in Inum : s.ref[j] > 0}) = NINODE THEN [s EXCEPT !.ok = FALSE]
    ELSE [s EXCEPT !.ref[i] = 1, !.valid[i] = FALSE]

Idup(s, i) == [s EXCEPT !.ref[i] = @ + 1]

Ilock(s, i) ==
    IF s.valid[i] THEN s
    ELSE [s EXCEPT !.copy[i] = s.inode[i], !.valid[i] = TRUE,
                   !.ok = @ /\ s.inode[i].type # "free"]

(* No one removes a link (InodesStayLinked): nothing to free. *)
Iput(s, i) == [s EXCEPT !.ref[i] = @ - 1]

Iupdate(s, i) ==
    [s EXCEPT !.inode[i] = s.copy[i], !.wrote = @ \cup {InodeBlock(i)}]

(* The first free inode gets a type; it is returned with a reference. *)
FreeInum(s) == {i \in Inum : s.inode[i].type = "free"}
Ialloc(s, type) ==
    LET i == Min(FreeInum(s)) IN
    IF FreeInum(s) = {} THEN [s EXCEPT !.ok = FALSE]
    ELSE Iget([s EXCEPT !.inode[i] = NewInode(type, 0), !.wrote = @ \cup {InodeBlock(i)}], i)

-----------------------------------------------------------------------------
(* Blocks. *)

(* The first free block is marked and zeroed; on a full disk nothing is.   *)
NextBlock(s) == IF s.used = Block THEN Off ELSE Min(Block \ s.used)
Balloc(s) ==
    LET b == NextBlock(s) IN
    IF b = Off THEN s
    ELSE [s EXCEPT !.used = @ \cup {b}, !.dir[b] = Zeroes, !.wrote = @ \cup {Bitmap, Data(b)}]

(* The model ends where the numbers of several inodes would lie in the     *)
(* sector in front.                                                        *)
SetInd(s, i) ==
    [Balloc(s) EXCEPT !.copy[i].ind = NextBlock(s), !.ok = @ /\ NextBlock(s) # Off]

(* Also for a direct block. *)
BmapIndAlways(s, i, bn) == IF s.copy[i].ind # 0 THEN s ELSE SetInd(s, i)

(* Block bn of inode i gets an address, and before it the indirect block.  *)
BmapInd(s, i, bn) == IF bn < NDIRECT \/ s.copy[i].ind # 0 THEN s ELSE SetInd(s, i)

Bmap(s, i, bn) ==
    LET t == BmapInd(s, i, bn) IN
    IF s.copy[i].addrs[bn] # 0 THEN s
    ELSE [Balloc(t) EXCEPT
             !.copy[i].addrs[bn] = NextBlock(t),
             !.wrote = @ \cup IF bn < NDIRECT THEN {} ELSE {Data(t.copy[i].ind)}]

(* writei on a file or directory: n units at off; its failures are Refused. *)
WriteRefused(s, i, off, n) == off > s.copy[i].size \/ off + n > MAXFILE * DPB

WriteBlock(s, i, bn) ==
    LET t == Bmap(s, i, bn) IN [t EXCEPT !.wrote = @ \cup {Data(t.copy[i].addrs[bn])}]

Writei(s, i, off, n) ==
    LET first == off \div DPB
        last  == (off + n - 1) \div DPB
        t     == FoldLeft(LAMBDA u, bn : WriteBlock(u, i, bn), s,
                          [k \in 1 .. last - first + 1 |-> first + k - 1])
    IN  IF t.ok /\ off + n > s.copy[i].size
        THEN Iupdate([t EXCEPT !.copy[i].size = off + n], i) ELSE t

(* What a file writes are zeroes: they count where a directory has its     *)
(* entries too, in the sector in front.                                    *)
Zeroed(s, i, off, n) ==
    [s EXCEPT !.dir[Off] = [o \in 0 .. DPB - 1 |->
        IF \E bn \in 0 .. MAXFILE - 1 : s.copy[i].addrs[bn] = Off /\ bn * DPB + o \in off .. off + n - 1
        THEN NoEnt ELSE @[o]]]

-----------------------------------------------------------------------------
(* Directories: the entry at off, the entries of a name, and dirlink.      *)
Entry(d, ino, off) == d.dir[ino.addrs[off \div DPB]][off % DPB]

Hits(d, ino, name) ==
    {off \in 0 .. ino.size - 1 : Entry(d, ino, off).inum # 0 /\ Entry(d, ino, off).name = name}

(* 0 when there is none. *)
Dirlookup(d, ino, name) ==
    IF Hits(d, ino, name) = {} THEN 0 ELSE Entry(d, ino, Min(Hits(d, ino, name))).inum

FreeEntry(d, ino) ==
    Min({off \in 0 .. ino.size - 1 : Entry(d, ino, off).inum = 0} \cup {ino.size})

(* Callers panic when the name is there already, or when writei refuses.   *)
DirlinkFails(s, i, name, off) ==
    ~s.ok \/ Dirlookup(s, s.copy[i], name) # 0 \/ WriteRefused(s, i, off, 1)

PutEntry(s, b, o, e) == [s EXCEPT !.dir[b][o] = e]

Dirlink(s, i, name, inum) ==
    LET off == FreeEntry(s, s.copy[i])
        t   == Writei(s, i, off, 1)
    IN  IF DirlinkFails(s, i, name, off) THEN [s EXCEPT !.ok = FALSE]
        ELSE IF ~t.ok THEN t
        ELSE PutEntry(t, t.copy[i].addrs[off \div DPB], off % DPB, [name |-> name, inum |-> inum])

-----------------------------------------------------------------------------
(* What a disk must be.  Every inode in use is listed in exactly one place,*)
(* with the number of links that it is given; ".." leads back to there.    *)
InUse(d) == {i \in Inum : d.inode[i].type # "free"}
Dirs(d)  == {i \in InUse(d) : d.inode[i].type = "dir"}

Links(d, i) ==
    {l \in Dirs(d) \X (0 .. MAXFILE * DPB - 1) :
        LET e == Entry(d, d.inode[l[1]], l[2]) IN
        l[2] < d.inode[l[1]].size /\ e.inum = i /\ e.name \notin {".", ".."}}

TreeSound(d) ==
    /\ \A i \in Dirs(d) : \A off \in 0 .. d.inode[i].size - 1 :
          LET e == Entry(d, d.inode[i], off) IN
          e.inum # 0 => e.inum \in InUse(d) /\ Hits(d, d.inode[i], e.name) = {off}
    /\ \A i \in InUse(d) \ {ROOTINO} : Cardinality(Links(d, i)) = 1
    /\ \A i \in Dirs(d) :
          /\ Dirlookup(d, d.inode[i], ".") = i
          /\ LET up == Dirlookup(d, d.inode[i], "..") IN
             IF i = ROOTINO THEN up = i ELSE \E l \in Links(d, i) : l[1] = up

LinksCounted(d) ==
    \A i \in InUse(d) :
       d.inode[i].nlink =
          1 + Cardinality({j \in Dirs(d) \ {ROOTINO} : Dirlookup(d, d.inode[j], "..") = i})

(* No block of a file below its size is missing. *)
HoleFree(ino) == \A bn \in 0 .. MAXFILE - 1 : bn * DPB < ino.size => ino.addrs[bn] # 0

(* Every block in use belongs to one place in one inode, and the bitmap    *)
(* knows those and no others; no file has a hole.                          *)
Owned(d, i) ==
    {<<i, bn>> : bn \in {k \in 0 .. MAXFILE - 1 : d.inode[i].addrs[k] \in Block}}
    \cup IF d.inode[i].ind = 0 THEN {} ELSE {<<i, MAXFILE>>}

BlockAt(d, o) == IF o[2] = MAXFILE THEN d.inode[o[1]].ind ELSE d.inode[o[1]].addrs[o[2]]

BlocksSound(d) ==
    LET owned == UNION {Owned(d, i) : i \in InUse(d)} IN
    /\ d.used = {BlockAt(d, o) : o \in owned}
    /\ Cardinality(d.used) = Cardinality(owned)
    /\ \A i \in InUse(d) : HoleFree(d.inode[i])

(* A directory has entries in the sector in front, which it may share.     *)
Overfull(d) == \E i \in Dirs(d), bn \in 0 .. MAXFILE - 1 : d.inode[i].addrs[bn] = Off

Sound(d) == BlocksSound(d) /\ (Overfull(d) \/ (TreeSound(d) /\ LinksCounted(d)))

(* What a single call relies on: entries, in whatever block, name inodes   *)
(* with links, and a free inode has none.                                  *)
Readable(d) ==
    /\ d \in DiskType
    /\ \A i \in Inum : HoleFree(d.inode[i]) /\ (d.inode[i].type = "free" => d.inode[i].nlink = 0)
    /\ \A b \in Addr : \A o \in 0 .. DPB - 1 :
          LET e == d.dir[b][o] IN e.inum # 0 => d.inode[e.inum].nlink > 0
    /\ d.inode[ROOTINO].nlink > 0
=============================================================================
