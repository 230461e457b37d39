-------------------------------- MODULE Mkfs --------------------------------
(***************************************************************************)
(* user/src/mkfs/main.c: the disk that mkfs makes from a list of files,    *)
(* each with its name and its size, written with mkfs's own ialloc,        *)
(* iappend and balloc.  m.next is freeblock, m.free is freeinode; the      *)
(* meta blocks are not numbered.                                           *)
(***************************************************************************)
EXTENDS Inode

mkfs_ialloc(m, type) ==
    [m EXCEPT !.inode[m.free] = NewInode(type, 1), !.free = @ + 1]

(* The block fbn of inode i, with the indirect block before it. *)
mkfs_block(m, i, fbn) ==
    LET ind == IF fbn < NDIRECT \/ m.inode[i].ind # 0 THEN m
               ELSE [m EXCEPT !.inode[i].ind = m.next, !.next = @ + 1]
    IN  IF m.inode[i].addrs[fbn] # 0 THEN m
        ELSE [ind EXCEPT !.inode[i].addrs[fbn] = ind.next, !.next = @ + 1]

iappend(m, i, n) ==
    LET off == m.inode[i].size
        t == FoldLeft(LAMBDA u, k : mkfs_block(u, i, (off + k - 1) \div DPB), m,
                      [k \in 1 .. n |-> k])
    IN  [t EXCEPT !.inode[i].size = off + n]

mkfs_link(m, name, i) ==
    LET off == m.inode[ROOTINO].size
        t == iappend(m, ROOTINO, 1)
    IN  [t EXCEPT !.dir[t.inode[ROOTINO].addrs[off \div DPB]][off % DPB] =
                      [name |-> name, inum |-> i]]

mkfs_file(m, file) ==
    LET t == mkfs_link(mkfs_ialloc(m, "file"), file.name, m.free)
    IN  iappend(t, m.free, file.size)

(* The root grows to whole blocks, and balloc marks every block up to the  *)
(* first free one.                                                         *)
Mkfs(files) ==
    LET blank == [inode |-> [i \in Inum |-> NewInode("free", 0)], free |-> ROOTINO,
                  dir |-> [b \in Addr |-> Zeroes], next |-> 1]
        root  == mkfs_link(mkfs_link(mkfs_ialloc(blank, "dir"), ".", ROOTINO), "..", ROOTINO)
        m     == FoldLeft(mkfs_file, root, files)
    IN  [inode |-> [m.inode EXCEPT ![ROOTINO].size = (@ \div DPB + 1) * DPB],
         used |-> 1 .. m.next - 1,
         dir |-> m.dir]
=============================================================================
