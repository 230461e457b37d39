--------------------------------- MODULE Fs ---------------------------------
(***************************************************************************)
(* kern/sysfile.c and kern/file.c over Inode: processes that open, create, *)
(* read, write, dup and close files, make directories and devices, change  *)
(* directory, fork and exit, between begin_op and end_op; and crashes.     *)
(*                                                                         *)
(* The log is what AtomicDisk promises: when the last operation ends, all  *)
(* that was logged reaches the disk at once; a crash keeps that much.  For *)
(* a transaction too large for the log nothing is promised: the model ends *)
(* before such a commit, and when log.lh.block is overrun.                 *)
(* What a process does while it holds the lock of an inode is one step,    *)
(* except where it goes on to another lock or to the file's offset.        *)
(* Nothing but a crash follows a panic.                                    *)
(***************************************************************************)
EXTENDS Mkfs

CONSTANTS
    Proc,         \* slots for processes
    Initproc,     \* the process that the kernel starts with
    File,         \* slots of ftable
    NOFILE,       \* descriptors of a process
    MaxCalls,     \* bound on the number of calls with a path
    Path,         \* those paths: [abs, elems]
    Sizes,        \* sizes of reads and writes
    Programs,     \* the files that mkfs is given
    MAXOPBLOCKS,  \* blocks that begin_op reserves for an operation
    LOGSIZE,      \* blocks in the log
    Nil

ASSUME FsAssumption ==
    /\ IsFiniteSet(Proc) /\ IsFiniteSet(File)
    /\ Initproc \in Proc /\ Nil \notin Proc \cup File
    /\ NOFILE \in Nat /\ MAXOPBLOCKS \in Nat \ {0} /\ LOGSIZE \in Nat /\ LOGSIZE >= 6
    /\ \A path \in Path :
          /\ path.abs \in BOOLEAN
          /\ path.elems \in Seq(Name \cup {".", ".."})
    /\ Sizes \subseteq Nat \ {0}
    /\ MaxCalls \in Nat

(* The programs fit on the disk. *)
ASSUME ProgramsFit == Readable(Mkfs(Programs))

VARIABLES
    fs,      \* the file system in memory: see Inode
    disk,    \* what the log has committed
    ops,     \* processes between begin_op and end_op: log.outstanding
    logged,  \* blocks in the log's header
    wrote,   \* blocks that each process has logged in its operation
    lock,    \* who holds the lock of each inode
    ftlock,  \* who holds ftable.lock
    file,    \* ftable
    ofile,   \* descriptors of each process
    cwd,     \* inode of each process's current directory, or 0
    pc,      \* where each process is in its call
    loc,     \* the locals of that call
    ncalls   \* how many calls with a path there have been

vars == <<fs, disk, ops, logged, wrote, lock, ftlock, file, ofile, cwd, pc, loc,
          ncalls>>

Fd == 0 .. NOFILE - 1
Mode == {"r", "rw"}
Create == {"creat", "mkdir", "mknod"}
Lookup == {"open", "chdir", "stat", "exec"}
Made   == [creat |-> "file", mkdir |-> "dir", mknod |-> "dev"]

PC == {"unused", "user", "walk", "create", "exist", "ialloc", "fill", "alloc",
       "end", "wbegin", "wlock", "wadv", "wend", "exit", "cbegin", "cput", "cend", "panic"}

NoFile  == [ref |-> 0, type |-> "none", ip |-> 0, off |-> 0, write |-> FALSE]
NoLocal == [call |-> "none", elems |-> <<>>, mode |-> "r", ip |-> 0, dp |-> 0, ok |-> FALSE,
            f |-> Nil, n |-> 0, at |-> 0, n1 |-> 0]

TypeOK ==
    /\ Image(fs) \in DiskType /\ disk \in DiskType
    /\ fs.ref \in [Inum -> Nat] /\ fs.valid \in [Inum -> BOOLEAN]
    /\ fs.copy \in [Inum -> InodeType] /\ fs.wrote = {}
    /\ ops \subseteq Proc /\ \A p \in Proc : wrote[p] \subseteq logged
    /\ lock \in [Inum -> Proc \cup {Nil}] /\ ftlock \in Proc \cup {Nil}
    /\ file \in [File -> [ref : Nat, type : {"none", "inode"}, ip : Inum \cup {0},
                          off : 0 .. MAXFILE * DPB, write : BOOLEAN]]
    /\ ofile \in [Proc -> [Fd -> File \cup {Nil}]]
    /\ cwd \in [Proc -> Inum \cup {0}]
    /\ pc \in [Proc -> PC] /\ ncalls \in 0 .. MaxCalls

(* The state after a start on disk d: user_init gives the first process    *)
(* "/" for its current directory.                                          *)
Booted(d) ==
    [fs |-> Iget(Mount(d), ROOTINO),
     pc |-> [p \in Proc |-> IF p = Initproc THEN "user" ELSE "unused"],
     cwd |-> [p \in Proc |-> IF p = Initproc THEN ROOTINO ELSE 0]]

Cold ==
    [lock |-> [i \in Inum |-> Nil], file |-> [f \in File |-> NoFile],
     ofile |-> [p \in Proc |-> [fd \in Fd |-> Nil]],
     loc |-> [p \in Proc |-> NoLocal], wrote |-> [p \in Proc |-> {}]]

Init ==
    /\ disk = Mkfs(Programs)
    /\ fs = Booted(disk).fs /\ pc = Booted(disk).pc /\ cwd = Booted(disk).cwd
    /\ ops = {} /\ logged = {} /\ wrote = Cold.wrote
    /\ lock = Cold.lock /\ ftlock = Nil
    /\ file = Cold.file /\ ofile = Cold.ofile /\ loc = Cold.loc
    /\ ncalls = 0

Crash ==
    /\ fs' = Booted(disk).fs /\ pc' = Booted(disk).pc /\ cwd' = Booted(disk).cwd
    /\ ops' = {} /\ logged' = {} /\ wrote' = Cold.wrote
    /\ lock' = Cold.lock /\ ftlock' = Nil
    /\ file' = Cold.file /\ ofile' = Cold.ofile /\ loc' = Cold.loc
    /\ UNCHANGED <<disk, ncalls>>

-----------------------------------------------------------------------------
Goto(p, l) == pc' = [pc EXCEPT ![p] = l]
Local(p, r) == loc' = [loc EXCEPT ![p] = r]

(* Process p goes to l with the file system t, or stops at its panic. *)
Do(p, t, l) ==
    IF t.ok THEN /\ fs' = [t EXCEPT !.wrote = {}]
                 /\ wrote' = [wrote EXCEPT ![p] = @ \cup t.wrote]
                 /\ logged' = logged \cup t.wrote
                 /\ Goto(p, l)
    ELSE Goto(p, "panic") /\ UNCHANGED <<fs, wrote, logged>>

(* begin_op waits until the log has room for one more operation. *)
CanBegin == Cardinality(logged) + (Cardinality(ops) + 1) * MAXOPBLOCKS <= LOGSIZE
BeginOp(p) == CanBegin /\ ops' = ops \cup {p}

(* end_op: the last operation commits, with room in the log for a body of  *)
(* fewer than LOGSIZE blocks; the model ends before a larger one.          *)
EndOp(p) ==
    /\ ops' = ops \ {p}
    /\ wrote' = [wrote EXCEPT ![p] = {}]
    /\ IF ops = {p} THEN Cardinality(logged) < LOGSIZE /\ disk' = Image(fs) /\ logged' = {}
       ELSE UNCHANGED <<disk, logged>>

-----------------------------------------------------------------------------
(* namex *)

(* A system call with a path; sys_exec looks the path up outside of a      *)
(* transaction.                                                            *)
Call(p) ==
    /\ pc[p] = "user" /\ ncalls < MaxCalls
    /\ ncalls' = ncalls + 1
    /\ \E call \in Create \cup Lookup, path \in Path, mode \in Mode :
          /\ IF call = "creat" THEN mode = "rw" ELSE call # "open" => mode = "r"
          /\ LET i == IF path.abs THEN ROOTINO ELSE cwd[p] IN
             /\ Do(p, Iget(fs, i), "walk")
             /\ Local(p, [NoLocal EXCEPT !.call = call, !.elems = path.elems, !.mode = mode, !.ip = i])
          /\ IF call = "exec" THEN UNCHANGED ops ELSE BeginOp(p)
    /\ UNCHANGED <<disk, lock, ftlock, file, ofile, cwd>>

(* With a second iput. *)
LeavePutsTwice(p, t) ==
    /\ Do(p, Iput(t, loc[p].ip), IF loc[p].call = "exec" THEN "user" ELSE "end")
    /\ Local(p, [NoLocal EXCEPT !.call = IF loc[p].call = "exec" THEN "none" ELSE loc[p].call])

(* A call that has failed, or has nothing left to do, goes to its end_op.  *)
Leave(p, t) ==
    IF loc[p].call = "exec" THEN Do(p, t, "user") /\ Local(p, NoLocal)
    ELSE Do(p, t, "end") /\ Local(p, [NoLocal EXCEPT !.call = loc[p].call])

(* nameiparent of a path without elements fails. *)
NoParent(p) ==
    /\ pc[p] = "walk" /\ loc[p].elems = <<>> /\ loc[p].call \in Create
    /\ Leave(p, Iput(fs, loc[p].ip))
    /\ UNCHANGED <<disk, ops, lock, ftlock, file, ofile, cwd, ncalls>>

(* The next element, under the lock of its directory. *)
Walk(p) ==
    LET l    == loc[p]
        t    == Ilock(fs, l.ip)
        next == Dirlookup(t, t.copy[l.ip], Head(l.elems))
        dir  == t.copy[l.ip].type = "dir"
        stop == l.call \in Create /\ Len(l.elems) = 1
    IN  /\ pc[p] = "walk" /\ l.elems # <<>>
        /\ lock[l.ip] = Nil
        /\ \/ dir /\ stop /\ Do(p, t, "create") /\ UNCHANGED loc
           \/ /\ ~dir \/ (~stop /\ next = 0)
              /\ Leave(p, Iput(t, l.ip))
           \/ /\ dir /\ ~stop /\ next # 0
              /\ Do(p, Iput(Iget(t, next), l.ip), "walk")
              /\ Local(p, [l EXCEPT !.ip = next, !.elems = Tail(@)])
        /\ UNCHANGED <<disk, ops, lock, ftlock, file, ofile, cwd, ncalls>>

-----------------------------------------------------------------------------
(* What the calls do with the inode that namei has found. *)

Found(p, calls) ==
    pc[p] = "walk" /\ loc[p].elems = <<>> /\ loc[p].call \in calls /\ lock[loc[p].ip] = Nil

(* sys_openat: a directory is opened for reading only. *)
OpenFound(p) ==
    LET i == loc[p].ip
        t == Ilock(fs, i)
    IN  /\ Found(p, {"open"})
        /\ IF t.copy[i].type = "dir" /\ loc[p].mode # "r"
           THEN Leave(p, Iput(t, i)) /\ UNCHANGED lock
           ELSE Do(p, t, "alloc") /\ lock' = [lock EXCEPT ![i] = p] /\ UNCHANGED loc
        /\ UNCHANGED <<disk, ops, ftlock, file, ofile, cwd, ncalls>>

(* sys_chdir: the old directory is dropped before the new one is noted. *)
ChdirFound(p) ==
    LET i == loc[p].ip
        t == Ilock(fs, i)
    IN  /\ Found(p, {"chdir"})
        /\ IF t.copy[i].type # "dir"
           THEN Leave(p, Iput(t, i))
           ELSE Do(p, Iput(t, cwd[p]), "end") /\ Local(p, [loc[p] EXCEPT !.ok = TRUE])
        /\ UNCHANGED <<disk, ops, lock, ftlock, file, ofile, cwd, ncalls>>

(* sys_fstatat and execve look at the inode and put it back. *)
StatFound(p) ==
    LET i == loc[p].ip IN
    /\ Found(p, {"stat", "exec"})
    /\ Leave(p, Iput(Ilock(fs, i), i))
    /\ UNCHANGED <<disk, ops, lock, ftlock, file, ofile, cwd, ncalls>>

-----------------------------------------------------------------------------
(* create, in the directory dp = loc.ip *)

Name1(p) == loc[p].elems[1]

(* The directory is locked; a name that exists is not created. *)
CreateLook(p) ==
    LET dp == loc[p].ip
        t  == Ilock(fs, dp)
        ip == Dirlookup(t, t.copy[dp], Name1(p))
    IN  /\ pc[p] = "create" /\ lock[dp] = Nil
        /\ IF ip # 0
           THEN /\ Do(p, Iput(Iget(t, ip), dp), "exist")
                /\ Local(p, [loc[p] EXCEPT !.ip = ip])
                /\ UNCHANGED lock
           ELSE /\ Do(p, t, "ialloc")
                /\ lock' = [lock EXCEPT ![dp] = p]
                /\ Local(p, [loc[p] EXCEPT !.dp = dp, !.ip = 0])
        /\ UNCHANGED <<disk, ops, ftlock, file, ofile, cwd, ncalls>>

(* It exists: only open(O_CREAT) of a file goes on with it. *)
CreateExist(p) ==
    LET i == loc[p].ip
        t == Ilock(fs, i)
    IN  /\ pc[p] = "exist" /\ lock[i] = Nil
        /\ IF loc[p].call = "creat" /\ t.copy[i].type = "file"
           THEN Do(p, t, "alloc") /\ lock' = [lock EXCEPT ![i] = p] /\ UNCHANGED loc
           ELSE Leave(p, Iput(t, i)) /\ UNCHANGED lock
        /\ UNCHANGED <<disk, ops, ftlock, file, ofile, cwd, ncalls>>

(* The new inode has one link. *)
Fresh(p) ==
    LET i == loc[p].ip IN Iupdate([Ilock(fs, i) EXCEPT !.copy[i].nlink = 1], i)

(* A new directory has its dots. *)
Dot(s, i) == Dirlink(s, i, ".", i)

(* With itself for its parent. *)
DotsToSelf(s, i, dp) == Dirlink(Dot(s, i), i, "..", i)

Dots(s, i, dp) == Dirlink(Dot(s, i), i, "..", dp)

(* Without the iupdate of the parent. *)
FurnishedNotWritten(p) ==
    LET dp == loc[p].dp IN
    IF loc[p].call # "mkdir" THEN Fresh(p)
    ELSE Dots([Fresh(p) EXCEPT !.copy[dp].nlink = @ + 1], loc[p].ip, dp)

(* ... and its parent a link for the "..".                                 *)
Furnished(p) ==
    LET dp == loc[p].dp IN
    IF loc[p].call # "mkdir" THEN Fresh(p)
    ELSE Dots(Iupdate([Fresh(p) EXCEPT !.copy[dp].nlink = @ + 1], dp), loc[p].ip, dp)

(* ... and it is entered in the directory. *)
Filled(p) == Dirlink(Furnished(p), loc[p].dp, Name1(p), loc[p].ip)

CreateIalloc(p) ==
    /\ pc[p] = "ialloc"
    /\ Do(p, Ialloc(fs, Made[loc[p].call]), "fill")
    /\ Local(p, [loc[p] EXCEPT !.ip = IF FreeInum(fs) = {} THEN 0 ELSE Min(FreeInum(fs))])
    /\ UNCHANGED <<disk, ops, lock, ftlock, file, ofile, cwd, ncalls>>

CreateFill(p) ==
    LET i     == loc[p].ip
        t     == Iput(Filled(p), loc[p].dp)
        creat == loc[p].call = "creat"
    IN  /\ pc[p] = "fill" /\ lock[i] = Nil
        /\ IF creat THEN Do(p, t, "alloc") /\ UNCHANGED loc ELSE Leave(p, Iput(t, i))
        /\ lock' = [lock EXCEPT ![loc[p].dp] = Nil, ![i] = IF creat THEN p ELSE Nil]
        /\ UNCHANGED <<disk, ops, ftlock, file, ofile, cwd, ncalls>>

-----------------------------------------------------------------------------
(* The file table. *)

FreeFd(p) == {fd \in Fd : ofile[p][fd] = Nil}

(* sys_openat: filealloc and fdalloc.  Without a file the call fails;      *)
(* without a descriptor fileclose meets a file that has no type yet, and   *)
(* panics with ftable.lock.                                                *)
OpenAlloc(p) ==
    LET i == loc[p].ip
        Free == {f \in File : file[f].ref = 0}
    IN  /\ pc[p] = "alloc" /\ ftlock = Nil
        /\ IF Free = {}
           THEN /\ Leave(p, Iput(fs, i))
                /\ lock' = [lock EXCEPT ![i] = Nil]
                /\ UNCHANGED <<file, ofile, ftlock>>
           ELSE \/ /\ FreeFd(p) = {}
                   /\ ftlock' = p
                   /\ Goto(p, "panic")
                   /\ UNCHANGED <<fs, wrote, logged, lock, file, ofile, loc>>
                \/ /\ FreeFd(p) # {}
                   /\ \E f \in Free :
                         /\ file' = [file EXCEPT ![f].ref = 1]
                         /\ ofile' = [ofile EXCEPT ![p][Min(FreeFd(p))] = f]
                         /\ Local(p, [loc[p] EXCEPT !.f = f, !.ok = TRUE])
                   /\ Do(p, fs, "end")
                   /\ lock' = [lock EXCEPT ![i] = Nil]
                   /\ UNCHANGED ftlock
        /\ UNCHANGED <<disk, ops, cwd, ncalls>>

(* end_op, and after it what sys_openat sets in its file, sys_chdir in its *)
(* process.                                                                *)
End(p) ==
    LET l == loc[p] IN
    /\ pc[p] = "end"
    /\ EndOp(p)
    /\ IF l.ok /\ l.call \in {"open", "creat"}
       THEN file' = [file EXCEPT ![l.f] = [@ EXCEPT !.type = "inode", !.ip = l.ip, !.off = 0,
                                                    !.write = l.mode = "rw"]]
       ELSE UNCHANGED file
    /\ IF l.ok /\ l.call = "chdir" THEN cwd' = [cwd EXCEPT ![p] = l.ip] ELSE UNCHANGED cwd
    /\ Goto(p, "user")
    /\ Local(p, NoLocal)
    /\ UNCHANGED <<fs, lock, ftlock, ofile, ncalls>>

(* sys_dup *)
Dup(p) ==
    /\ pc[p] = "user" /\ ftlock = Nil /\ FreeFd(p) # {}
    /\ \E fd \in Fd : LET f == ofile[p][fd] IN
          /\ f # Nil
          /\ ofile' = [ofile EXCEPT ![p][Min(FreeFd(p))] = f]
          /\ file' = [file EXCEPT ![f].ref = @ + 1]
    /\ UNCHANGED <<fs, disk, ops, logged, wrote, lock, ftlock, cwd, pc, loc, ncalls>>

(* filedup for every descriptor *)
Filedup(p) ==
    [f \in File |-> [file[f] EXCEPT !.ref = @ + Cardinality({fd \in Fd : ofile[p][fd] = f})]]

(* fork, with idup for the directory. *)
Fork(p) ==
    /\ pc[p] = "user" /\ ftlock = Nil
    /\ \E q \in Proc :
          /\ pc[q] = "unused"
          /\ file' = Filedup(p)
          /\ ofile' = [ofile EXCEPT ![q] = ofile[p]]
          /\ fs' = Idup(fs, cwd[p])
          /\ cwd' = [cwd EXCEPT ![q] = cwd[p]]
          /\ Goto(q, "user")
    /\ UNCHANGED <<disk, ops, logged, wrote, lock, ftlock, loc, ncalls>>

(* fileclose: the last reference goes on with the lock, to put the inode.  *)
DropFile(p, f, clear) ==
    /\ ftlock = Nil
    /\ file' = [file EXCEPT ![f].ref = @ - 1]
    /\ IF file[f].ref > 1
       THEN UNCHANGED <<ftlock, pc, loc>>
       ELSE /\ ftlock' = p
            /\ Goto(p, "cbegin")
            /\ Local(p, [loc[p] EXCEPT !.f = f])
    /\ ofile' = [ofile EXCEPT ![p] = clear]
    /\ UNCHANGED <<fs, disk, ops, logged, wrote, lock, cwd, ncalls>>

(* sys_close *)
Close(p) ==
    /\ pc[p] = "user"
    /\ \E fd \in Fd : /\ ofile[p][fd] # Nil
                      /\ DropFile(p, ofile[p][fd], [ofile[p] EXCEPT ![fd] = Nil])

(* begin_op, iput and end_op, and ftable.lock all the time. *)
CloseBegin(p) ==
    /\ pc[p] = "cbegin"
    /\ BeginOp(p)
    /\ Goto(p, "cput")
    /\ UNCHANGED <<fs, disk, logged, wrote, lock, ftlock, file, ofile, cwd, loc, ncalls>>

ClosePut(p) ==
    /\ pc[p] = "cput"
    /\ Do(p, Iput(fs, file[loc[p].f].ip), "cend")
    /\ UNCHANGED <<disk, ops, lock, ftlock, file, ofile, cwd, loc, ncalls>>

CloseEnd(p) ==
    /\ pc[p] = "cend"
    /\ EndOp(p)
    /\ file' = [file EXCEPT ![loc[p].f] = NoFile]
    /\ ftlock' = Nil
    /\ Goto(p, IF loc[p].call = "exit" THEN "exit" ELSE "user")
    /\ Local(p, [NoLocal EXCEPT !.call = IF loc[p].call = "exit" THEN "exit" ELSE "none"])
    /\ UNCHANGED <<fs, lock, ofile, cwd, ncalls>>

(* exit closes its descriptors one by one and puts its directory; the slot *)
(* is free again when the parent has waited.                               *)
Exit(p) ==
    /\ pc[p] = "user" /\ p # Initproc
    /\ Goto(p, "exit")
    /\ Local(p, [NoLocal EXCEPT !.call = "exit"])
    /\ UNCHANGED <<fs, disk, ops, logged, wrote, lock, ftlock, file, ofile, cwd, ncalls>>

ExitClose(p) ==
    /\ pc[p] = "exit" /\ FreeFd(p) # Fd
    /\ LET fd == Min(Fd \ FreeFd(p)) IN DropFile(p, ofile[p][fd], [ofile[p] EXCEPT ![fd] = Nil])

ExitCwd(p) ==
    /\ pc[p] = "exit" /\ FreeFd(p) = Fd
    /\ Do(p, Iput(fs, cwd[p]), "unused")
    /\ cwd' = [cwd EXCEPT ![p] = 0]
    /\ Local(p, NoLocal)
    /\ UNCHANGED <<disk, ops, lock, ftlock, file, ofile, ncalls>>

-----------------------------------------------------------------------------
(* Reading and writing; the offset of a device is never used. *)

(* fileread, and filestat: one step, under the lock of the inode. *)
Read(p) ==
    \E fd \in Fd, n \in Sizes :
       LET f == ofile[p][fd]
           i == file[f].ip
           t == Ilock(fs, i)
           left == t.copy[i].size - file[f].off
       IN  /\ pc[p] = "user" /\ f # Nil /\ lock[i] = Nil
           /\ Do(p, t, "user")
           /\ IF t.copy[i].type = "dev" THEN UNCHANGED file
              ELSE file' = [file EXCEPT ![f].off = @ + IF n < left THEN n ELSE left]
           /\ UNCHANGED <<disk, ops, lock, ftlock, ofile, cwd, loc, ncalls>>

(* filewrite, in pieces of at most PIECE. *)
PIECE == ((LOGSIZE - 4) \div 2) * DPB

Write(p) ==
    /\ pc[p] = "user"
    /\ \E fd \in Fd, n \in Sizes :
          /\ ofile[p][fd] # Nil /\ file[ofile[p][fd]].write
          /\ Local(p, [NoLocal EXCEPT !.f = ofile[p][fd], !.n = n])
    /\ Goto(p, "wbegin")
    /\ UNCHANGED <<fs, disk, ops, logged, wrote, lock, ftlock, file, ofile, cwd, ncalls>>

WriteBegin(p) ==
    /\ pc[p] = "wbegin"
    /\ BeginOp(p)
    /\ Goto(p, "wlock")
    /\ UNCHANGED <<fs, disk, logged, wrote, lock, ftlock, file, ofile, cwd, loc, ncalls>>

Piece(p) == IF loc[p].n < PIECE THEN loc[p].n ELSE PIECE

(* Without the lock kept. *)
NotLocked(p, i) == lock[i] = Nil /\ UNCHANGED lock

Locked(p, i) == lock[i] = Nil /\ lock' = [lock EXCEPT ![i] = p]

(* What writei may write of the piece: all, or nothing when it refuses; a  *)
(* device without a driver refuses too.                                    *)
Taken(p, t) ==
    LET f == file[loc[p].f] IN
    IF t.copy[f.ip].type = "dev" THEN {0, Piece(p)}
    ELSE {IF WriteRefused(t, f.ip, f.off, Piece(p)) THEN 0 ELSE Piece(p)}

(* ilock and writei, at the offset of the file. *)
WriteLocked(p) ==
    LET f == file[loc[p].f]
        t == Ilock(fs, f.ip)
    IN  /\ pc[p] = "wlock"
        /\ Locked(p, f.ip)
        /\ \E n1 \in Taken(p, t) :
              /\ Do(p, IF n1 = 0 \/ t.copy[f.ip].type = "dev" THEN t
                       ELSE Zeroed(Writei(t, f.ip, f.off, n1), f.ip, f.off, n1), "wadv")
              /\ Local(p, [loc[p] EXCEPT !.at = f.off, !.n1 = n1])
        /\ UNCHANGED <<disk, ops, ftlock, file, ofile, cwd, ncalls>>

(* f->off += n1 and iunlock *)
WriteAdvance(p) ==
    LET f == loc[p].f
        i == file[f].ip
    IN  /\ pc[p] = "wadv"
        /\ IF fs.copy[i].type = "dev" THEN UNCHANGED file
           ELSE file' = [file EXCEPT ![f].off = @ + loc[p].n1]
        /\ lock' = [lock EXCEPT ![i] = Nil]
        /\ Goto(p, "wend")
        /\ UNCHANGED <<fs, disk, ops, logged, wrote, ftlock, ofile, cwd, loc, ncalls>>

(* After end_op a piece that was refused panics. *)
WriteEnd(p) ==
    LET left == loc[p].n - Piece(p) IN
    /\ pc[p] = "wend"
    /\ EndOp(p)
    /\ Goto(p, IF loc[p].n1 = 0 THEN "panic" ELSE IF left = 0 THEN "user" ELSE "wbegin")
    /\ Local(p, IF left = 0 THEN NoLocal ELSE [loc[p] EXCEPT !.n = left])
    /\ UNCHANGED <<fs, lock, ftlock, file, ofile, cwd, ncalls>>

-----------------------------------------------------------------------------
Namei(p)  == Call(p) \/ NoParent(p) \/ Walk(p) \/ OpenFound(p) \/ ChdirFound(p) \/ StatFound(p)
Creat(p)  == CreateLook(p) \/ CreateExist(p) \/ CreateIalloc(p) \/ CreateFill(p)
Files(p)  == OpenAlloc(p) \/ End(p) \/ Dup(p) \/ Fork(p) \/ Close(p) \/ CloseBegin(p)
             \/ ClosePut(p) \/ CloseEnd(p) \/ Exit(p) \/ ExitClose(p) \/ ExitCwd(p)
Io(p)     == Read(p) \/ Write(p) \/ WriteBegin(p) \/ WriteLocked(p) \/ WriteAdvance(p) \/ WriteEnd(p)

Panicked == \E p \in Proc : pc[p] = "panic"

(* log_write has gone past the end of log.lh.block. *)
Overrun == Cardinality(logged) > LOGSIZE

Next ==
    \/ Crash
    \/ /\ ~Panicked /\ ~Overrun
       /\ \E p \in Proc : Namei(p) \/ Creat(p) \/ Files(p) \/ Io(p)

Spec == Init /\ [][Next]_vars

-----------------------------------------------------------------------------
(* Whatever crashes between the steps of a call, or of calls that overlap, *)
(* the bitmap of the disk that the kernel starts from again marks exactly  *)
(* the blocks of its files, each in one place, and the directories are a   *)
(* tree with exact link counts.  The tree is given up once the disk was    *)
(* full when a directory grew: its entries are outside of the file system, *)
(* where other directories and files put theirs.                           *)
CommittedSound == Sound(disk) /\ [][disk' # disk => Sound(disk')]_vars

(* A cached inode keeps its entry while someone can use it: ip->ref counts *)
(* the open files, the current directories and the calls under way.        *)
Uses(i) ==
    Cardinality({f \in File : file[f].type = "inode" /\ file[f].ip = i /\ ~\E p \in Proc :
                                 pc[p] = "cend" /\ loc[p].f = f})
    + Cardinality({p \in Proc : cwd[p] = i /\ ~(loc[p].ok /\ loc[p].call = "chdir")})
    + Cardinality({p \in Proc : loc[p].ip = i /\ pc[p] \in {"walk", "create", "exist", "fill", "alloc"}})
    + Cardinality({p \in Proc : loc[p].ip = i /\ pc[p] = "end" /\ loc[p].ok})
    + Cardinality({p \in Proc : loc[p].dp = i /\ pc[p] \in {"ialloc", "fill"}})

RefsExact ==
    ~Panicked => \A i \in Inum : fs.ref[i] = Uses(i)

(* f->ref counts the descriptors that name the file, in whatever order     *)
(* processes dup, fork, close and exit.                                    *)
FileRefsExact ==
    \A f \in File : file[f].ref = Cardinality({d \in Proc \X Fd : ofile[d[1]][d[2]] = f})

(* The inode cache is write-through: what is cached of an inode that no    *)
(* one has locked is what is on disk.                                      *)
CacheIsDisk ==
    \A i \in Inum :
       fs.ref[i] > 0 /\ fs.valid[i] /\ lock[i] = Nil /\ (\A p \in Proc : pc[p] # "fill" \/ loc[p].ip # i)
       => fs.copy[i] = fs.inode[i]

(* Two processes that share a file write one after the other: the offset   *)
(* that a write advances is the one that it has written at.                *)
OffsetUnderLock == \A p \in Proc : pc[p] = "wadv" => file[loc[p].f].off = loc[p].at

(* A call that makes a file, a directory or a device logs no more blocks   *)
(* than begin_op reserves: "Max # of blocks any FS op writes".             *)
CreateFits ==
    \A p \in Proc : loc[p].call \in Create => Cardinality(wrote[p]) <= MAXOPBLOCKS

(* iput never finds an inode without links: nothing that is in use is      *)
(* freed, and CommittedSound needs no orphans.                             *)
InodesStayLinked ==
    \A i \in Inum : fs.ref[i] = 1 /\ fs.valid[i] => fs.copy[i].nlink > 0

(* Every path of a call, the failing ones included, gives back what it has *)
(* taken, once.                                                            *)
ReferencesExact == TypeOK /\ RefsExact /\ FileRefsExact /\ InodesStayLinked

(* end_op should "call commit w/o holding locks, since not allowed to sleep *)
(* with locks"; fileclose keeps ftable.lock.                               *)
CommitHoldsNoLock ==
    \A p \in Proc : pc[p] \in {"end", "wend", "cend"} /\ ops = {p} => ftlock # p
=============================================================================
