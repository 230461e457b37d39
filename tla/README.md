# TLA+ models of the xv6 for the Raspberry Pi 3

This directory holds TLA+ modules that model the kernel under `kern/`, the TLC
configurations that check them on small instances, and proofs of theorems about
them for all instances. `PROJECT.json` maps every definition to the lines it
models, lists the runs and the mutants that show that a property can fail, the
hazards of the code, and the findings.

    tlc -workers 2 -config proc_safety.cfg MCProc.tla     one run
    tlapm ProcProofs.tla                                  the proofs of one module

## 1. The system

| part | state | operations | interacts with |
|---|---|---|---|
| process table, scheduler (`proc.c`, `swtch.S`) | `ptable`, `cpus[].proc`, contexts on kernel stacks, `initproc` | `scheduler`, `sched`, `yield`, `sleep`, `wakeup`, `fork`, `exit`, `wait` | everything that blocks; traps |
| spin locks (`spinlock.c`) | `lk->locked`, `lk->cpu` | `acquire`, `release`, `holding` | every shared table |
| traps (`trap.c`, `trapasm.S`, `vectors.S`) | trap frame | timer → `yield`, SD → `sd_intr`, UART → `console_intr`, `svc` → system call | all |
| sleep locks (`sleeplock.c`) | `locked`, `pid`, a spin lock | `acquiresleep`, `releasesleep`, `holdingsleep` | `sleep`/`wakeup` |
| SD request queue (`sd.c`, `list.h`) | `sdque`, `sdlock`, the EMMC registers | `sdrw`, `sd_start`, `sd_intr` | buffer cache above, card below |
| SD commands (`sd.c`) | `sdCard`, the EMMC registers, the card | `sd_init`, `sdInit`, `sdSendCommand`, the waits | card below; the request queue starts from it |
| buffer cache (`bio.c`) | `bcache`: 30 buffers in MRU order, `refcnt`, `flags`, sleep lock | `bread`, `bwrite`, `brelse` | log, fs; `sdrw` |
| log (`log.c`) | `log` in memory, header and blocks on disk | `begin_op`, `log_write`, `end_op`, recovery | buffer cache; every file system call |
| inodes, blocks, directories, paths (`fs.c`) | `icache`, bitmap and inodes on disk | `iget` … `iput`, `balloc`, `bmap`, `dirlink`, `namei` | log, buffer cache, sleep locks |
| files (`file.c`, `sysfile.c`) | `ftable`, `proc.ofile` | open, dup, read, write, close | inodes, log, console |
| console, UART (`console.c`, `uart.c`) | input ring `r`, `w`, `e`; `conslock` | `console_read`, `console_intr`, `cprintf` | `sleep`/`wakeup`, `procdump` |
| memory (`kalloc.c`, `vm.c`, `kpgdir.c`, `exec.c`) | free list, page tables | `kalloc`, `map_region`, `copyuvm`, `execve` | fork, exit, wait |
| boot (`main.c`, `entry.S`) | once-flags | the initialisation of 4 CPUs | all |
| user programs (`user/src`) | — | `init`, `sh`, `cat`, `ls`, … | system calls |

Facts about the execution that all the models rest on, from the code:

- Interrupts are masked while the kernel runs (nothing in `kern/` unmasks them
  after an exception; `vectors.S` only takes them from EL0), so one CPU's
  kernel code is sequential. Concurrency is between CPUs (`NCPU` 4), between a
  CPU and the SD card, and between kernel visits of different processes.
- The timer interrupts every CPU in user mode and leads to `yield`
  (`trap.c:26-32`). The SD and UART interrupts are handled by the CPU that
  takes them in user mode; idle processes (4, `main.c:70-73`) guarantee that
  there is user code to interrupt.
- `killed` is never set, so `sleep` only ends by `wakeup`.

### What is hard, and the properties that make the parts correct

- *Scheduler*: a process becomes visible as RUNNABLE, SLEEPING or ZOMBIE before
  its CPU has left its kernel stack. Correct means: one CPU per process, no
  stack freed under a CPU, `ptable.lock` passed on properly through `swtch`, no
  exit missed by `wait`, no starvation. `fileclose` sleeps with `ftable.lock`
  held, and may be woken on another CPU.
- *sleep/wakeup, sleep locks*: no lost wakeup, mutual exclusion.
- *SD queue*: the queue is changed outside the lock; the answer may come before
  the requester sleeps; requests fail. Correct means: the buffer and its block
  agree when `sdrw` returns, and it does return.
- *Buffer cache*: one buffer per block, `bread` returns the block asked for; but
  buffers are recycled also while somebody uses them, and the log may pin all.
- *Log*: atomicity of each call with respect to crashes at every disk write,
  the reservation of log space and what happens beyond it, the layout on disk.
- *Inodes, files*: references to cached inodes and open files are exact on
  every path, also the failing ones and on a full disk; the cache is written
  through; whatever a crash leaves is a sound tree; an operation keeps to its
  reservation.
- *Console*: no input is lost, repeated or slept over.
- *Memory*: a page is in one place, user memory is what `p->sz` says, the guard
  page stays closed, nothing is lost when an allocation fails.
- *SD commands*: an answer belongs to its command; card and driver agree on
  addressing and bus width; the dialogue ends.

## 2. The modules

| module | models | state ↔ code |
|---|---|---|
| `Proc` | `proc.c`, `swtch.S`, `spinlock.c` | `state`, `parent`, `chan`, `kstack` are fields of `struct proc`; `lock` is `ptable.lock`'s owner, `cur[c]` is `cpus[c].proc`, `scan[c]` the loop variable of `scheduler`; `pc[p]` the place in the kernel where process `p` is, also while it is switched out; `lkcpu` the other spin locks, `arg` the parameters of `sleep` and `wakeup`; `Kept` the locks that are kept while others are taken (`ftable.lock` in `fileclose`), `keeps`, `keepcpu` who has one and its `lk->cpu`; `slept`, `leaker` are history: it has slept since, `proc_alloc` has returned with `ptable.lock` held |
| `ProcTable` | what `proc.c` promises: the table alone, with atomic `Sleep`, `Wakeup`, `Exit`, `Reap` | `waking` holds the channel of a `wakeup` that has been called and has not returned, so that a wakeup that reaches nobody can be told from none |
| `ProcRefines` | `Proc` with the refinement mapping to `ProcTable` | a process in the middle of `sleep` maps to one that has not slept yet |
| `SleepLock` | `sleeplock.c` | `locked`, `pid`, `spin` (the owner of `lk->lk`), `at` the place of each process |
| `Sd` | `sdrw`, `sd_start`, `sd_intr`, `list.h` | the `qnext` pointers of the queue one access at a time; `data` and `valid`, `dirty` of each buffer; `xfer` the transfer of the card, `irq` the pending interrupt, also one with an error; `disk`; `failed`, `raced` are history: a read has failed, two have been at the queue at once |
| `Bio` | `bio.c` | the buffers with their order, block number, flags, `refcnt`, sleep lock; `io` the block that `sdrw` transfers, and the disk behind it; `torn` is history: the buffer was given to another block under a user |
| `Log` | `log.c` | `home`, `logged`, `head` are the disk; `cache` the buffers; `lh`, `outstanding`, `committing` are fields of `log`; `phase`, `tail` the place in `commit` or the recovery; `ftlock` is `ftable.lock` as `fileclose` and `filealloc` take it during a call; `exceeded`, `spoilt` are history: a call has written more than was reserved, a transaction was too large for the log |
| `AtomicDisk` | what `log.c` promises: the blocks change by whole calls, a crash forgets a call or keeps it | `changed` the blocks of the transaction; from the first that changes more than `Room` on (`spoilt`) it promises nothing |
| `Console` | `console_read`, `console_intr` and `procdump` | `buf`, `r`, `w`, `e` are `input`; `conslock` and `ptable` the owners of the two spin locks; `pc` the place of each reader, `ipc` that of the interrupt handler |
| `ConsoleQueue` | what `console.c` promises: complete lines, the line being typed, and the reads | |
| `Inode` | `fs.c` as functions of a state: `iget`, `idup`, `ilock`, `iput`, `iupdate`, `ialloc`, `balloc`, `bmap`, `writei`, `dirlookup`, `dirlink` | `inode`, `used`, `dir` are the inodes, the bitmap and the directory blocks on disk, as the buffer cache has them; `ref`, `valid`, `copy` the entries of `icache`; `wrote` what was given to `log_write`; `ok` is FALSE in what a function returns when it panics. `Off` is the address -1 that `balloc` gives on a full disk, and `dir[Off]` the sector that it leads to, in front of the file system. Also `Sound(d)`: disk `d` is a tree with exact link counts, whose blocks the bitmap marks |
| `Mkfs` | `mkfs/main.c`: the first disk, with `mkfs`'s own `ialloc`, `iappend`, `balloc` | `inode`, `used`, `dir` as in `Inode`; `free`, `next` are `freeinode`, `freeblock` |
| `Fs` | `sysfile.c`, `file.c` over `Inode`: the calls of several processes, step by step, with crashes | `fs` the file system in memory, `disk` what the log has committed, `ops` and `logged` are `log.outstanding` and `log.lh`; `lock` the sleep lock of each inode, `ftlock` that of `ftable`; `file` is `ftable`, `ofile` and `cwd` fields of `struct proc`; `pc`, `loc` the place and the locals of each call; `wrote` the blocks a call has logged |
| `Memory` | `kalloc.c`, `vm.c`, `exec.c`, `growproc`, and what `fork`, `exit`, `wait` do with pages | `heap.free` is the free list, `heap.table` the contents of pages that are tables, `heap.kernel` the pages mapped without `PTE_USER`; `kstack`, `pgdir`, `sz` fields of `struct proc`; `pc`, `loc` the place and the locals of each call; `guard`, `mishap`, `spoilt` are history that the properties read: where the last `execve` put the guard, and whether the free list ran empty while the image grew, or `brk` has shrunk it to nothing; `holes`, `stale` are history that only the inductive invariant reads: pages below `sz` that the code has lost, pages above it that it has left |
| `SdInit` | `sd.c` below `sd_start`: commands, waits, `sdInit`, `sd_init` | `emmc` the registers (command in progress, `EMMC_INTERRUPT`, response, data, width, clock), `card` the card, `sdCard` the driver's descriptor; `pc`, `call`, `ret` the driver; `fresh`, `late` are history: the command has been answered, `sd_init` has ignored a failed wait |
| `MC*` | constants' values for TLC: symmetry sets, the paths and programs of `Fs`, the programs of `Memory` | |
| `*Proofs` | the theorems about each module; those about a refinement are in the module of the detailed one, those about `SleepLock` in `ProcProofs` | |

How a step is chosen. A step is the code between two operations on spin locks,
because nothing else interleaves: `Exit(c, p)`, for instance, is everything that
`exit` does from `acquire(&ptable.lock)` to `sched()`. Where the code touches
shared state without a lock, the step is one access: `fork`'s writes to its new
slot, and the list operations of `sdrw`. Operators with names such as
`ExitReleases` beside `Exit` are wrong versions of the code that the mutants
use; they are not in any next-state relation.

How the layers compose. Each is modelled over what the one below promises.
`Bio` uses a disk that does what `sdrw` promises as long as no two requesters
are at the queue at once (`SdrwSyncs` of run `sd`), one step to start a transfer
and one to end it; `Log` uses a cache that does what `Bio` promises of buffers
that nobody has lost (run `bio`); `Fs` uses a log that does what `AtomicDisk`
promises to transactions that fit into it (run `log` shows that `Log` implements
it), and sleep locks that exclude (run `sleeplock`); `Sd` starts from the
controller that `SdInit` leaves when no wait of it has failed (run `sd_init`);
`SleepLock`, `Log` and `Console` use the atomic `sleep` and `wakeup` of
`ProcTable` (run `proc_safety` shows that `Proc` implements it).

Several of the promises are conditional, since the code breaks them in ways that
section 4 lists: two requesters meet at the queue, `bget` recycles a buffer in
use, a transaction is too large, a lock is kept across `sleep`. The modules
model those steps too. What they lead to is remembered in a history variable
(`raced`, `torn`, `exceeded`, `spoilt`, `slept`, `leaker`, `mishap`), and the
property says that nothing else than this one step breaks it. The layer above is
then modelled over the promise without the breach.

## 3. The runs

Each run is exhaustive within the instance given here.

| run | instance | states | shows |
|---|---|---|---|
| `proc_safety` | 2 CPUs, 4 slots (1 idle process), 1 spin lock and 1 that is kept as `ftable.lock` is, 1 channel, `kalloc` may fail | 757,988 | one CPU per process, stacks, `wait`, parents, complete wakeups; which two ways lead to a panic of the locking protocol; `Proc` implements `ProcTable` |
| `proc_live` | 2 CPUs, 3 slots, 1 spin lock, none kept across `sleep`, 1 channel, `kalloc` succeeds | 9,546 | no starvation; `wait` returns after an exit |
| `sleeplock` | 3 processes | 4,320 | exclusion, no lost wakeup, exact `holdingsleep`; sleepers wake |
| `sd` | 2 requesters, 2 buffers, 2 values, a card whose reads and writes may fail; no new requests once two have met at the queue | 544,176 | until two have met at the queue, queue, card and handler are in step and `sdrw` returns; the card writes what was asked for; `sdrw` syncs, but for failed reads |
| `bio` | 3 processes that hold one buffer each, 2 buffers, 3 blocks, a log that may pin both buffers | 637,807 | one buffer per block; the promise of `bread` and transparency, but for buffers that `bget` has given away under a user |
| `log` | 2 processes, 4 blocks, one of them behind the log, a log of 3 blocks with its header, one block reserved and up to two written by a call | 411,868 | crash atomicity up to the first transaction that is too large (`Log` implements `AtomicDisk`), what overruns the log, commit alone, which sleepers of `begin_op` wake |
| `console` | 2 readers, a ring of 3, reads of up to 2 bytes, 5 characters typed into the ring | 197,868 | no input lost, repeated or reordered (`Console` implements `ConsoleQueue`); no reader sleeps for input that is there; a full ring can be read |
| `fs` | 2 processes, 2 files, 2 descriptors, 2 calls with one of 4 paths, 6 data blocks, 4 inodes, each in a block of its own, of which 3 can be cached, 2 entries per block, 2 direct and 2 indirect blocks, writes of 8 entries, 5 blocks reserved in a log of 10 | 373,483 | exact references, write-through inodes, offsets under the lock, `create` within its reservation, every committed disk sound, also when it is full, but for the tree once a directory has grown into the sector of -1 |
| `memory` | 2 processes, 20 pages, tables of 2 entries, 2 units per page, an address space of 16 units, `brk` of 7, -1, -8, 1 program, 5 calls | 471,238 | a page in one place; user memory as `p->sz` says unless memory ran out while the image grew or `brk` shrank it to nothing, and then no more above `p->sz` than first pages of tables; the guard kept in every copy |
| `sd_init` | cards of version 1, standard and high capacity, with and without a 4 bit bus, fresh or selected; 6 retries, as in the code | 60,557 | answers, addressing and bus width agree; a quiet controller at the end; `sd_init` ends |

The type invariant of a module is checked as one part of a conjunction whose
parts are named and have their own comments: `QueueInStep`,
`BreadReturnsItsBlock`, `InputReachesReaders`, `ReferencesExact`, `PagesApart`,
`DriverAgrees`; those of `Proc`, `Log` and `SleepLock` are theorems only. All of
them are proved (section 5).

Why these bounds reach the cases. Two CPUs are enough for one to schedule what
the other is leaving, and to wake a process on another CPU than the one it took a
lock on; a third only adds waiting for the same lock. Four slots
give a parent, a child, an orphan and an idle process. Three processes give a
sleep lock a holder, a sleeper and a newcomer that races with the sleeper.

In `sd`, two requesters and the handler are all who touch the queue; with two
buffers one request is served while the other waits in the queue, is linked, or
has its interrupt before its `sdrw` sleeps. In every state two may meet at the
queue; what happens after that is explored up to the end of the requests that
are under way (`GoOn = FALSE`), since new requests on a broken queue are beyond
what the properties promise, but for `CardWritesRequest`; the proofs are for
both values of `GoOn`.

In `bio`, two buffers for three blocks make `bget` recycle; a third process
waits for a buffer, or has one, while another recycles it. Both buffers
may be pinned, as a full log pins all, and then `bget` panics (`BgetPanics`).

In `log`, a call may write one block more than it has reserved. Two such calls
fill the three places of `log.lh.block`, the last of which lies behind the log
on the disk, and go beyond it. Two of the four blocks are written only as they
are (`Same`), which keeps the state small; two values let a call overwrite what
an earlier one logged, and a crash can leave any prefix of the installed blocks.
`SleeperWakes` needs a close that waits with `ftable.lock` and a call that wants
it: two processes. Behaviours go on after a transaction of three blocks only to
the end of the calls under way (`GoOn = FALSE`); the theorems do not need this.

Five characters go once around a ring of three and fill it.

In `fs`, the four paths are the root, an existing file by a relative path, a new
name, also through `..`, and a name inside of what the other process may be
making; two calls that overlap are any pair of `open`, `creat`, `mkdir`,
`mknod`, `chdir`, `stat` and `exec`. Write, close, dup, fork and exit are not
bounded. Two descriptors and two files run out in `open`, also by `dup` and
`fork`. Four inodes run out in `ialloc`. A write of eight entries fills the
largest file of four blocks and the code's pieces of it cross the indirect
block. `mkfs` takes three of the six data blocks, and writes and new directories
fill the rest: the run commits files and directories with the address -1,
directories whose entries another one overwrites in its sector, and transactions
of `LOGSIZE` blocks (the model ends before such a commit, since `AtomicDisk`
promises nothing of it). Symmetry is that of the files.

In `memory`, twenty pages just hold the image of `execve` and its copy by fork
(each nine pages and a kernel stack), so that the guard is copied, and fork,
`brk` and `execve` of two processes that have grown run out of pages; tables of
two entries need four levels with further tables at the lower three for eight
pages; sizes that are not whole pages, an image whose second segment ends below
its first, and `brk` to nothing are the irregular cases of `allocuvm` and
`deallocuvm`. A `brk` of seven units spans a whole table: when one `kalloc`
fails and the next succeed, since the other process gives back pages in between,
a table is missing between two others and `deallocuvm` passes over it, within
five calls.

`CHECK_DEADLOCK FALSE` is set where the modelled system may stop: in
`proc_safety` after a failing `kalloc` or a sleep with the kept lock (section
4), in `sd` after a panic, an overslept interrupt or when requests are no longer
made, in `bio` after `bget`'s panic, in `log` after an overrun, in the wedge of
`fileclose` and of a commit, and when calls are no longer made, in `memory`
after a panic for lack of memory or at a page that is missing, in `console` in
the deadlock of `procdump`, in `sd_init` when `sd_init` has returned or
panicked.

Runs that refute what the repository says (`findings` of `PROJECT.json`):

| run | what it refutes |
|---|---|
| `fs_commit_locked` | "call commit w/o holding locks, since not allowed to sleep with locks" (`log.c:206`): `fileclose` calls `end_op` with `ftable.lock` held, and commits |
| `memory_leak` | "You need to free all existing PTEs for this pgdir" (`vm.c:114`): `vm_free`, as `wait` and `execve` call it, loses the last tables and all the pages of an image |

### Fairness

- A CPU does not stop: `proc_live` has weak fairness of every step of kernel
  code that needs no lock and strong fairness of `acquire` (the lock is free
  again and again; that the exclusive store finally succeeds is the
  architecture's promise). User code need not do anything, but the timer
  interrupts it: strong fairness of `TimerIRQ`. Kernel code outside `proc.c`
  releases its lock and returns (`LkRelease`, `Leave`).
- A holder of a sleep lock releases it (`sleeplock`): every path of the callers
  under `kern/` does, unless it panics.
- In `log`, the writes of a commit or a recovery go on, and a call ends as long
  as it does not wait for a lock: weak fairness of the writes, `BeginOp` and
  `CommitEnd`, strong fairness of `EndOp` and of `FileAlloc`, which takes
  `ftable.lock` when it is free again and again. It is not assumed that
  `fileclose` gives that lock back: while it sleeps in `begin_op`, a call that
  wants the lock does not end.
- The card answers a request and its interrupt is taken (`sd`): the idle
  processes run user code. A card that fails a request does not fail it for ever
  (strong fairness of `Finish`).
- The UART has no more characters at some point (`console`): its FIFO is
  drained faster than anyone types. A lock that is free again and again is
  acquired, as above. The deadlock of `procdump` (section 4) is assumed away in
  `InputWakesReader`.
- The driver goes on (`sd_init`): one CPU runs it with nothing else. Nothing is
  assumed of the card; every wait of the driver has a count.

No fairness of `fork`, `exit`, system calls, keys or new requests is assumed.

## 4. Divergences without a run

Seen while modelling. Those that name a property can be reproduced by changing
the constants of a run or by checking the property with its configuration.

Processes:

- `proc.c:214`, "Must hold only ptable.lock": `fileclose` (`file.c:66-88`) holds
  `ftable.lock` while `begin_op`, `iput` and `end_op` sleep. Woken on another
  CPU it panics in `release` (`spinlock.c:39`), which compares `lk->cpu`; and
  another process that wants the lock on the CPU that the closer has left panics
  in `acquire` (`spinlock.c:27`), which takes it for its own. `NoPanic` says of
  a kept lock only that it is on its process's CPU until the process has slept;
  without `~slept[p]` it fails with the constants of `proc_safety`.
- `proc.c:77-80`: when `kalloc` gives no kernel stack, `proc_alloc` returns 0
  with `ptable.lock` held, and `fork` returns to user code with it
  (`ForkNoStack`). The CPU panics at its next `acquire`, the others spin.
  `NoPanic` says that this stops no CPU by a panic but the one it happens on
  (`leaker`); without that exception it fails with `KstackMayFail = TRUE`.
- `proc.c:160`: every `user_idle_init` overwrites `initproc`; `exit` hands
  orphans to an idle process, which never waits, and they stay zombies.
- `pgdir_init` panics instead of returning 0, so that the tests for 0 in `fork`
  and `execve` are dead; `iinit` is never called, which does no harm as long as
  `icache` is zero.

Disk, buffers and log:

- `sd.c:668-669`: `sdrw` tests and extends the queue outside of `sdlock`. When
  two are at the queue at once (`raced`), requests are lost or credited to the
  other: `QueueInStep` and `SdrwReturns` fail in run `sd` without their
  condition `~raced`, and so does `SdrwSyncs` when requests go on after that
  (`GoOn = TRUE`). What holds also then is `CardWritesRequest`.
- `sd.c:682`: `sdrw` sleeps before it looks at the flags. A request that was
  queued behind another one may be done before its `sdrw` has `sdlock`; then
  nobody wakes it (`pc[p] = "overslept"`), without two having been at the queue
  at once.
- `bio.c:91`: `bget` recycles a buffer that another process holds or waits for
  (`torn`). Without the condition `~torn[b]`, `BreadReturnsItsBlock` and
  `OnlyOwnerChanges` fail in run `bio`; `OneBufferPerBlock` holds.
- `fs.h:14`: the cache has as many buffers as the log pins, `NBUF = LOGSIZE`.
  When a transaction pins `NBUF` buffers, `bget` finds none for the log block
  that `write_log` reads, and panics: run `bio` reaches `BgetPanics`.
- `log.c:224`: `mkfs` gives the log `LOGSIZE` blocks (`mkfs/main.c:30`), the
  first of which is the header; the last block of a transaction of `LOGSIZE`
  blocks is written one block behind the log, over the first block of inodes. In
  `log` this is `First`, and such a transaction is `spoilt`: it loses what
  `First` held, or, when the last block is `First` itself, waits for the lock of
  a buffer that the commit holds (`~Apart`).
- `file.c:145`: `filewrite` writes up to 13 data blocks and their metadata in
  one call; `begin_op` reserves `MAXOPBLOCKS = 10`. Several such calls overrun
  `log.lh.block` (`log.c:264-274`): run `log` reaches `Overrun`, and `LogFits`
  says that nothing else leads there; it fails without `exceeded`. Of
  `CreateFits` a form for all calls fails.
- `file.c:78`: `fileclose` waits in `begin_op` with `ftable.lock` held, while a
  call that it waits for spins for that lock in `filealloc`, and never ends.
  `SleeperWakes` of `log` has this as an exception (`Wedged`), and fails without
  it.
- `sd.c:630`: `sd_intr` tests a constant for a read (`!write && INT_READ_RDY`,
  not the flag), so that a read that has failed is taken for done: the buffer
  becomes valid with what was in the data register (`failed`). `SdrwSyncs` fails
  without this exception. An interrupt with neither of the expected flags
  panics.
- `sd.c:540`, `sd.c:547`: `sd_init` ignores the results of its waits for the first
  block. When such a wait gives up early, the flag comes later and trips the
  assertion of the first `sd_start` (`sd.c:579`): `ReadyForRequests` is about an
  `sd_init` whose waits succeed, and fails without its condition `~late`. The
  `DATA_DONE` of the SCR may stay pending in the same way.
- `sdWaitForCommand` leaves an error flag where it found it, so that later
  commands end with `SD_BUSY`; a flag that comes with the last count is taken
  for a timeout. `sdInit` "Returns zero if initialization was successful" and
  returns `SD_CARD_CHANGED` in that case; `sd_init` only looks at `sdCard.init`.

File system:

- `filewrite` past the largest file panics, after `iunlock` and `end_op`, since
  `writei` refuses it and `filewrite` panics on a negative count; so does
  `openat` without a free descriptor, with `ftable.lock` held, since it closes a
  file whose type is still `FD_NONE`.
- `fs.c:94`: `balloc` returns -1 on a full disk, `bmap` stores it as an address
  (`fs.c:447`), `bget` adds the first sector of the file system to it
  (`bio.c:113`), and `iupdate` commits it. Files and directories that grow on a
  full disk share the sector in front of the file system, and whoever writes
  there overwrites the entries of the others. In `fs` the address is `Off`:
  `CommittedSound` gives up the tree and the link counts once a directory has it
  (`Overfull`), and fails without that exception; the bitmap, the references and
  the cache stay exact. For an indirect block of -1 the model ends.
- `mkfs` rounds the size of the root up: a root with a multiple of 32 entries
  gets a hole, which `bmap` fills while reading, without `iupdate`.
- `exit` puts its directory, and `execve` looks its path up, outside of a
  transaction.
- No system call removes a link: `itrunc`, `bfree` and the branch of `iput` that
  frees an inode cannot be reached (`InodesStayLinked` checks it).

Memory:

- `vm_free` with level 0 loses the tables of the last level; with level 1 (`wait`,
  `execve`) also the tables before it and the pages (run `memory_leak`).
- `copyuvm`'s error path gives back its directory without the page it copied;
  `allocuvm` ignores that `map_region` fails and leaves a page below `p->sz`
  unmapped; `deallocuvm` skips too far after a missing table: `vm.c:264` says
  "round it up to the next page directory", but the loop adds a page of its own,
  and the first page of the next table stays mapped above `p->sz`.
  `ShrinkGivesBack` fails with the constants of run `memory`; `ImageExact` says
  after what (`mishap`), and that no other pages stay.
- `brk` to 0 frees the pages and leaves `p->sz`; the next `fork` panics.
  A negative `brk` beyond the size does nothing.
- `exec.c:81` places arguments at `sp - strlen + 1`, overlapping by two;
  arguments longer than a page go on to the guard page, whose mapping the kernel
  may write; `execve` changes the trap frame before it can still fail.
- `uva2ka` follows a missing table through a null pointer; `loaduvm` writes to
  physical address 0 for a page that is a hole.

Console:

- `proc.c:477`: `procdump` takes `ptable.lock` and then, in `cprintf`, `conslock`;
  a reader in `sleep` and the handler in `wakeup` take them in the other order.
  `NoLockCycle` fails, and two CPUs wait for each other.

## 5. The proofs

All are checked by TLAPS to the last leaf, from the named assumptions on the
constants (`ProcAssumption`, `LogAssumption`, …; they say that counts are
natural numbers, that at least one idle process fits, that the model value `Nil`
is no member of the sets, that `MAXOPBLOCKS <= LOGSIZE` and the log has a
header, in `FsAssumption` that `filewrite`'s pieces are not empty, `LOGSIZE >=
6`). `ProgramsFit` assumes of the files given to `mkfs` that the disk it makes
of them is `Readable`: a directory or a disk that is too small for them would
show when `mkfs` runs, not in the kernel. Two theorems need more and say so in
their statement:

| hypothesis | theorems | in the code |
|---|---|---|
| `IsFiniteSet(CPU)` | `ProcProofs.ProcIsTable` | `NCPU` is 4 |
| `DPB >= 2`, `MAXOPBLOCKS >= 6` | `FsProofs.CreateLogsSix` | 32 entries to a block, `MAXOPBLOCKS` is 10 (`fs.h`) |

None assumes that the code behaves: no theorem has a hypothesis about a
behaviour. What the code gets wrong (section 4) are steps of the models, and the
properties say how far they reach.

- `ProcProofs`. `TableInvariant` proves the inductive invariant `TableInv`.
  `TypeOK` and the properties are not inductive: what makes them so is the
  relation between a process's `pc`, its `state`, and who holds `ptable.lock`.
  `TableInv` says, in named parts, which CPU may be where while the lock is
  taken, that a process at a `LockedPC` on a CPU is on the lock's holder, that a
  process that is on no CPU is at the place its `state` allows, that slots under
  construction by `fork` belong to one parent, and the stack and parent
  relations. `FreeInv` says that `ptable.lock` is on no other CPU than its code,
  but for the one CPU whose `proc_alloc` has kept it, and that this code is then
  outside of all that needs it; `KeepInv` that a kept lock has one process, in
  kernel code and, until it sleeps, on the CPU in `lk->cpu`. From it follow
  `TypeCorrect`, `OneCpu`, `StacksOwned`, `NoExitMissed`, `ParentsAlive`,
  `PanicFree` and `WakeupComplete`, which is an action property. `ProcIsTable`
  is the refinement: under the mapping of `ProcRefines` each step of `Proc` is a
  step of `ProcTable` or a stutter. Besides `TableInv` it needs `EmbryoInv` (a
  slot that `fork` is filling is the child of that `fork`) and `WakingInv` (a
  `wakeup` is for a channel); that no more processes run than there are CPUs is
  an injection of the running processes into the CPUs. The same module proves
  `SleepLockInvariant` of `SleepLock`, whose definitions have names of their own
  for this. The invariant ties `spin` to the places inside the spin lock and
  `locked`/`pid` to the one holder. A sleeper exists only with a holder or with
  a waker between clearing `locked` and `wakeup`. `SleepLockTyped`,
  `SleepLockExcludes`, `NoLostWakeup` and the action property `HoldingExact`
  follow.
- `SdProofs`. `TypeCorrect`, and `WritesOwnBlock`: even with the races of the
  queue a write by the card is of a dirty buffer's own contents to its own
  block, since a buffer's data does not change while its requester waits.
  `StepInvariant` is about the queue, for any number of requesters, as long as
  no two have met at it. The `qnext` pointers are broken for a moment in every
  `sdrw` and every `sd_intr`, so `StepInv` is in parts that say where:
  `ListInv`, each link is to a request that is pending and no two are to the
  same one, whatever their number; `PopInv`, where the handler is between the
  two accesses of `list_pop_front`; `CardInv`, the card works for the head of
  the list, or somebody is about to start it; `Stage` and `Pushing`, how far the
  request of each process has come. From them follow `QueueKeepsStep`, also when
  requests fail and are started again, and the action property `ReturnsInSync`.
- `SdInitProofs`. `InitInvariant`, for every number of retries: `PointInv` (which
  commands belong to which point of `sdInit`, and what the descriptor holds
  there), `AnswerInv` (what is in the registers answers the command in
  progress), `OcrInv`, `BusInv` (what a good answer says that the card has done:
  its width, its address, its state) and `BlockInv` (how far a block has come
  into the data register, and the flags that say so). `DescriptorAgrees` and
  `StartsAtRest` follow. The last has the condition `~late` of the property: it is
  about an `sd_init` none of whose waits has failed.
- `BioProofs`. `OneBuffer`: `bget` searches the whole list and recycles under
  `bcache.lock`, so two buffers never have the same block, for any number of
  processes, also with the recycling of section 4. `TypeCorrect` as well.
  `CacheInvariant` is for any number of processes that take buffers from each
  other. `RefInv` holds of all buffers: who has one has its sleep lock, and a
  dirty buffer stays that of the block which is being written. `CopyInv` is
  about those that are not `torn`: a valid and clean buffer is its block, who
  has it asked for its block, and a transfer is of that block. What needs an
  argument is that the loss stays with the buffer: a buffer becomes whole again
  when it is recycled without a user, and a process that still has a torn one
  cannot harm another block, since a dirty buffer is not recycled and the read
  of a clean one does not touch the disk. `BreadCorrect` and the action property
  `CacheTransparent` follow: what `bread` would return for a block changes only
  when its holder writes it, and not by recycling, reading or writing back.
- `LogProofs`. `OpsInvariant` (`outstanding` counts the calls, `committing` is
  set exactly while one process commits, the phases match), then
  `NobodyStranded`, `CommitsAlone`. `ReservationSuffices` needs `SpaceInv`:
  while no call has written more than begin_op reserves, `Len(lh)` plus the
  blocks that the calls in progress may still write (`Pending`, a set whose
  cardinality falls by one where `lh` grows by one) is at most `LOGSIZE`. With
  it and `DataInv`, `TypeCorrect`: the loops of a commit stay inside
  `log.lh.block`, up to the overrun at which the model stops. `LogIsAtomic` is
  the refinement: what a recovery would restore from the disk is the value of
  `AtomicDisk`. `CopyInv` says, while nothing is `spoilt`, how far the loop of
  each phase has come: up to `tail` the log holds what the cache holds, or home
  what the log holds; a block that is not recorded is the same at home and in
  the cache; what is committed has fewer than `LOGSIZE` blocks. So the write of
  the header is the one step that changes what is recoverable, and each other
  write, each crash between two of them, and a recovery that crashes itself,
  changes nothing. The one write that spoils, of the last of `LOGSIZE` blocks,
  and the one `log_write` that overruns, are shown to come in a transaction that
  has changed more than `Room` blocks, from where on `AtomicDisk` promises
  nothing.
- `ConsoleProofs`. `ConsoleInvariant`: `conslock` is held by exactly the reader
  or the handler whose place is inside it, and a reader on its way to sleep
  still has `r = w`, since it has kept the lock since it looked. From it
  `InputFound`: no reader sleeps while there is input for it, and a full ring
  can be read. Ctrl-U walks `e` back to the last line end; that this place
  exists and lies between `w` and `e` rests on the least element of a set of
  naturals (`WellFoundedInduction`). `ConsoleIsQueue` is the refinement: the
  complete lines of `ConsoleQueue` are the ring from `r` to `w`, the line being
  typed is the ring from `w` to `e` (`Piece`, whose lemmas say what storing at
  `e`, moving `w`, and reading at `r` do to the two pieces however the ring
  wraps), and `OneLine` says that the second has no line end in it.

- `FsProofs`. `FsInvariant` proves `FsInv`, for any number of processes, open
  files, inodes, blocks and paths of any length. `ReferencesExact` and
  `CacheIsDisk` are about the values at one moment, and a step in the middle of
  a call changes them rightly only if the call is where it should be; so `FsInv`
  has, in parts that need each other: `Healthy`, the file system in memory is
  readable (an entry of a directory names an inode with a link, a file has no
  holes below its size, where the address -1 is no hole and the entries in the
  sector that it leads to count as any others) and what is cached of an inode is
  what is on disk; `CallOK`, what each place of a call has found (`create`
  between `ialloc` and its last `dirlink` has an inode without links that nobody
  else can find, `FillsApart`); `LockOK`, who has which inode locked; `DescOK`
  and `FileOK`, which descriptors name a file whose type `sys_openat` has yet to
  set, and that a file without references but with a type is in the hands of the
  `fileclose` that has `ftable.lock`; `OpsOK`, who is between `begin_op` and
  `end_op`. These hold until a panic, after which no process moves; types,
  `MemInv`, the counts of files and `OffsetUnderLock` also after it. A crash
  keeps the invariant since it starts from what the log has committed, which is
  readable (`StartedInv`). From it follow `WritesFollow` (the holder of the
  inode's lock is the only one who writes or advances the offset),
  `CacheWritesThrough` and `ReferencesCounted`: `Uses` is a sum of five
  cardinalities, and each step is shown to move one process from one to another
  (`HeldIs`) or to add or drop one. Below the steps lie lemmas for each function
  of `Inode`. `writei` is a fold over blocks: `WriteiSteps` shows that the fold
  is a chain of `WriteBlock` steps, from the least and greatest element of a set
  of naturals, so that `WriteiEffect` can be proved up the chain (`UpTo`).
  `CreateLogsSix` adds `CreateInv`: a call that makes an inode has logged
  nothing until `ialloc`, one block after it, and six in all: two blocks of
  inodes, the bitmap, the first block of a new directory, and in the parent a
  block and an indirect block. This is an upper bound; in run `fs`, in which no
  directory grows into its indirect block, five are enough.
- `MemoryProofs`. `MemoryInvariant` proves `IInv`, for any number of processes
  and pages, any number of entries in a table, any page size, programs and
  arguments of `brk`. `MemoryAssumption` asks for the six pages of `user_init`
  and that four levels of tables cover `UADDR_SZ` (here `512^4 * PGSIZE` against
  `2^28`). That a page is in one place does not follow from where it is now: a
  table linked twice would be freed twice later. `Forest(h, R, K, L)` says which
  shape makes it last: the pages `L` in use for address spaces, without the
  roots `R`, are each entered in at most one slot of one page of `L`; free
  pages, kernel stacks `K` and page 0 hold no entries. `Woods` hides `L`, which
  grows by what `vm_free` and `fork` lose (section 4): those pages stay a part
  of the forest that no root reaches. Each function of `vm.c` has a lemma that
  says that it keeps the forest and what it does to the view of every page
  directory (`SameView` for the others): `pgdir_walk` one level at a time
  (`Enter`), `map_region`, `clearpteu`, `deallocuvm`, `vm_free` with either
  level. That two pages of an address space have two entries rests on `PTX`: the
  four indices and their order give the page number back (`BlockParts` and what
  follows it), for any size of the tables. The parts of `IInv` above the forest:
  `Apart` and `StacksApart` (no two processes have a page directory, also one
  under construction, or a kernel stack in common), `Reserved` (the slot that
  `fork` fills is one parent's alone) and `Own(p)`, which says of each place in
  `brk`, `fork` and `execve` what has been mapped so far, in the old image and
  in the new, and how much of it is closed to the user. `PagesAreApart` follows
  by counting the entries of a forest (`OnePlace` counts pages), `GuardsKept`
  from `Own`. `Own` describes an image with its `holes` and `stale` pages,
  history that the code's own operators compute, so that it would describe any.
  What `ImageExact` claims does not mention them: that there are none without a
  `mishap`, and that what stays above `p->sz` begins a table, is `JInv`, proved
  beside `IInv` action by action (`LapsesHaveCauses`). It rests on two facts
  about the functions: `map_region` fails only on an empty free list, and
  `deallocuvm`, over an image that lacks no table below its size, visits every
  page above the new one.

Only model-checked: all liveness (the prover has no fairness reasoning for it),
and of `Fs` `CommittedSound`, which needs that the directories are a tree and that
the counts of links and the bitmap are exact, sums over the whole disk, where
`FsInv` has only what a call relies on.

## 6. Abstractions

- Memory is sequentially consistent; `acquire`/`release` are atomic and ordered
  as the acquire/release accesses of `spinlock.c` are meant to make them.
- pids are slots: `alloc_pid` never reuses one, and no property compares an old
  pid with a new one.
- A block's contents is one of two values in `Sd`, `Bio` and `Log`; a block is one
  sector.
- A panic is a state without a step for that CPU (`Proc`, `Sd`) or for the
  system (`Bio`, `Fs`, `Memory`, `SdInit`). `NoPanic` says which ways lead to
  one in `Proc`; `heap.ok` in the types of `Memory`, that no page is freed twice
  or mapped over another. In `Fs` a call that panics goes to the place `"panic"`
  and leaves `fs` as it is; the properties are about the states before that.
- `Bio`: a process holds one buffer in the run, as most callers do; the proofs
  are for any number.
- `Fs`: sizes and offsets count directory entries; files hold zeroes, and
  `O_WRONLY` is left out; the model ends where an indirect block would have the
  address -1 and where a commit of `LOGSIZE` blocks would begin; what a process
  does under one sleep lock is one step, as is a directory lookup; the log is
  `AtomicDisk`, without the races of `Bio` and `Sd`. `exec` is its `namei` only.
- `Memory`: an allocation gives any free page; giving back an address space is one
  step, since nobody else can reach it; one page of `allocuvm` and of `copyuvm` is
  a step.
- `SdInit`: an answer is reduced to what the driver looks at; a garbled answer
  is one that fails its CRC, so the answer with the OCR, which has none, is not
  garbled; a wait may give up at any time; the `DATA_DONE` at the end of the
  busy state after `CARD_SELECT` is left out, as are the divider of the clock
  and the card's identification.
- Page tables, trap frames, names and files copied by `fork` are left out of
  `Proc`; failure of `pgdir_init`/`copyuvm` in `fork` is `ForkNoCopy`.

### Not modelled

- Boot (`main.c`, `entry.S`): the order of initialisation is the initial state
  of the modules. The first CPU clears BSS while the others wait for a lock;
  flags and lock lie in `.data` because of `-fno-zero-initialized-in-bss`
  (`Makefile:35`), and there is no state to check.
- `kpgdir.c`, a constant table, and the map of the devices that `pgdir_init`
  makes.
- Registers of the mailbox, timer, clock, UART and GPIO; saving and restoring of
  registers on traps.
- `syscall.c`: a table, and checks against `p->sz` whose meaning is `ImageExact`.
- Console output and formatting (`cprintf`, `vprintfmt`, `console_write`).
- User programs and `fs_test.c`: sequential code above the system calls.

## 7. What is left

Of `Fs`, a proof of `CommittedSound`: `FsInv` with `Sound` of the file system in
memory between two operations, and what an operation that is under way has added
to it.
