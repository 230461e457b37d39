-------------------------------- MODULE Proc --------------------------------
(***************************************************************************)
(* kern/proc.c: the process table, the per-CPU scheduler, the context      *)
(* switch, sleep and wakeup, yield, fork, exit and wait, with the spin     *)
(* lock ptable.lock (kern/spinlock.c) that is handed over across swtch.    *)
(*                                                                         *)
(* The kernel runs with interrupts masked, so the code of one CPU is       *)
(* sequential between two spin lock operations; the CPUs interleave.  A    *)
(* step is the code between two such operations (fork touches its own      *)
(* EMBRYO slot without the lock: those writes are steps of their own).     *)
(*                                                                         *)
(* Slot 1 is the process of user_init, slots 2 .. 1 + NIDLE those of       *)
(* user_idle_init.  A process is named by its slot; pids, which alloc_pid  *)
(* never reuses, are left out.  Kernel code outside this file is any code  *)
(* that takes spin locks and calls sleep and wakeup: one lock at a time,   *)
(* but for fileclose, which keeps ftable.lock while it takes, sleeps with  *)
(* and releases others.                                                    *)
(*                                                                         *)
(* A panic() is no action: a CPU at a failing check has no next step, and  *)
(* NoPanic says how a CPU can get there.                                   *)
(***************************************************************************)
EXTENDS Naturals, FiniteSets

CONSTANTS
    CPU,            \* the processors that run scheduler() (NCPU)
    NPROC,          \* slots of the process table
    NIDLE,          \* idle processes made by main()
    Lock,           \* spin locks that other kernel code passes to sleep()
    Kept,           \* spin locks that are kept while others are taken
    Chan,           \* channels that other kernel code sleeps on
    KstackMayFail,  \* whether kalloc() may return NULL to proc_alloc()
    Nil             \* no CPU, no process, no channel, no lock

Slot     == 1 .. NPROC
Idle     == 2 .. 1 + NIDLE
InitProc == 1 + NIDLE           \* user_idle_init overwrites initproc

ASSUME ProcAssumption ==
    /\ NPROC \in Nat /\ NIDLE \in Nat \ {0} /\ 1 + NIDLE <= NPROC
    /\ KstackMayFail \in BOOLEAN
    /\ Nil \notin CPU /\ Nil \notin Slot /\ Nil \notin Lock /\ Nil \notin Chan
    /\ Nil \notin Kept
    /\ Chan \cap Slot = {}

VARIABLES
    lock,    \* ptable.lock: the CPU in lk->cpu, Nil when it is free
    cur,     \* cpus[c].proc: the process whose kernel stack or user code c runs
    scan,    \* the scheduler's loop variable on c; 0 before acquire
    state,   \* proc.state
    parent,  \* proc.parent
    chan,    \* proc.chan
    kstack,  \* whether proc.kstack is an allocated page
    pc,      \* where the kernel code of the process is, "user" outside it
    np,      \* fork's local np
    arg,     \* the parameters of sleep(chan, lk) and wakeup(chan)
    lkcpu,   \* lk->cpu of the other spin locks
    keepcpu, \* lk->cpu of the locks of Kept
    keeps,   \* the lock of Kept that the code of the process has taken
    slept,   \* history: whether it has slept since
    leaker   \* history: the CPU on which proc_alloc kept ptable.lock

keep == <<keepcpu, keeps, slept, leaker>>
vars == <<lock, cur, scan, state, parent, chan, kstack, pc, np, arg, lkcpu, keep>>

State == {"UNUSED", "EMBRYO", "SLEEPING", "RUNNABLE", "RUNNING", "ZOMBIE"}

(* Where a process waits for ptable.lock. *)
AcquirePC == {"yield", "fork", "wait", "exit", "sleep", "wakeup"}
(* The code that runs with ptable.lock held: the bodies after acquire, the *)
(* calls of sched, and the places where swtch comes back to.               *)
BodyPC   == {"yieldL", "forkL", "waitL", "exitL", "sleepL", "sleepM", "wakeupL"}
SchedPC  == {"yieldW", "exitW", "waitW", "sleepW"}
ResumePC == {"forkret", "yielded", "waitS", "sleepS"}
LockedPC == BodyPC \cup SchedPC \cup ResumePC
ForkPC   == {"copy", "start"}
PC == {"user", "kernel", "reacq", "dead"} \cup AcquirePC \cup LockedPC \cup ForkPC

NoArg == [lk |-> Nil, chan |-> Nil]

TypeOK ==
    /\ lock \in CPU \cup {Nil}
    /\ cur \in [CPU -> Slot \cup {Nil}]
    /\ scan \in [CPU -> 0 .. NPROC + 1]
    /\ state \in [Slot -> State]
    /\ parent \in [Slot -> Slot \cup {Nil}]
    /\ chan \in [Slot -> Slot \cup Chan \cup {Nil}]
    /\ kstack \in [Slot -> BOOLEAN]
    /\ pc \in [Slot -> PC]
    /\ np \in [Slot -> Slot \cup {Nil}]
    /\ arg \in [Slot -> [lk : Lock \cup {Nil}, chan : Chan \cup {Nil}]]
    /\ lkcpu \in [Lock -> CPU \cup {Nil}]
    /\ keepcpu \in [Kept -> CPU \cup {Nil}]
    /\ keeps \in [Slot -> Kept \cup {Nil}]
    /\ slept \in [Slot -> BOOLEAN]
    /\ leaker \in CPU \cup {Nil}

(* The state main() leaves to the schedulers. *)
Init ==
    /\ lock = Nil
    /\ cur = [c \in CPU |-> Nil]
    /\ scan = [c \in CPU |-> 0]
    /\ state = [p \in Slot |-> IF p <= 1 + NIDLE THEN "RUNNABLE" ELSE "UNUSED"]
    /\ parent = [p \in Slot |-> Nil]
    /\ chan = [p \in Slot |-> Nil]
    /\ kstack = [p \in Slot |-> p <= 1 + NIDLE]
    /\ pc = [p \in Slot |-> IF p <= 1 + NIDLE THEN "forkret" ELSE "dead"]
    /\ np = [p \in Slot |-> Nil]
    /\ arg = [p \in Slot |-> NoArg]
    /\ lkcpu = [l \in Lock |-> Nil]
    /\ keepcpu = [l \in Kept |-> Nil]
    /\ keeps = [p \in Slot |-> Nil]
    /\ slept = [p \in Slot |-> FALSE]
    /\ leaker = Nil

-----------------------------------------------------------------------------
(* The scheduler of CPU c. *)

Goto(p, l) == pc' = [pc EXCEPT ![p] = l]

SchedAcquire(c) ==
    /\ cur[c] = Nil /\ scan[c] = 0
    /\ lock = Nil
    /\ lock' = c
    /\ scan' = [scan EXCEPT ![c] = 1]
    /\ UNCHANGED <<keep, cur, state, parent, chan, kstack, pc, np, arg, lkcpu>>

SchedSkip(c) ==
    /\ cur[c] = Nil /\ scan[c] \in Slot
    /\ state[scan[c]] # "RUNNABLE"
    /\ scan' = [scan EXCEPT ![c] = @ + 1]
    /\ UNCHANGED <<keep, lock, cur, state, parent, chan, kstack, pc, np, arg, lkcpu>>

SchedRun(c) ==
    /\ cur[c] = Nil /\ scan[c] \in Slot
    /\ state[scan[c]] = "RUNNABLE"
    /\ cur' = [cur EXCEPT ![c] = scan[c]]
    /\ state' = [state EXCEPT ![scan[c]] = "RUNNING"]
    /\ UNCHANGED <<keep, lock, scan, parent, chan, kstack, pc, np, arg, lkcpu>>

SchedRelease(c) ==
    /\ cur[c] = Nil /\ scan[c] = NPROC + 1
    /\ lock = c
    /\ lock' = Nil
    /\ scan' = [scan EXCEPT ![c] = 0]
    /\ UNCHANGED <<keep, cur, state, parent, chan, kstack, pc, np, arg, lkcpu>>

-----------------------------------------------------------------------------
(* The process p that c runs: c is executing p's code at label l. *)
At(c, p, l) == cur[c] = p /\ pc[p] = l

(* The timer interrupts user code: interrupt() calls yield(). *)
TimerIRQ(c, p) ==
    /\ At(c, p, "user")
    /\ Goto(p, "yield")
    /\ UNCHANGED <<keep, lock, cur, scan, state, parent, chan, kstack, np, arg, lkcpu>>

(* A device interrupts user code: its handler is other kernel code. *)
DeviceIRQ(c, p) ==
    /\ At(c, p, "user")
    /\ Goto(p, "kernel")
    /\ UNCHANGED <<keep, lock, cur, scan, state, parent, chan, kstack, np, arg, lkcpu>>

(* A system call; an idle process only loops. *)
Syscall(c, p) ==
    /\ At(c, p, "user") /\ p \notin Idle
    /\ \E l \in {"yield", "kernel", "fork", "wait", "exit"} : Goto(p, l)
    /\ UNCHANGED <<keep, lock, cur, scan, state, parent, chan, kstack, np, arg, lkcpu>>

(* The code after acquire(&ptable.lock), by the place of the call. *)
Entry == {<<"yield", "yieldL">>, <<"fork", "forkL">>, <<"wait", "waitL">>,
          <<"exit", "exitL">>, <<"sleep", "sleepL">>, <<"wakeup", "wakeupL">>}

(* acquire(&ptable.lock): spins while the lock is taken. *)
Acquire(c, p) ==
    /\ cur[c] = p /\ pc[p] \in AcquirePC
    /\ lock = Nil
    /\ lock' = c
    /\ \E e \in Entry : pc[p] = e[1] /\ Goto(p, e[2])
    /\ UNCHANGED <<keep, cur, scan, state, parent, chan, kstack, np, arg, lkcpu>>

(* release(&ptable.lock) at label l, then on to label m. *)
Release(c, p, m) ==
    /\ lock = c
    /\ lock' = Nil
    /\ Goto(p, m)

(* Where the saved context goes on, by the place of the call of sched. *)
Saved == {<<"yieldW", "yielded">>, <<"exitW", "dead">>,
          <<"waitW", "waitS">>, <<"sleepW", "sleepS">>}

(* Sched, with a scheduler that begins again at the first slot. *)
SchedFromFirst(c, p) ==
    /\ cur[c] = p /\ pc[p] \in SchedPC
    /\ lock = c /\ state[p] # "RUNNING"
    /\ cur' = [cur EXCEPT ![c] = Nil]
    /\ scan' = [scan EXCEPT ![c] = 1]
    /\ \E e \in Saved : pc[p] = e[1] /\ Goto(p, e[2])
    /\ UNCHANGED <<keep, lock, state, parent, chan, kstack, np, arg, lkcpu>>

(* sched(): swtch saves the context of p and returns to the scheduler of   *)
(* c, which clears c->proc and goes on with the next slot.  ptable.lock    *)
(* stays with c.                                                           *)
Sched(c, p) ==
    /\ cur[c] = p /\ pc[p] \in SchedPC
    /\ lock = c /\ state[p] # "RUNNING"
    /\ cur' = [cur EXCEPT ![c] = Nil]
    /\ scan' = [scan EXCEPT ![c] = @ + 1]
    /\ \E e \in Saved : pc[p] = e[1] /\ Goto(p, e[2])
    /\ UNCHANGED <<keep, lock, state, parent, chan, kstack, np, arg, lkcpu>>

(* Yield, releasing ptable.lock before sched. *)
YieldReleases(c, p) ==
    /\ At(c, p, "yieldL")
    /\ state' = [state EXCEPT ![p] = "RUNNABLE"]
    /\ lock' = Nil
    /\ Goto(p, "yieldW")
    /\ UNCHANGED <<keep, cur, scan, parent, chan, kstack, np, arg, lkcpu>>

Yield(c, p) ==
    /\ At(c, p, "yieldL")
    /\ state' = [state EXCEPT ![p] = "RUNNABLE"]
    /\ Goto(p, "yieldW")
    /\ UNCHANGED <<keep, lock, cur, scan, parent, chan, kstack, np, arg, lkcpu>>

(* ReturnToUser, without release. *)
ReturnHoldsLock(c, p) ==
    /\ cur[c] = p /\ pc[p] \in {"yielded", "forkret"}
    /\ lock = c
    /\ Goto(p, "user")
    /\ UNCHANGED <<keep, lock, cur, scan, state, parent, chan, kstack, np, arg, lkcpu>>

(* The end of yield, and of forkret, where a new process starts.  What the *)
(* first process then does in the kernel (initlog) is its first Syscall.   *)
ReturnToUser(c, p) ==
    /\ cur[c] = p /\ pc[p] \in {"yielded", "forkret"}
    /\ Release(c, p, "user")
    /\ UNCHANGED <<keep, cur, scan, state, parent, chan, kstack, np, arg, lkcpu>>

-----------------------------------------------------------------------------
(* fork *)

First(S) == {q \in S : \A r \in S : q <= r}
Unused == {q \in Slot : state[q] = "UNUSED"}

(* proc_alloc finds no slot: fork returns -1. *)
ForkNoSlot(c, p) ==
    /\ At(c, p, "forkL")
    /\ Unused = {}
    /\ Release(c, p, "user")
    /\ UNCHANGED <<keep, cur, scan, state, parent, chan, kstack, np, arg, lkcpu>>

(* ForkNoStack, with the slot marked EMBRYO before kalloc. *)
ForkNoStackEmbryo(c, p) ==
    /\ KstackMayFail
    /\ At(c, p, "forkL")
    /\ \E q \in First(Unused) : state' = [state EXCEPT ![q] = "EMBRYO"]
    /\ Goto(p, "user")
    /\ leaker' = c
    /\ UNCHANGED <<keepcpu, keeps, slept, lock, cur, scan, parent, chan, kstack, np, arg, lkcpu>>

(* kalloc gives proc_alloc no page: it returns 0 without release. *)
ForkNoStack(c, p) ==
    /\ KstackMayFail
    /\ At(c, p, "forkL")
    /\ Unused # {}
    /\ Goto(p, "user")
    /\ leaker' = c
    /\ UNCHANGED <<keepcpu, keeps, slept, lock, cur, scan, state, parent, chan, kstack, np, arg, lkcpu>>

(* proc_alloc succeeds: a kernel stack whose context starts at forkret. *)
ForkAlloc(c, p) ==
    /\ At(c, p, "forkL")
    /\ \E q \in First(Unused) :
          /\ state' = [state EXCEPT ![q] = "EMBRYO"]
          /\ kstack' = [kstack EXCEPT ![q] = TRUE]
          /\ np' = [np EXCEPT ![p] = q]
          /\ pc' = [pc EXCEPT ![q] = "forkret", ![p] = "copy"]
    /\ lock = c /\ lock' = Nil
    /\ UNCHANGED <<keep, cur, scan, parent, chan, arg, lkcpu>>

(* copyuvm fails: the slot is given back, without the lock. *)
ForkNoCopy(c, p) ==
    /\ At(c, p, "copy")
    /\ state' = [state EXCEPT ![np[p]] = "UNUSED"]
    /\ kstack' = [kstack EXCEPT ![np[p]] = FALSE]
    /\ np' = [np EXCEPT ![p] = Nil]
    /\ Goto(p, "user")
    /\ UNCHANGED <<keep, lock, cur, scan, parent, chan, arg, lkcpu>>

ForkCopy(c, p) ==
    /\ At(c, p, "copy")
    /\ parent' = [parent EXCEPT ![np[p]] = p]
    /\ Goto(p, "start")
    /\ UNCHANGED <<keep, lock, cur, scan, state, chan, kstack, np, arg, lkcpu>>

(* np->state = RUNNABLE, without the lock: any CPU may now run the child. *)
ForkStart(c, p) ==
    /\ At(c, p, "start")
    /\ state' = [state EXCEPT ![np[p]] = "RUNNABLE"]
    /\ np' = [np EXCEPT ![p] = Nil]
    /\ Goto(p, "user")
    /\ UNCHANGED <<keep, lock, cur, scan, parent, chan, kstack, arg, lkcpu>>

-----------------------------------------------------------------------------
(* exit and wait *)

Children(p) == {q \in Slot : parent[q] = p}
Zombies(p)  == {q \in Children(p) : state[q] = "ZOMBIE"}

(* wakeup_withlock applied to a state table s, for every channel in C. *)
Woken(s, C) == [q \in Slot |-> IF s[q] = "SLEEPING" /\ chan[q] \in C
                               THEN "RUNNABLE" ELSE s[q]]

(* Exit, without the wakeup of the parent. *)
ExitWakesNobody(c, p) ==
    /\ At(c, p, "exitL")
    /\ state' = [state EXCEPT ![p] = "ZOMBIE"]
    /\ parent' = [q \in Slot |-> IF q \in Children(p) THEN InitProc ELSE parent[q]]
    /\ Goto(p, "exitW")
    /\ UNCHANGED <<keep, lock, cur, scan, chan, kstack, np, arg, lkcpu>>

(* Exit, leaving the children with their parent. *)
ExitKeepsChildren(c, p) ==
    /\ At(c, p, "exitL")
    /\ state' = [Woken(state, {parent[p]}) EXCEPT ![p] = "ZOMBIE"]
    /\ Goto(p, "exitW")
    /\ UNCHANGED <<keep, lock, cur, scan, parent, chan, kstack, np, arg, lkcpu>>

(* Exit, releasing ptable.lock before sched. *)
ExitReleases(c, p) ==
    /\ At(c, p, "exitL")
    /\ state' = [Woken(state, {parent[p]}) EXCEPT ![p] = "ZOMBIE"]
    /\ parent' = [q \in Slot |-> IF q \in Children(p) THEN InitProc ELSE parent[q]]
    /\ lock' = Nil
    /\ Goto(p, "exitW")
    /\ UNCHANGED <<keep, cur, scan, chan, kstack, np, arg, lkcpu>>

(* exit(), its files closed: the parent is woken, the children are given   *)
(* to initproc, which is woken for those that have exited already.         *)
Exit(c, p) ==
    /\ At(c, p, "exitL")
    /\ LET woken == {parent[p]} \cup (IF Zombies(p) # {} THEN {InitProc} ELSE {})
       IN  state' = [Woken(state, woken) EXCEPT ![p] = "ZOMBIE"]
    /\ parent' = [q \in Slot |-> IF q \in Children(p) THEN InitProc ELSE parent[q]]
    /\ Goto(p, "exitW")
    /\ UNCHANGED <<keep, lock, cur, scan, chan, kstack, np, arg, lkcpu>>

(* wait() finds an exited child: the first one in the table is freed. *)
WaitReap(c, p) ==
    /\ At(c, p, "waitL")
    /\ \E q \in First(Zombies(p)) :
          /\ state' = [state EXCEPT ![q] = "UNUSED"]
          /\ kstack' = [kstack EXCEPT ![q] = FALSE]
          /\ parent' = [parent EXCEPT ![q] = Nil]
    /\ Release(c, p, "user")
    /\ UNCHANGED <<keep, cur, scan, chan, np, arg, lkcpu>>

(* wait() returns -1: no children. *)
WaitNone(c, p) ==
    /\ At(c, p, "waitL")
    /\ Children(p) = {}
    /\ Release(c, p, "user")
    /\ UNCHANGED <<keep, cur, scan, state, parent, chan, kstack, np, arg, lkcpu>>

(* wait() sleeps on the process itself: sleep(thisproc(), &ptable.lock). *)
WaitSleep(c, p) ==
    /\ At(c, p, "waitL")
    /\ Children(p) # {} /\ Zombies(p) = {}
    /\ chan' = [chan EXCEPT ![p] = p]
    /\ state' = [state EXCEPT ![p] = "SLEEPING"]
    /\ Goto(p, "waitW")
    /\ UNCHANGED <<keep, lock, cur, scan, parent, kstack, np, arg, lkcpu>>

WaitResume(c, p) ==
    /\ At(c, p, "waitS")
    /\ chan' = [chan EXCEPT ![p] = Nil]
    /\ Goto(p, "waitL")
    /\ UNCHANGED <<keep, lock, cur, scan, state, parent, kstack, np, arg, lkcpu>>

-----------------------------------------------------------------------------
(* Other kernel code: takes a spin lock, sleeps or wakes, leaves. *)

HoldsNone(c) == \A l \in Lock : lkcpu[l] # c

LkAcquire(c, p) ==
    /\ At(c, p, "kernel") /\ HoldsNone(c)
    /\ \E l \in Lock : lkcpu[l] = Nil /\ lkcpu' = [lkcpu EXCEPT ![l] = c]
    /\ UNCHANGED <<keep, lock, cur, scan, state, parent, chan, kstack, pc, np, arg>>

LkRelease(c, p) ==
    /\ At(c, p, "kernel")
    /\ \E l \in Lock : lkcpu[l] = c /\ lkcpu' = [lkcpu EXCEPT ![l] = Nil]
    /\ UNCHANGED <<keep, lock, cur, scan, state, parent, chan, kstack, pc, np, arg>>

(* fileclose begins (filealloc and filedup release at once); no interrupt  *)
(* handler is here.  A CPU that holds the lock already panics.             *)
KeepAcquire(c, p) ==
    /\ At(c, p, "kernel") /\ p \notin Idle /\ HoldsNone(c) /\ keeps[p] = Nil
    /\ \E l \in Kept :
          /\ keepcpu[l] = Nil
          /\ keepcpu' = [keepcpu EXCEPT ![l] = c]
          /\ keeps' = [keeps EXCEPT ![p] = l]
    /\ UNCHANGED <<lock, cur, scan, state, parent, chan, kstack, pc, np, arg, lkcpu,
                   slept, leaker>>

(* fileclose ends.  A CPU that does not hold the lock panics.              *)
KeepRelease(c, p) ==
    /\ At(c, p, "kernel") /\ HoldsNone(c) /\ keeps[p] # Nil
    /\ keepcpu[keeps[p]] = c
    /\ keepcpu' = [keepcpu EXCEPT ![keeps[p]] = Nil]
    /\ keeps' = [keeps EXCEPT ![p] = Nil]
    /\ slept' = [slept EXCEPT ![p] = FALSE]
    /\ UNCHANGED <<lock, cur, scan, state, parent, chan, kstack, pc, np, arg, lkcpu,
                   leaker>>

Leave(c, p) ==
    /\ At(c, p, "kernel") /\ HoldsNone(c) /\ keeps[p] = Nil
    /\ Goto(p, "user")
    /\ UNCHANGED <<keep, lock, cur, scan, state, parent, chan, kstack, np, arg, lkcpu>>

(* sleep(ch, lk) is called with lk held; never by an interrupt handler.    *)
(* fileclose sleeps in begin_op, iput and end_op.                          *)
CallSleep(c, p) ==
    /\ At(c, p, "kernel") /\ p \notin Idle
    /\ \E l \in Lock, ch \in Chan :
          /\ lkcpu[l] = c
          /\ arg' = [arg EXCEPT ![p] = [lk |-> l, chan |-> ch]]
    /\ Goto(p, "sleep")
    /\ UNCHANGED <<keep, lock, cur, scan, state, parent, chan, kstack, np, lkcpu>>

(* SleepRelease, with ptable.lock released as well. *)
SleepReleasesBoth(c, p) ==
    /\ At(c, p, "sleepL")
    /\ lkcpu[arg[p].lk] = c
    /\ lkcpu' = [lkcpu EXCEPT ![arg[p].lk] = Nil]
    /\ lock' = Nil
    /\ Goto(p, "sleepM")
    /\ UNCHANGED <<keep, cur, scan, state, parent, chan, kstack, np, arg>>

(* release(lk), ptable.lock taken. *)
SleepRelease(c, p) ==
    /\ At(c, p, "sleepL")
    /\ lkcpu[arg[p].lk] = c
    /\ lkcpu' = [lkcpu EXCEPT ![arg[p].lk] = Nil]
    /\ Goto(p, "sleepM")
    /\ UNCHANGED <<keep, lock, cur, scan, state, parent, chan, kstack, np, arg>>

Sleep(c, p) ==
    /\ At(c, p, "sleepM")
    /\ chan' = [chan EXCEPT ![p] = arg[p].chan]
    /\ state' = [state EXCEPT ![p] = "SLEEPING"]
    /\ slept' = [slept EXCEPT ![p] = keeps[p] # Nil]
    /\ Goto(p, "sleepW")
    /\ UNCHANGED <<lock, cur, scan, parent, kstack, np, arg, lkcpu, keepcpu, keeps, leaker>>

SleepResume(c, p) ==
    /\ At(c, p, "sleepS")
    /\ chan' = [chan EXCEPT ![p] = Nil]
    /\ Release(c, p, "reacq")
    /\ UNCHANGED <<keep, cur, scan, state, parent, kstack, np, arg, lkcpu>>

(* acquire(lk) before sleep returns. *)
SleepReacquire(c, p) ==
    /\ At(c, p, "reacq")
    /\ lkcpu[arg[p].lk] = Nil
    /\ lkcpu' = [lkcpu EXCEPT ![arg[p].lk] = c]
    /\ arg' = [arg EXCEPT ![p] = NoArg]
    /\ Goto(p, "kernel")
    /\ UNCHANGED <<keep, lock, cur, scan, state, parent, chan, kstack, np>>

CallWakeup(c, p) ==
    /\ At(c, p, "kernel")
    /\ \E ch \in Chan : arg' = [arg EXCEPT ![p] = [lk |-> Nil, chan |-> ch]]
    /\ Goto(p, "wakeup")
    /\ UNCHANGED <<keep, lock, cur, scan, state, parent, chan, kstack, np, lkcpu>>

Wakeup(c, p) ==
    /\ At(c, p, "wakeupL")
    /\ state' = Woken(state, {arg[p].chan})
    /\ arg' = [arg EXCEPT ![p] = NoArg]
    /\ Release(c, p, "kernel")
    /\ UNCHANGED <<keep, cur, scan, parent, chan, kstack, np, lkcpu>>

-----------------------------------------------------------------------------
SchedStep(c) ==
    SchedAcquire(c) \/ SchedSkip(c) \/ SchedRun(c) \/ SchedRelease(c)

ForkStep(c, p) ==
    \/ ForkNoSlot(c, p) \/ ForkNoStack(c, p) \/ ForkAlloc(c, p)
    \/ ForkNoCopy(c, p) \/ ForkCopy(c, p) \/ ForkStart(c, p)

WaitStep(c, p) ==
    WaitReap(c, p) \/ WaitNone(c, p) \/ WaitSleep(c, p) \/ WaitResume(c, p)

ClientStep(c, p) ==
    \/ LkAcquire(c, p) \/ LkRelease(c, p) \/ Leave(c, p)
    \/ KeepAcquire(c, p) \/ KeepRelease(c, p)
    \/ CallSleep(c, p) \/ SleepRelease(c, p) \/ Sleep(c, p)
    \/ SleepResume(c, p) \/ SleepReacquire(c, p)
    \/ CallWakeup(c, p) \/ Wakeup(c, p)

ProcStep(c, p) ==
    \/ TimerIRQ(c, p) \/ DeviceIRQ(c, p) \/ Syscall(c, p)
    \/ Acquire(c, p) \/ Yield(c, p) \/ Sched(c, p) \/ ReturnToUser(c, p)
    \/ ForkStep(c, p) \/ Exit(c, p) \/ WaitStep(c, p) \/ ClientStep(c, p)

Next == \E c \in CPU : SchedStep(c) \/ \E p \in Slot : ProcStep(c, p)

Spec == Init /\ [][Next]_vars

SpinEnds(c) ==
    \/ SchedAcquire(c)
    \/ \E p \in Slot : Acquire(c, p) \/ SleepReacquire(c, p)

(* Every CPU executes its code; a CPU that spins for a lock that is free   *)
(* again and again gets it; a process cannot put the timer of its CPU off  *)
(* for ever by calling the system; other kernel code releases its lock and *)
(* returns.                                                                *)
Fairness ==
    \A c \in CPU :
        /\ WF_vars(SchedStep(c) \/ \E p \in Slot : ProcStep(c, p))
        /\ SF_vars(SpinEnds(c))
        /\ SF_vars(\E p \in Slot : TimerIRQ(c, p))
        /\ SF_vars(\E p \in Slot : LkRelease(c, p))
        /\ SF_vars(\E p \in Slot : Leave(c, p))

FairSpec == Spec /\ Fairness

-----------------------------------------------------------------------------
(* Properties. *)

(* The two ways into a panic() of acquire, release, sched or exit are a    *)
(* sleep with a second lock held (fileclose) and a proc_alloc that gets no *)
(* page. Else a CPU that waits for a spin lock does not hold it, code that *)
(* is about to release a lock or to call sched runs on the CPU that holds  *)
(* it, and no exited process runs again: only the CPU of that proc_alloc   *)
(* waits for a ptable.lock of its own, and a kept lock is on another CPU   *)
(* than its process only after that process has slept.                     *)
NoPanic ==
    /\ \A c \in CPU :
          IF cur[c] = Nil
          THEN lock = c <=> scan[c] # 0
          ELSE LET p == cur[c] IN
               /\ lock = c <=> pc[p] \in LockedPC \/ c = leaker
               /\ pc[p] # "dead"
               /\ pc[p] \in SchedPC => state[p] # "RUNNING"
               /\ pc[p] \in {"sleep", "sleepL"} => lkcpu[arg[p].lk] = c
               /\ pc[p] \in {"user", "reacq", "yield"} => HoldsNone(c)
               /\ pc[p] = "user" => keeps[p] = Nil
               /\ keeps[p] # Nil /\ ~slept[p] => keepcpu[keeps[p]] = c
    /\ \A l \in Kept : keepcpu[l] # Nil =>
          \E p \in Slot : keeps[p] = l /\ (slept[p] \/ cur[keepcpu[l]] = p)

(* No two CPUs run on the same kernel stack: between the store of a new    *)
(* state and swtch (yield, sleep, exit) no other scheduler takes the       *)
(* process, and no process is RUNNING without a CPU.                       *)
OneCpuPerProcess ==
    /\ \A c, d \in CPU : cur[c] = cur[d] /\ cur[c] # Nil => c = d
    /\ \A p \in Slot : state[p] = "RUNNING" => \E c \in CPU : cur[c] = p

(* wait frees the kernel stack of an exited child only when no CPU runs on *)
(* it any more, every process that can run has one, and none is lost with  *)
(* its slot.                                                               *)
StackOwned ==
    /\ \A c \in CPU : cur[c] # Nil => kstack[cur[c]]
    /\ \A p \in Slot : kstack[p] <=> state[p] # "UNUSED"

(* A process asleep in wait has a child, and none of its children has      *)
(* exited: exit wakes the parent it leaves a zombie to, so no exited child *)
(* is missed.                                                              *)
NoMissedExit ==
    \A p \in Slot : state[p] = "SLEEPING" /\ pc[p] \in {"waitW", "waitS"} =>
        Children(p) # {} /\ Zombies(p) = {}

(* The parent of a process is alive: exit leaves no process with a parent  *)
(* that has exited or whose slot was freed.                                *)
ParentAlive ==
    \A p \in Slot : parent[p] # Nil =>
        /\ state[p] # "UNUSED"
        /\ state[parent[p]] \in {"SLEEPING", "RUNNABLE", "RUNNING"}

(* A wakeup leaves nobody behind: when it has scanned the table, no        *)
(* process that sleep() has released lk for is going to sleep, or sleeps,  *)
(* on its channel.                                                         *)
GoingToSleep(p, ch) ==
    /\ arg[p].chan = ch
    /\ pc[p] = "sleepM" \/ (pc[p] \in {"sleepW", "sleepS"} /\ state[p] = "SLEEPING")

WakeupReachesAll ==
    [][\A c \in CPU, p \in Slot, ch \in Chan :
          Wakeup(c, p) /\ arg[p].chan = ch =>
              \A q \in Slot : ~GoingToSleep(q, ch)']_vars

(* No runnable process is starved: a scheduler that takes a process goes   *)
(* on from that slot when it comes back, so every slot has its turn.       *)
RunnableRuns == \A p \in Slot : state[p] = "RUNNABLE" ~> state[p] = "RUNNING"

(* A parent asleep in wait when a child of it exits comes back from wait. *)
ExitEndsWait ==
    \A p \in Slot :
        (pc[p] = "waitS" /\ \E q \in Children(p) : pc[q] = "exit") ~> pc[p] = "user"
=============================================================================
