----------------------------- MODULE ProcProofs -----------------------------
(***************************************************************************)
(* The inductive invariant of Proc, and the proofs that Proc keeps it for  *)
(* every number of CPUs, slots, idle processes, locks and channels; then   *)
(* what it is for, and that Proc implements ProcTable. Last, the sleep     *)
(* locks, which are made of a spin lock, sleep and wakeup.                 *)
(***************************************************************************)
EXTENDS ProcRefines, SleepLock, FiniteSetTheorems, TLAPS

Alive == {"SLEEPING", "RUNNABLE", "RUNNING"}

(* Where a process is, by its state. *)
PcInv ==
    \A p \in Slot :
        /\ state[p] = "UNUSED"   => pc[p] \in {"dead", "forkret"}
        /\ state[p] = "EMBRYO"   => pc[p] = "forkret"
        /\ state[p] = "RUNNABLE" => pc[p] \in ResumePC \cup {"yieldW"}
        /\ state[p] = "RUNNING"  => pc[p] \notin SchedPC \cup {"dead"}
        /\ state[p] = "ZOMBIE"   => pc[p] \in {"exitW", "dead"}
        /\ state[p] = "SLEEPING" =>
              \/ pc[p] \in {"waitW", "waitS"} /\ chan[p] = p
              \/ pc[p] \in {"sleepW", "sleepS"} /\ chan[p] = arg[p].chan

(* A CPU and the process it runs belong to each other; the scheduler of a  *)
(* CPU that runs a process stands at a slot.                               *)
CurInv ==
    /\ \A c, d \in CPU : cur[c] = cur[d] /\ cur[c] # Nil => c = d
    /\ \A p \in Slot : (\E c \in CPU : cur[c] = p) <=>
                       state[p] = "RUNNING" \/ pc[p] \in SchedPC
    /\ \A c \in CPU : cur[c] # Nil => scan[c] \in Slot

(* The slot a fork has reserved is its own until the child is started. *)
ForkInv ==
    /\ \A p \in Slot : pc[p] \in ForkPC <=> np[p] # Nil
    /\ \A p \in Slot : np[p] # Nil =>
          /\ state[np[p]] = "EMBRYO"
          /\ pc[p] = "copy" => parent[np[p]] = Nil
    /\ \A p, q \in Slot : np[p] = np[q] /\ np[p] # Nil => p = q

(* The idle processes, and so initproc, stay. *)
IdlePC == {"user", "kernel", "yield", "yieldL", "yieldW", "yielded",
           "forkret", "wakeup", "wakeupL"}

IdleInv ==
    \A p \in Idle : state[p] \in {"RUNNABLE", "RUNNING"} /\ pc[p] \in IdlePC

(* What a process passes to sleep. *)
ArgInv ==
    \A p \in Slot :
        pc[p] \in {"sleep", "sleepL", "sleepM", "sleepW", "sleepS", "reacq"} =>
            arg[p].lk \in Lock /\ arg[p].chan \in Chan

(* ptable.lock is held by the CPU whose code must hold it ... *)
NeedsLock(c) == IF cur[c] = Nil THEN scan[c] # 0 ELSE pc[cur[c]] \in LockedPC

LockInv == \A c \in CPU : NeedsLock(c) => lock = c

(* ... and only there, but for a proc_alloc that returned without release. *)
FreeInv ==
    /\ \A c \in CPU : lock = c => NeedsLock(c) \/ leaker = c
    /\ leaker # Nil => lock = leaker /\ cur[leaker] # Nil /\ ~NeedsLock(leaker)

(* Another spin lock is held only by kernel code that took it. *)
LkInv ==
    /\ \A l \in Lock, c \in CPU : lkcpu[l] = c =>
          /\ cur[c] # Nil
          /\ pc[cur[c]] \in {"kernel", "sleep", "sleepL", "wakeup", "wakeupL"}
          /\ pc[cur[c]] \in {"sleep", "sleepL"} => arg[cur[c]].lk = l
    /\ \A c \in CPU : cur[c] # Nil /\ pc[cur[c]] \in {"sleep", "sleepL"} =>
          lkcpu[arg[cur[c]].lk] = c
    /\ \A l, m \in Lock : lkcpu[l] = lkcpu[m] /\ lkcpu[l] # Nil => l = m

(* A lock of Kept is taken once, by kernel code of a process that, until it *)
(* sleeps, is on the CPU that took it.                                     *)
KeepPC == {"kernel", "sleep", "sleepL", "sleepM", "sleepW", "sleepS", "reacq",
           "wakeup", "wakeupL"}

KeepInv ==
    /\ \A l \in Kept : keepcpu[l] # Nil => \E p \in Slot : keeps[p] = l
    /\ \A p, q \in Slot : keeps[p] = keeps[q] /\ keeps[p] # Nil => p = q
    /\ \A p \in Slot : keeps[p] # Nil =>
          /\ keepcpu[keeps[p]] \in CPU
          /\ pc[p] \in KeepPC
          /\ slept[p] \/ cur[keepcpu[keeps[p]]] = p
          /\ pc[p] \in {"sleepW", "sleepS"} => slept[p]

TableInv ==
    /\ TypeOK
    /\ PcInv
    /\ CurInv
    /\ ForkInv
    /\ IdleInv
    /\ ArgInv
    /\ LockInv
    /\ FreeInv
    /\ LkInv
    /\ KeepInv
    /\ StackOwned
    /\ ParentAlive
    /\ NoMissedExit

-----------------------------------------------------------------------------
(* Every step keeps TableInv. *)

USE ProcAssumption DEF TableInv, TypeOK, Slot, State, NoArg, PC, AcquirePC,
    LockedPC, BodyPC, SchedPC, ResumePC, ForkPC, IdlePC, KeepPC, Alive, Goto, At,
    Release, keep

(* The process that adopts orphans is one of the idle processes. *)
LEMMA InitProcIsSlot == InitProc \in Slot /\ InitProc \in Idle /\ Idle \subseteq Slot
  BY DEF InitProc, Idle

(* While a CPU holds ptable.lock outside sched, no process is in sched. *)
LEMMA NobodyInSched ==
  ASSUME TableInv, NEW c \in CPU, NEW p \in Slot, cur[c] = p, pc[p] \notin SchedPC,
         lock = c
  PROVE  \A q \in Slot : pc[q] \notin SchedPC
<1> SUFFICES ASSUME NEW q \in Slot, pc[q] \in SchedPC PROVE FALSE
  OBVIOUS
<1>1. PICK d \in CPU : cur[d] = q
  BY DEF CurInv
<1>2. NeedsLock(d)
  BY <1>1 DEF NeedsLock, LockedPC
<1>3. lock = d
  BY <1>2 DEF LockInv
<1> QED BY <1>1, <1>3

(* A step that moves no CPU keeps who runs, if the same processes run or   *)
(* are in sched.                                                           *)
LEMMA CurKept ==
  ASSUME CurInv, UNCHANGED <<cur, scan>>,
         \A q \in Slot : state'[q] = "RUNNING" \/ pc'[q] \in SchedPC <=>
                        state[q] = "RUNNING" \/ pc[q] \in SchedPC
  PROVE  CurInv'
  BY DEF CurInv

(* A step outside fork keeps what is reserved, if it takes no embryo.      *)
LEMMA ForkKept ==
  ASSUME ForkInv, np' = np, np \in [Slot -> Slot \cup {Nil}],
         \A q \in Slot : pc'[q] \in ForkPC <=> pc[q] \in ForkPC,
         \A q \in Slot : pc'[q] = "copy" => pc[q] = "copy",
         \A q \in Slot : state[q] = "EMBRYO" =>
            state'[q] = "EMBRYO" /\ (parent[q] = Nil => parent'[q] = Nil)
  PROVE  ForkInv'
  BY DEF ForkInv

(* SchedAcquire keeps the invariant. *)
LEMMA SchedAcquireInv ==
  ASSUME TableInv, NEW c \in CPU, SchedAcquire(c)
  PROVE  TableInv'
<1> USE InitProcIsSlot DEF SchedAcquire
<1>1. TypeOK'  OBVIOUS
<1>2. PcInv'  BY  DEF PcInv
<1>3. CurInv'  BY  DEF CurInv, PcInv
<1>4. ForkInv'  BY  DEF ForkInv, PcInv
<1>5. IdleInv'  BY  DEF IdleInv, PcInv
<1>6. ArgInv'  BY  DEF ArgInv
<1>7. LockInv'  BY  DEF LockInv, NeedsLock, CurInv
<1>8. FreeInv'  BY  DEF FreeInv, LockInv, NeedsLock, CurInv
<1>9. LkInv'  BY  DEF LkInv, CurInv
<1>10. StackOwned'  BY  DEF StackOwned, PcInv, CurInv
<1>11. ParentAlive'  BY  DEF ParentAlive, PcInv, CurInv, ForkInv
<1>12. NoMissedExit'  BY  DEF NoMissedExit, Children, Zombies, PcInv
<1>13. KeepInv'  BY  DEF KeepInv, CurInv, PcInv
<1> QED
  BY <1>1, <1>2, <1>3, <1>4, <1>5, <1>6, <1>7, <1>8, <1>9, <1>10, <1>11, <1>12,
     <1>13

(* SchedSkip keeps the invariant. *)
LEMMA SchedSkipInv ==
  ASSUME TableInv, NEW c \in CPU, SchedSkip(c)
  PROVE  TableInv'
<1> USE InitProcIsSlot DEF SchedSkip
<1>1. TypeOK'  OBVIOUS
<1>2. PcInv'  BY  DEF PcInv
<1>3. CurInv'  BY  DEF CurInv, PcInv
<1>4. ForkInv'  BY  DEF ForkInv, PcInv
<1>5. IdleInv'  BY  DEF IdleInv, PcInv
<1>6. ArgInv'  BY  DEF ArgInv
<1>7. LockInv'  BY  DEF LockInv, NeedsLock, CurInv
<1>8. FreeInv'  BY  DEF FreeInv, LockInv, NeedsLock, CurInv
<1>9. LkInv'  BY  DEF LkInv, CurInv
<1>10. StackOwned'  BY  DEF StackOwned, PcInv, CurInv
<1>11. ParentAlive'  BY  DEF ParentAlive, PcInv, CurInv, ForkInv
<1>12. NoMissedExit'  BY  DEF NoMissedExit, Children, Zombies, PcInv
<1>13. KeepInv'  BY  DEF KeepInv, CurInv, PcInv
<1> QED
  BY <1>1, <1>2, <1>3, <1>4, <1>5, <1>6, <1>7, <1>8, <1>9, <1>10, <1>11, <1>12,
     <1>13

(* SchedRun keeps the invariant. *)
LEMMA SchedRunInv ==
  ASSUME TableInv, NEW c \in CPU, SchedRun(c)
  PROVE  TableInv'
<1> USE InitProcIsSlot DEF SchedRun
<1>a. lock = c BY DEF LockInv, NeedsLock
<1>b. \A d \in CPU : cur[d] # scan[c]
  BY <1>a DEF LockInv, NeedsLock, PcInv
<1>c. pc[scan[c]] \in ResumePC BY <1>b DEF PcInv, CurInv
<1>1. TypeOK'  BY <1>a, <1>b, <1>c
<1>2. PcInv'  BY <1>a, <1>b, <1>c DEF PcInv
<1>3. CurInv'  BY <1>a, <1>b, <1>c DEF CurInv, PcInv
<1>4. ForkInv'  BY <1>a, <1>b, <1>c DEF ForkInv, PcInv
<1>5. IdleInv'  BY <1>a, <1>b, <1>c DEF IdleInv, PcInv
<1>6. ArgInv'  BY <1>a, <1>b, <1>c DEF ArgInv
<1>7. LockInv'  BY <1>a, <1>b, <1>c DEF LockInv, NeedsLock, CurInv
<1>8. FreeInv'  BY <1>a, <1>b, <1>c DEF FreeInv, LockInv, NeedsLock, CurInv
<1>9. LkInv'  BY <1>a, <1>b, <1>c DEF LkInv, CurInv
<1>10. StackOwned'  BY <1>a, <1>b, <1>c DEF StackOwned, PcInv, CurInv
<1>11. ParentAlive'  BY <1>a, <1>b, <1>c DEF ParentAlive, PcInv, CurInv, ForkInv
<1>12. NoMissedExit'  BY <1>a, <1>b, <1>c DEF NoMissedExit, Children, Zombies, PcInv
<1>13. KeepInv'  BY <1>a, <1>b, <1>c DEF KeepInv, CurInv, PcInv
<1> QED
  BY <1>1, <1>2, <1>3, <1>4, <1>5, <1>6, <1>7, <1>8, <1>9, <1>10, <1>11, <1>12,
     <1>13

(* SchedRelease keeps the invariant. *)
LEMMA SchedReleaseInv ==
  ASSUME TableInv, NEW c \in CPU, SchedRelease(c)
  PROVE  TableInv'
<1> USE InitProcIsSlot DEF SchedRelease
<1>1. TypeOK'  OBVIOUS
<1>2. PcInv'  BY  DEF PcInv
<1>3. CurInv'  BY  DEF CurInv, PcInv
<1>4. ForkInv'  BY  DEF ForkInv, PcInv
<1>5. IdleInv'  BY  DEF IdleInv, PcInv
<1>6. ArgInv'  BY  DEF ArgInv
<1>7. LockInv'  BY  DEF LockInv, NeedsLock, CurInv
<1>8. FreeInv'  BY  DEF FreeInv, LockInv, NeedsLock, CurInv
<1>9. LkInv'  BY  DEF LkInv, CurInv
<1>10. StackOwned'  BY  DEF StackOwned, PcInv, CurInv
<1>11. ParentAlive'  BY  DEF ParentAlive, PcInv, CurInv, ForkInv
<1>12. NoMissedExit'  BY  DEF NoMissedExit, Children, Zombies, PcInv
<1>13. KeepInv'  BY  DEF KeepInv, CurInv, PcInv
<1> QED
  BY <1>1, <1>2, <1>3, <1>4, <1>5, <1>6, <1>7, <1>8, <1>9, <1>10, <1>11, <1>12,
     <1>13

(* TimerIRQ keeps the invariant. *)
LEMMA TimerIRQInv ==
  ASSUME TableInv, NEW c \in CPU, NEW p \in Slot, TimerIRQ(c, p)
  PROVE  TableInv'
<1> USE InitProcIsSlot DEF TimerIRQ
<1>a. state[p] = "RUNNING"  BY DEF CurInv
<1>1. TypeOK'  BY <1>a
<1>2. PcInv'  BY <1>a DEF PcInv
<1>3. CurInv'  BY <1>a DEF CurInv, PcInv
<1>4. ForkInv'  BY <1>a DEF ForkInv, PcInv
<1>5. IdleInv'  BY <1>a DEF IdleInv, PcInv
<1>6. ArgInv'  BY <1>a DEF ArgInv
<1>7. LockInv'  BY <1>a DEF LockInv, NeedsLock, CurInv
<1>8. FreeInv'  BY <1>a DEF FreeInv, LockInv, NeedsLock, CurInv
<1>9. LkInv'  BY <1>a DEF LkInv, CurInv
<1>10. StackOwned'  BY <1>a DEF StackOwned, PcInv, CurInv
<1>11. ParentAlive'  BY <1>a DEF ParentAlive, PcInv, CurInv, ForkInv
<1>12. NoMissedExit'  BY <1>a DEF NoMissedExit, Children, Zombies, PcInv
<1>13. KeepInv'  BY <1>a DEF KeepInv, CurInv, PcInv
<1> QED
  BY <1>1, <1>2, <1>3, <1>4, <1>5, <1>6, <1>7, <1>8, <1>9, <1>10, <1>11, <1>12,
     <1>13

(* DeviceIRQ keeps the invariant. *)
LEMMA DeviceIRQInv ==
  ASSUME TableInv, NEW c \in CPU, NEW p \in Slot, DeviceIRQ(c, p)
  PROVE  TableInv'
<1> USE InitProcIsSlot DEF DeviceIRQ
<1>a. state[p] = "RUNNING"  BY DEF CurInv
<1>1. TypeOK'  BY <1>a
<1>2. PcInv'  BY <1>a DEF PcInv
<1>3. CurInv'  BY <1>a DEF CurInv, PcInv
<1>4. ForkInv'  BY <1>a DEF ForkInv, PcInv
<1>5. IdleInv'  BY <1>a DEF IdleInv, PcInv
<1>6. ArgInv'  BY <1>a DEF ArgInv
<1>7. LockInv'  BY <1>a DEF LockInv, NeedsLock, CurInv
<1>8. FreeInv'  BY <1>a DEF FreeInv, LockInv, NeedsLock, CurInv
<1>9. LkInv'  BY <1>a DEF LkInv, CurInv
<1>10. StackOwned'  BY <1>a DEF StackOwned, PcInv, CurInv
<1>11. ParentAlive'  BY <1>a DEF ParentAlive, PcInv, CurInv, ForkInv
<1>12. NoMissedExit'  BY <1>a DEF NoMissedExit, Children, Zombies, PcInv
<1>13. KeepInv'  BY <1>a DEF KeepInv, CurInv, PcInv
<1> QED
  BY <1>1, <1>2, <1>3, <1>4, <1>5, <1>6, <1>7, <1>8, <1>9, <1>10, <1>11, <1>12,
     <1>13

(* Syscall keeps the invariant. *)
LEMMA SyscallInv ==
  ASSUME TableInv, NEW c \in CPU, NEW p \in Slot, Syscall(c, p)
  PROVE  TableInv'
<1> USE InitProcIsSlot DEF Syscall
<1>a. state[p] = "RUNNING"  BY DEF CurInv
<1>1. TypeOK'  BY <1>a
<1>2. PcInv'  BY <1>a DEF PcInv
<1>3. CurInv'  BY <1>a DEF CurInv, PcInv
<1>4. ForkInv'  BY <1>a DEF ForkInv, PcInv
<1>5. IdleInv'  BY <1>a DEF IdleInv, PcInv
<1>6. ArgInv'  BY <1>a DEF ArgInv
<1>7. LockInv'  BY <1>a DEF LockInv, NeedsLock, CurInv
<1>8. FreeInv'  BY <1>a DEF FreeInv, LockInv, NeedsLock, CurInv
<1>9. LkInv'  BY <1>a DEF LkInv, CurInv
<1>10. StackOwned'  BY <1>a DEF StackOwned, PcInv, CurInv
<1>11. ParentAlive'  BY <1>a DEF ParentAlive, PcInv, CurInv, ForkInv
<1>12. NoMissedExit'  BY <1>a DEF NoMissedExit, Children, Zombies, PcInv
<1>13. KeepInv'  BY <1>a DEF KeepInv, CurInv, PcInv
<1> QED
  BY <1>1, <1>2, <1>3, <1>4, <1>5, <1>6, <1>7, <1>8, <1>9, <1>10, <1>11, <1>12,
     <1>13

(* Acquire keeps the invariant. *)
LEMMA AcquireInv ==
  ASSUME TableInv, NEW c \in CPU, NEW p \in Slot, Acquire(c, p)
  PROVE  TableInv'
<1> USE InitProcIsSlot DEF Acquire, Entry
<1>a. state[p] = "RUNNING"  BY DEF CurInv
<1>1. TypeOK'  BY <1>a
<1>2. PcInv'  BY <1>a DEF PcInv
<1>3. CurInv'  BY <1>a DEF CurInv, PcInv
<1>4. ForkInv'  BY <1>a DEF ForkInv, PcInv
<1>5. IdleInv'  BY <1>a DEF IdleInv, PcInv
<1>6. ArgInv'  BY <1>a DEF ArgInv
<1>7. LockInv'  BY <1>a DEF LockInv, NeedsLock, CurInv
<1>8. FreeInv'  BY <1>a DEF FreeInv, LockInv, NeedsLock, CurInv
<1>9. LkInv'  BY <1>a DEF LkInv, CurInv
<1>10. StackOwned'  BY <1>a DEF StackOwned, PcInv, CurInv
<1>11. ParentAlive'  BY <1>a DEF ParentAlive, PcInv, CurInv, ForkInv
<1>12. NoMissedExit'  BY <1>a DEF NoMissedExit, Children, Zombies, PcInv
<1>13. KeepInv'  BY <1>a DEF KeepInv, CurInv, PcInv
<1> QED
  BY <1>1, <1>2, <1>3, <1>4, <1>5, <1>6, <1>7, <1>8, <1>9, <1>10, <1>11, <1>12,
     <1>13

(* Yield keeps the invariant. *)
LEMMA YieldInv ==
  ASSUME TableInv, NEW c \in CPU, NEW p \in Slot, Yield(c, p)
  PROVE  TableInv'
<1> USE InitProcIsSlot DEF Yield
<1>a. state[p] = "RUNNING"  BY DEF CurInv
<1>b. \A q \in Slot : np[q] # p  BY <1>a DEF ForkInv
<1>1. TypeOK'  BY <1>a, <1>b
<1>2. PcInv'  BY <1>a, <1>b DEF PcInv
<1>3. CurInv'  BY <1>a, <1>b DEF CurInv, PcInv
<1>4. ForkInv'  BY <1>a, <1>b DEF ForkInv
<1>5. IdleInv'  BY <1>a, <1>b DEF IdleInv, PcInv
<1>6. ArgInv'  BY <1>a, <1>b DEF ArgInv
<1>7. LockInv'  BY <1>a, <1>b DEF LockInv, NeedsLock, CurInv
<1>8. FreeInv'  BY <1>a, <1>b DEF FreeInv, LockInv, NeedsLock, CurInv
<1>9. LkInv'  BY <1>a, <1>b DEF LkInv, CurInv
<1>10. StackOwned'  BY <1>a, <1>b DEF StackOwned, PcInv, CurInv
<1>11. ParentAlive'  BY <1>a, <1>b DEF ParentAlive, PcInv, CurInv, ForkInv
<1>12. NoMissedExit'  BY <1>a, <1>b DEF NoMissedExit, Children, Zombies, PcInv
<1>13. KeepInv'  BY <1>a, <1>b DEF KeepInv, CurInv, PcInv
<1> QED
  BY <1>1, <1>2, <1>3, <1>4, <1>5, <1>6, <1>7, <1>8, <1>9, <1>10, <1>11, <1>12,
     <1>13

(* Sched keeps the invariant. *)
LEMMA SchedInv ==
  ASSUME TableInv, NEW c \in CPU, NEW p \in Slot, Sched(c, p)
  PROVE  TableInv'
<1> USE InitProcIsSlot DEF Sched, Saved
<1>a. scan[c] \in Slot BY DEF CurInv
<1>b. /\ pc[p] = "yieldW" => state[p] = "RUNNABLE"
      /\ pc[p] = "exitW" => state[p] = "ZOMBIE"
      /\ pc[p] \in {"waitW", "sleepW"} => state[p] \in {"SLEEPING", "RUNNABLE"}
  BY DEF PcInv
<1>1. TypeOK'  BY <1>a, <1>b
<1>2. PcInv'  BY <1>a, <1>b DEF PcInv
<1>3. CurInv'  BY <1>a, <1>b DEF CurInv, PcInv
<1>4. ForkInv'  BY <1>a, <1>b DEF ForkInv, PcInv
<1>5. IdleInv'  BY <1>a, <1>b DEF IdleInv, PcInv
<1>6. ArgInv'  BY <1>a, <1>b DEF ArgInv
<1>7. LockInv'  BY <1>a, <1>b DEF LockInv, NeedsLock, CurInv
<1>8. FreeInv'  BY <1>a, <1>b DEF FreeInv, LockInv, NeedsLock, CurInv
<1>9. LkInv'  BY <1>a, <1>b DEF LkInv, CurInv
<1>10. StackOwned'  BY <1>a, <1>b DEF StackOwned, PcInv, CurInv
<1>11. ParentAlive'  BY <1>a, <1>b DEF ParentAlive, PcInv, CurInv, ForkInv
<1>12. NoMissedExit'  BY <1>a, <1>b DEF NoMissedExit, Children, Zombies, PcInv
<1>13. KeepInv'  BY <1>a, <1>b DEF KeepInv, CurInv, PcInv
<1> QED
  BY <1>1, <1>2, <1>3, <1>4, <1>5, <1>6, <1>7, <1>8, <1>9, <1>10, <1>11, <1>12,
     <1>13

(* ReturnToUser keeps the invariant. *)
LEMMA ReturnToUserInv ==
  ASSUME TableInv, NEW c \in CPU, NEW p \in Slot, ReturnToUser(c, p)
  PROVE  TableInv'
<1> USE InitProcIsSlot DEF ReturnToUser
<1>a. state[p] = "RUNNING"  BY DEF CurInv
<1>1. TypeOK'  BY <1>a
<1>2. PcInv'  BY <1>a DEF PcInv
<1>3. CurInv'  BY <1>a DEF CurInv, PcInv
<1>4. ForkInv'  BY <1>a DEF ForkInv, PcInv
<1>5. IdleInv'  BY <1>a DEF IdleInv, PcInv
<1>6. ArgInv'  BY <1>a DEF ArgInv
<1>7. LockInv'  BY <1>a DEF LockInv, NeedsLock, CurInv
<1>8. FreeInv'  BY <1>a DEF FreeInv, LockInv, NeedsLock, CurInv
<1>9. LkInv'  BY <1>a DEF LkInv, CurInv
<1>10. StackOwned'  BY <1>a DEF StackOwned, PcInv, CurInv
<1>11. ParentAlive'  BY <1>a DEF ParentAlive, PcInv, CurInv, ForkInv
<1>12. NoMissedExit'  BY <1>a DEF NoMissedExit, Children, Zombies, PcInv
<1>13. KeepInv'  BY <1>a DEF KeepInv, CurInv, PcInv
<1> QED
  BY <1>1, <1>2, <1>3, <1>4, <1>5, <1>6, <1>7, <1>8, <1>9, <1>10, <1>11, <1>12,
     <1>13

(* ForkNoSlot keeps the invariant. *)
LEMMA ForkNoSlotInv ==
  ASSUME TableInv, NEW c \in CPU, NEW p \in Slot, ForkNoSlot(c, p)
  PROVE  TableInv'
<1> USE InitProcIsSlot DEF ForkNoSlot, Unused
<1>a. state[p] = "RUNNING"  BY DEF CurInv
<1>1. TypeOK'  BY <1>a
<1>2. PcInv'  BY <1>a DEF PcInv
<1>3. CurInv'  BY <1>a DEF CurInv, PcInv
<1>4. ForkInv'  BY <1>a DEF ForkInv, PcInv
<1>5. IdleInv'  BY <1>a DEF IdleInv, PcInv
<1>6. ArgInv'  BY <1>a DEF ArgInv
<1>7. LockInv'  BY <1>a DEF LockInv, NeedsLock, CurInv
<1>8. FreeInv'  BY <1>a DEF FreeInv, LockInv, NeedsLock, CurInv
<1>9. LkInv'  BY <1>a DEF LkInv, CurInv
<1>10. StackOwned'  BY <1>a DEF StackOwned, PcInv, CurInv
<1>11. ParentAlive'  BY <1>a DEF ParentAlive, PcInv, CurInv, ForkInv
<1>12. NoMissedExit'  BY <1>a DEF NoMissedExit, Children, Zombies, PcInv
<1>13. KeepInv'  BY <1>a DEF KeepInv, CurInv, PcInv
<1> QED
  BY <1>1, <1>2, <1>3, <1>4, <1>5, <1>6, <1>7, <1>8, <1>9, <1>10, <1>11, <1>12,
     <1>13

(* ForkNoStack keeps the invariant. *)
LEMMA ForkNoStackInv ==
  ASSUME TableInv, NEW c \in CPU, NEW p \in Slot, ForkNoStack(c, p)
  PROVE  TableInv'
<1> USE InitProcIsSlot DEF ForkNoStack, Unused
<1>a. state[p] = "RUNNING"  BY DEF CurInv
<1>1. TypeOK'  BY <1>a
<1>2. PcInv'  BY <1>a DEF PcInv
<1>3. CurInv'  BY <1>a DEF CurInv, PcInv
<1>4. ForkInv'  BY <1>a DEF ForkInv, PcInv
<1>5. IdleInv'  BY <1>a DEF IdleInv, PcInv
<1>6. ArgInv'  BY <1>a DEF ArgInv
<1>7. LockInv'  BY <1>a DEF LockInv, NeedsLock, CurInv
<1>8. FreeInv'  BY <1>a DEF FreeInv, LockInv, NeedsLock, CurInv
<1>9. LkInv'  BY <1>a DEF LkInv, CurInv
<1>10. StackOwned'  BY <1>a DEF StackOwned, PcInv, CurInv
<1>11. ParentAlive'  BY <1>a DEF ParentAlive, PcInv, CurInv, ForkInv
<1>12. NoMissedExit'  BY <1>a DEF NoMissedExit, Children, Zombies, PcInv
<1>13. KeepInv'  BY <1>a DEF KeepInv, CurInv, PcInv
<1> QED
  BY <1>1, <1>2, <1>3, <1>4, <1>5, <1>6, <1>7, <1>8, <1>9, <1>10, <1>11, <1>12,
     <1>13

(* ForkAlloc keeps the invariant. *)
LEMMA ForkAllocInv ==
  ASSUME TableInv, NEW c \in CPU, NEW p \in Slot, ForkAlloc(c, p)
  PROVE  TableInv'
<1> USE InitProcIsSlot DEF ForkAlloc, Unused, First
<1>a. state[p] = "RUNNING"  BY DEF CurInv
<1>1. TypeOK'  BY <1>a
<1>2. PcInv'  BY <1>a DEF PcInv
<1>3. CurInv'  BY <1>a DEF CurInv, PcInv
<1>4. ForkInv'
  <2>1. PICK q \in Slot : /\ state[q] = "UNUSED"
                          /\ state' = [state EXCEPT ![q] = "EMBRYO"]
                          /\ np' = [np EXCEPT ![p] = q]
                          /\ pc' = [pc EXCEPT ![q] = "forkret", ![p] = "copy"]
    OBVIOUS
  <2>2. parent[q] = Nil /\ pc[q] \notin ForkPC /\ q # p
    BY <1>a, <2>1 DEF ParentAlive, PcInv
  <2>3. \A r \in Slot : np[r] # q
    BY <2>1 DEF ForkInv
  <2>4. parent' = parent /\ np \in [Slot -> Slot \cup {Nil}] /\ q \in Slot
    OBVIOUS
  <2>5. /\ \A r \in Slot : r \notin {p, q} => pc'[r] = pc[r]
        /\ pc'[p] = "copy" /\ pc'[q] = "forkret"
        /\ \A r \in Slot : r # q => state'[r] = state[r]
        /\ state'[q] = "EMBRYO"
        /\ \A r \in Slot : np'[r] = IF r = p THEN q ELSE np[r]
    BY <2>1, <2>2
  <2>6. \A r \in Slot : pc'[r] \in ForkPC <=> np'[r] # Nil
    BY <2>2, <2>4, <2>5, ProcAssumption DEF ForkInv, ForkPC
  <2> HIDE DEF ForkAlloc, TableInv
  <2>7. ForkInv
    BY DEF TableInv
  <2>8. \A r \in Slot : np'[r] # Nil =>
          /\ state'[np'[r]] = "EMBRYO"
          /\ pc'[r] = "copy" => parent'[np'[r]] = Nil
    <3> SUFFICES ASSUME NEW r \in Slot, np'[r] # Nil
                 PROVE  /\ state'[np'[r]] = "EMBRYO"
                        /\ pc'[r] = "copy" => parent'[np'[r]] = Nil
      OBVIOUS
    <3>1. CASE r = p
      BY <2>2, <2>4, <2>5, <3>1
    <3>2. CASE r # p
      <4>1. np'[r] = np[r] /\ np[r] \in Slot /\ np[r] # q
        BY <2>3, <2>4, <2>5, <3>2
      <4>2. r # q
        BY <2>2, <2>7, <4>1 DEF ForkInv
      <4> QED BY <2>4, <2>5, <2>7, <3>2, <4>1, <4>2 DEF ForkInv
    <3> QED BY <3>1, <3>2
  <2>9. \A r, s \in Slot : np'[r] = np'[s] /\ np'[r] # Nil => r = s
    BY <2>3, <2>5, <2>7 DEF ForkInv
  <2> QED BY <2>6, <2>8, <2>9 DEF ForkInv
<1>5. IdleInv'  BY <1>a DEF IdleInv, PcInv
<1>6. ArgInv'  BY <1>a DEF ArgInv
<1>7. LockInv'  BY <1>a DEF LockInv, NeedsLock, CurInv
<1>8. FreeInv'  BY <1>a DEF FreeInv, LockInv, NeedsLock, CurInv
<1>9. LkInv'
  <2>1. \A q \in Slot : q # p /\ pc'[q] # pc[q] => state[q] = "UNUSED"
    OBVIOUS
  <2>2. \A d \in CPU : cur[d] # Nil => d = c \/ pc'[cur[d]] = pc[cur[d]]
    <3> SUFFICES ASSUME NEW d \in CPU, cur[d] # Nil, d # c
                 PROVE  pc'[cur[d]] = pc[cur[d]]
      OBVIOUS
    <3>1. cur[d] # p
      BY DEF CurInv
    <3>2. state[cur[d]] = "RUNNING" \/ pc[cur[d]] \in SchedPC
      BY DEF CurInv
    <3> HIDE DEF ForkAlloc
    <3>3. state[cur[d]] # "UNUSED"
      BY <3>2 DEF PcInv
    <3> QED BY <2>1, <3>1, <3>3
  <2>3. LkInv /\ lkcpu' = lkcpu /\ cur' = cur /\ arg' = arg /\ pc'[p] = "copy"
        /\ cur[c] = p /\ pc[p] = "forkL"
    BY <1>a DEF PcInv
  <2> HIDE DEF ForkAlloc, TableInv
  <2> QED BY <2>2, <2>3 DEF LkInv
<1>10. StackOwned'  BY <1>a DEF StackOwned, PcInv, CurInv
<1>11. ParentAlive'  BY <1>a DEF ParentAlive, PcInv, CurInv, ForkInv
<1>12. NoMissedExit'  BY <1>a DEF NoMissedExit, Children, Zombies, PcInv
<1>13. KeepInv'  BY <1>a DEF KeepInv, CurInv, PcInv
<1> QED
  BY <1>1, <1>2, <1>3, <1>4, <1>5, <1>6, <1>7, <1>8, <1>9, <1>10, <1>11, <1>12,
     <1>13

(* ForkNoCopy keeps the invariant. *)
LEMMA ForkNoCopyInv ==
  ASSUME TableInv, NEW c \in CPU, NEW p \in Slot, ForkNoCopy(c, p)
  PROVE  TableInv'
<1> USE InitProcIsSlot DEF ForkNoCopy
<1>a. state[p] = "RUNNING"  BY DEF CurInv
<1>b. np[p] \in Slot /\ np[p] # p /\ state[np[p]] = "EMBRYO" /\ pc[np[p]] = "forkret"
  BY <1>a DEF ForkInv, PcInv
<1>c. \A d \in CPU : cur[d] # np[p]  BY <1>b DEF CurInv
<1>1. TypeOK'  BY <1>a, <1>b, <1>c
<1>2. PcInv'  BY <1>a, <1>b, <1>c DEF PcInv
<1>3. CurInv'  BY <1>a, <1>b, <1>c DEF CurInv, PcInv
<1>4. ForkInv'  BY <1>a, <1>b, <1>c DEF ForkInv, PcInv
<1>5. IdleInv'  BY <1>a, <1>b, <1>c DEF IdleInv, PcInv
<1>6. ArgInv'  BY <1>a, <1>b, <1>c DEF ArgInv
<1>7. LockInv'  BY <1>a, <1>b, <1>c DEF LockInv, NeedsLock, CurInv
<1>8. FreeInv'  BY <1>a, <1>b, <1>c DEF FreeInv, LockInv, NeedsLock, CurInv
<1>9. LkInv'  BY <1>a, <1>b, <1>c DEF LkInv, CurInv
<1>10. StackOwned'  BY <1>a, <1>b, <1>c DEF StackOwned, PcInv, CurInv
<1>11. ParentAlive'  BY <1>a, <1>b, <1>c DEF ParentAlive, PcInv, CurInv, ForkInv
<1>12. NoMissedExit'  BY <1>a, <1>b, <1>c DEF NoMissedExit, Children, Zombies, PcInv
<1>13. KeepInv'  BY <1>a, <1>b, <1>c DEF KeepInv, CurInv, PcInv
<1> QED
  BY <1>1, <1>2, <1>3, <1>4, <1>5, <1>6, <1>7, <1>8, <1>9, <1>10, <1>11, <1>12,
     <1>13

(* ForkCopy keeps the invariant. *)
LEMMA ForkCopyInv ==
  ASSUME TableInv, NEW c \in CPU, NEW p \in Slot, ForkCopy(c, p)
  PROVE  TableInv'
<1> USE InitProcIsSlot DEF ForkCopy
<1>a. state[p] = "RUNNING"  BY DEF CurInv
<1>b. np[p] \in Slot /\ np[p] # p /\ state[np[p]] = "EMBRYO" /\ pc[np[p]] = "forkret"
  BY <1>a DEF ForkInv, PcInv
<1>c. \A d \in CPU : cur[d] # np[p]  BY <1>b DEF CurInv
<1>1. TypeOK'  BY <1>a, <1>b, <1>c
<1>2. PcInv'  BY <1>a, <1>b, <1>c DEF PcInv
<1>3. CurInv'  BY <1>a, <1>b, <1>c DEF CurInv, PcInv
<1>4. ForkInv'  BY <1>a, <1>b, <1>c DEF ForkInv, PcInv
<1>5. IdleInv'  BY <1>a, <1>b, <1>c DEF IdleInv, PcInv
<1>6. ArgInv'  BY <1>a, <1>b, <1>c DEF ArgInv
<1>7. LockInv'  BY <1>a, <1>b, <1>c DEF LockInv, NeedsLock, CurInv
<1>8. FreeInv'  BY <1>a, <1>b, <1>c DEF FreeInv, LockInv, NeedsLock, CurInv
<1>9. LkInv'  BY <1>a, <1>b, <1>c DEF LkInv, CurInv
<1>10. StackOwned'  BY <1>a, <1>b, <1>c DEF StackOwned, PcInv, CurInv
<1>11. ParentAlive'  BY <1>a, <1>b, <1>c DEF ParentAlive, PcInv, CurInv, ForkInv
<1>12. NoMissedExit'
  <2>1. parent[np[p]] = Nil
    BY <1>b DEF ForkInv
  <2>2. \A r \in Slot : r # p => Children(r)' = Children(r)
    BY <1>b, <2>1 DEF Children
  <2> QED BY <1>a, <2>2 DEF NoMissedExit, Zombies
<1>13. KeepInv'  BY <1>a, <1>b, <1>c DEF KeepInv, CurInv, PcInv
<1> QED
  BY <1>1, <1>2, <1>3, <1>4, <1>5, <1>6, <1>7, <1>8, <1>9, <1>10, <1>11, <1>12,
     <1>13

(* ForkStart keeps the invariant. *)
LEMMA ForkStartInv ==
  ASSUME TableInv, NEW c \in CPU, NEW p \in Slot, ForkStart(c, p)
  PROVE  TableInv'
<1> USE InitProcIsSlot DEF ForkStart
<1>a. state[p] = "RUNNING"  BY DEF CurInv
<1>b. np[p] \in Slot /\ np[p] # p /\ state[np[p]] = "EMBRYO" /\ pc[np[p]] = "forkret"
  BY <1>a DEF ForkInv, PcInv
<1>c. \A d \in CPU : cur[d] # np[p]  BY <1>b DEF CurInv
<1>1. TypeOK'  BY <1>a, <1>b, <1>c
<1>2. PcInv'  BY <1>a, <1>b, <1>c DEF PcInv
<1>3. CurInv'  BY <1>a, <1>b, <1>c DEF CurInv, PcInv
<1>4. ForkInv'  BY <1>a, <1>b, <1>c DEF ForkInv, PcInv
<1>5. IdleInv'  BY <1>a, <1>b, <1>c DEF IdleInv, PcInv
<1>6. ArgInv'  BY <1>a, <1>b, <1>c DEF ArgInv
<1>7. LockInv'  BY <1>a, <1>b, <1>c DEF LockInv, NeedsLock, CurInv
<1>8. FreeInv'  BY <1>a, <1>b, <1>c DEF FreeInv, LockInv, NeedsLock, CurInv
<1>9. LkInv'  BY <1>a, <1>b, <1>c DEF LkInv, CurInv
<1>10. StackOwned'  BY <1>a, <1>b, <1>c DEF StackOwned, PcInv, CurInv
<1>11. ParentAlive'  BY <1>a, <1>b, <1>c DEF ParentAlive, PcInv, CurInv, ForkInv
<1>12. NoMissedExit'  BY <1>a, <1>b, <1>c DEF NoMissedExit, Children, Zombies, PcInv
<1>13. KeepInv'  BY <1>a, <1>b, <1>c DEF KeepInv, CurInv, PcInv
<1> QED
  BY <1>1, <1>2, <1>3, <1>4, <1>5, <1>6, <1>7, <1>8, <1>9, <1>10, <1>11, <1>12,
     <1>13

(* Exit keeps the invariant. *)
LEMMA ExitInv ==
  ASSUME TableInv, NEW c \in CPU, NEW p \in Slot, Exit(c, p)
  PROVE  TableInv'
<1> USE InitProcIsSlot DEF Exit, Children, Zombies, Woken
<1>a. state[p] = "RUNNING"  BY DEF CurInv
<1>l. lock = c  BY DEF LockInv, NeedsLock
<1>b. \A q \in Slot : pc[q] \notin SchedPC  BY <1>l, NobodyInSched
<1>d. /\ state'[p] = "ZOMBIE"
      /\ \A q \in Slot : q # p =>
            \/ state'[q] = state[q]
            \/ state[q] = "SLEEPING" /\ state'[q] = "RUNNABLE"
  OBVIOUS
<1>e. InitProc # p /\ state[InitProc] \in {"RUNNABLE", "RUNNING"}
      /\ pc[InitProc] \notin {"waitW", "waitS"}
  BY DEF IdleInv
<1>1. TypeOK'  BY <1>a, <1>b
<1>2. PcInv'  BY <1>a, <1>b DEF PcInv
<1>3. CurInv'
  <2>1. \A q \in Slot : q # p => pc'[q] = pc[q] /\ (state'[q] = "RUNNING" <=> state[q] = "RUNNING")
    BY <1>d
  <2>2. cur' = cur /\ scan' = scan /\ cur[c] = p /\ pc'[p] = "exitW"
    OBVIOUS
  <2>3. CurInv
    OBVIOUS
  <2> HIDE DEF Exit, TableInv
  <2> QED BY <1>a, <2>1, <2>2, <2>3, CurKept
<1>4. ForkInv'
  <2>1. \A q \in Slot : pc'[q] \in ForkPC <=> pc[q] \in ForkPC
    OBVIOUS
  <2>2. \A q \in Slot : pc'[q] = "copy" => pc[q] = "copy"
    OBVIOUS
  <2>3. \A q \in Slot : state[q] = "EMBRYO" =>
          state'[q] = "EMBRYO" /\ (parent[q] = Nil => parent'[q] = Nil)
    BY <1>a DEF PcInv
  <2>4. ForkInv /\ np' = np /\ np \in [Slot -> Slot \cup {Nil}]
    OBVIOUS
  <2> HIDE DEF TableInv
  <2> QED BY <2>1, <2>2, <2>3, <2>4, ForkKept
<1>5. IdleInv'  BY <1>a, <1>b DEF IdleInv, PcInv
<1>6. ArgInv'  BY <1>a, <1>b DEF ArgInv
<1>7. LockInv'  BY <1>a, <1>b DEF LockInv, NeedsLock, CurInv
<1>8. FreeInv'  BY <1>a, <1>b DEF FreeInv, LockInv, NeedsLock, CurInv
<1>9. LkInv'  BY <1>a, <1>b DEF LkInv, CurInv
<1>10. StackOwned'  BY <1>a, <1>b DEF StackOwned, PcInv, CurInv
<1>11. ParentAlive'
  <2> SUFFICES ASSUME NEW q \in Slot, parent'[q] # Nil
               PROVE  state'[q] # "UNUSED" /\ state'[parent'[q]] \in Alive
    BY DEF ParentAlive
  <2>1. parent[q] # Nil /\ state'[q] # "UNUSED"
    <3>1. parent'[q] \in {parent[q], InitProc} /\ (parent'[q] = InitProc => q \in Children(p) \/ parent[q] # Nil)
      OBVIOUS
    <3>2. parent[q] # Nil
      BY <3>1
    <3>3. state[q] # "UNUSED"
      BY <3>2 DEF ParentAlive
    <3> HIDE DEF Exit, TableInv
    <3> QED BY <1>d, <3>2, <3>3
  <2>2. CASE parent[q] = p
    BY <1>d, <1>e, <2>1, <2>2
  <2>3. CASE parent[q] # p
    BY <1>d, <2>1, <2>3 DEF ParentAlive
  <2> QED BY <2>2, <2>3
<1>12. NoMissedExit'
  <2> SUFFICES ASSUME NEW r \in Slot, state'[r] = "SLEEPING",
                      pc'[r] \in {"waitW", "waitS"}
               PROVE  Children(r)' # {} /\ Zombies(r)' = {}
    BY DEF NoMissedExit
  <2>1. r # p /\ state[r] = "SLEEPING" /\ pc[r] \in {"waitW", "waitS"} /\ chan[r] = r
    BY <1>d DEF PcInv
  <2>2. r # InitProc /\ r # parent[p]
    BY <1>e, <2>1
  <2>3. Children(r)' = Children(r)
    BY <2>1, <2>2
  <2>4. Zombies(r)' = Zombies(r)
    <3>1. \A q \in Slot : state'[q] = "ZOMBIE" <=> state[q] = "ZOMBIE" \/ q = p
      BY <1>d
    <3>2. parent[p] # r
      BY <2>2
    <3> HIDE DEF Exit, TableInv
    <3> QED BY <2>3, <3>1, <3>2 DEF Zombies, Children
  <2> QED BY <2>1, <2>3, <2>4 DEF NoMissedExit
<1>13. KeepInv'  BY <1>a, <1>b DEF KeepInv, CurInv, PcInv
<1> QED
  BY <1>1, <1>2, <1>3, <1>4, <1>5, <1>6, <1>7, <1>8, <1>9, <1>10, <1>11, <1>12,
     <1>13

(* WaitReap keeps the invariant. *)
LEMMA WaitReapInv ==
  ASSUME TableInv, NEW c \in CPU, NEW p \in Slot, WaitReap(c, p)
  PROVE  TableInv'
<1> USE InitProcIsSlot DEF WaitReap, Children, Zombies, First
<1>a. state[p] = "RUNNING"  BY DEF CurInv
<1>l. lock = c  BY DEF LockInv, NeedsLock
<1>b. \A q \in Slot : pc[q] \notin SchedPC  BY <1>l, NobodyInSched
<1>1. TypeOK'  BY <1>a
<1>2. PcInv'  BY <1>a, <1>b DEF PcInv
<1>3. CurInv'  BY <1>a, <1>b DEF CurInv, PcInv
<1>4. ForkInv'
  <2>1. \A q \in Slot : pc'[q] \in ForkPC <=> pc[q] \in ForkPC
    OBVIOUS
  <2>2. \A q \in Slot : pc'[q] = "copy" => pc[q] = "copy"
    OBVIOUS
  <2>3. \A q \in Slot : state[q] = "EMBRYO" =>
          state'[q] = "EMBRYO" /\ (parent[q] = Nil => parent'[q] = Nil)
    BY <1>a DEF PcInv
  <2>4. ForkInv /\ np' = np /\ np \in [Slot -> Slot \cup {Nil}]
    OBVIOUS
  <2> HIDE DEF TableInv
  <2> QED BY <2>1, <2>2, <2>3, <2>4, ForkKept
<1>5. IdleInv'  BY <1>a DEF IdleInv, PcInv
<1>6. ArgInv'  BY <1>a DEF ArgInv
<1>7. LockInv'  BY <1>a DEF LockInv, NeedsLock, CurInv
<1>8. FreeInv'  BY <1>a DEF FreeInv, LockInv, NeedsLock, CurInv
<1>9. LkInv'  BY <1>a DEF LkInv, CurInv
<1>10. StackOwned'  BY <1>a, <1>b DEF StackOwned, PcInv, CurInv
<1>11. ParentAlive'  BY <1>a DEF ParentAlive, PcInv, CurInv, ForkInv
<1>12. NoMissedExit'  BY <1>a DEF NoMissedExit, Children, Zombies, PcInv
<1>13. KeepInv'  BY <1>a DEF KeepInv, CurInv, PcInv
<1> QED
  BY <1>1, <1>2, <1>3, <1>4, <1>5, <1>6, <1>7, <1>8, <1>9, <1>10, <1>11, <1>12,
     <1>13

(* WaitNone keeps the invariant. *)
LEMMA WaitNoneInv ==
  ASSUME TableInv, NEW c \in CPU, NEW p \in Slot, WaitNone(c, p)
  PROVE  TableInv'
<1> USE InitProcIsSlot DEF WaitNone
<1>a. state[p] = "RUNNING"  BY DEF CurInv
<1>1. TypeOK'  BY <1>a
<1>2. PcInv'  BY <1>a DEF PcInv
<1>3. CurInv'  BY <1>a DEF CurInv, PcInv
<1>4. ForkInv'  BY <1>a DEF ForkInv, PcInv
<1>5. IdleInv'  BY <1>a DEF IdleInv, PcInv
<1>6. ArgInv'  BY <1>a DEF ArgInv
<1>7. LockInv'  BY <1>a DEF LockInv, NeedsLock, CurInv
<1>8. FreeInv'  BY <1>a DEF FreeInv, LockInv, NeedsLock, CurInv
<1>9. LkInv'  BY <1>a DEF LkInv, CurInv
<1>10. StackOwned'  BY <1>a DEF StackOwned, PcInv, CurInv
<1>11. ParentAlive'  BY <1>a DEF ParentAlive, PcInv, CurInv, ForkInv
<1>12. NoMissedExit'  BY <1>a DEF NoMissedExit, Children, Zombies, PcInv
<1>13. KeepInv'  BY <1>a DEF KeepInv, CurInv, PcInv
<1> QED
  BY <1>1, <1>2, <1>3, <1>4, <1>5, <1>6, <1>7, <1>8, <1>9, <1>10, <1>11, <1>12,
     <1>13

(* WaitSleep keeps the invariant. *)
LEMMA WaitSleepInv ==
  ASSUME TableInv, NEW c \in CPU, NEW p \in Slot, WaitSleep(c, p)
  PROVE  TableInv'
<1> USE InitProcIsSlot DEF WaitSleep, Children, Zombies
<1>a. state[p] = "RUNNING"  BY DEF CurInv
<1>b. \A q \in Slot : np[q] # p  BY <1>a DEF ForkInv
<1>1. TypeOK'  BY <1>a, <1>b
<1>2. PcInv'  BY <1>a, <1>b DEF PcInv
<1>3. CurInv'  BY <1>a, <1>b DEF CurInv, PcInv
<1>4. ForkInv'
  <2>1. \A q \in Slot : pc'[q] \in ForkPC <=> pc[q] \in ForkPC
    OBVIOUS
  <2>2. \A q \in Slot : pc'[q] = "copy" => pc[q] = "copy"
    OBVIOUS
  <2>3. \A q \in Slot : state[q] = "EMBRYO" =>
          state'[q] = "EMBRYO" /\ (parent[q] = Nil => parent'[q] = Nil)
    BY <1>a DEF PcInv
  <2>4. ForkInv /\ np' = np /\ np \in [Slot -> Slot \cup {Nil}]
    OBVIOUS
  <2> HIDE DEF TableInv
  <2> QED BY <2>1, <2>2, <2>3, <2>4, ForkKept
<1>5. IdleInv'  BY <1>a, <1>b DEF IdleInv, PcInv
<1>6. ArgInv'  BY <1>a, <1>b DEF ArgInv
<1>7. LockInv'  BY <1>a, <1>b DEF LockInv, NeedsLock, CurInv
<1>8. FreeInv'  BY <1>a, <1>b DEF FreeInv, LockInv, NeedsLock, CurInv
<1>9. LkInv'  BY <1>a, <1>b DEF LkInv, CurInv
<1>10. StackOwned'  BY <1>a, <1>b DEF StackOwned, PcInv, CurInv
<1>11. ParentAlive'  BY <1>a, <1>b DEF ParentAlive, PcInv, CurInv, ForkInv
<1>12. NoMissedExit'  BY <1>a, <1>b DEF NoMissedExit, Children, Zombies, PcInv
<1>13. KeepInv'  BY <1>a, <1>b DEF KeepInv, CurInv, PcInv
<1> QED
  BY <1>1, <1>2, <1>3, <1>4, <1>5, <1>6, <1>7, <1>8, <1>9, <1>10, <1>11, <1>12,
     <1>13

(* WaitResume keeps the invariant. *)
LEMMA WaitResumeInv ==
  ASSUME TableInv, NEW c \in CPU, NEW p \in Slot, WaitResume(c, p)
  PROVE  TableInv'
<1> USE InitProcIsSlot DEF WaitResume
<1>a. state[p] = "RUNNING"  BY DEF CurInv
<1>1. TypeOK'  BY <1>a
<1>2. PcInv'  BY <1>a DEF PcInv
<1>3. CurInv'  BY <1>a DEF CurInv, PcInv
<1>4. ForkInv'  BY <1>a DEF ForkInv, PcInv
<1>5. IdleInv'  BY <1>a DEF IdleInv, PcInv
<1>6. ArgInv'  BY <1>a DEF ArgInv
<1>7. LockInv'  BY <1>a DEF LockInv, NeedsLock, CurInv
<1>8. FreeInv'  BY <1>a DEF FreeInv, LockInv, NeedsLock, CurInv
<1>9. LkInv'  BY <1>a DEF LkInv, CurInv
<1>10. StackOwned'  BY <1>a DEF StackOwned, PcInv, CurInv
<1>11. ParentAlive'  BY <1>a DEF ParentAlive, PcInv, CurInv, ForkInv
<1>12. NoMissedExit'  BY <1>a DEF NoMissedExit, Children, Zombies, PcInv
<1>13. KeepInv'  BY <1>a DEF KeepInv, CurInv, PcInv
<1> QED
  BY <1>1, <1>2, <1>3, <1>4, <1>5, <1>6, <1>7, <1>8, <1>9, <1>10, <1>11, <1>12,
     <1>13

(* LkAcquire keeps the invariant. *)
LEMMA LkAcquireInv ==
  ASSUME TableInv, NEW c \in CPU, NEW p \in Slot, LkAcquire(c, p)
  PROVE  TableInv'
<1> USE InitProcIsSlot DEF LkAcquire, HoldsNone
<1>a. state[p] = "RUNNING"  BY DEF CurInv
<1>1. TypeOK'  BY <1>a
<1>2. PcInv'  BY <1>a DEF PcInv
<1>3. CurInv'  BY <1>a DEF CurInv, PcInv
<1>4. ForkInv'  BY <1>a DEF ForkInv, PcInv
<1>5. IdleInv'  BY <1>a DEF IdleInv, PcInv
<1>6. ArgInv'  BY <1>a DEF ArgInv
<1>7. LockInv'  BY <1>a DEF LockInv, NeedsLock, CurInv
<1>8. FreeInv'  BY <1>a DEF FreeInv, LockInv, NeedsLock, CurInv
<1>9. LkInv'  BY <1>a DEF LkInv, CurInv
<1>10. StackOwned'  BY <1>a DEF StackOwned, PcInv, CurInv
<1>11. ParentAlive'  BY <1>a DEF ParentAlive, PcInv, CurInv, ForkInv
<1>12. NoMissedExit'  BY <1>a DEF NoMissedExit, Children, Zombies, PcInv
<1>13. KeepInv'  BY <1>a DEF KeepInv, CurInv, PcInv
<1> QED
  BY <1>1, <1>2, <1>3, <1>4, <1>5, <1>6, <1>7, <1>8, <1>9, <1>10, <1>11, <1>12,
     <1>13

(* LkRelease keeps the invariant. *)
LEMMA LkReleaseInv ==
  ASSUME TableInv, NEW c \in CPU, NEW p \in Slot, LkRelease(c, p)
  PROVE  TableInv'
<1> USE InitProcIsSlot DEF LkRelease
<1>a. state[p] = "RUNNING"  BY DEF CurInv
<1>1. TypeOK'  BY <1>a
<1>2. PcInv'  BY <1>a DEF PcInv
<1>3. CurInv'  BY <1>a DEF CurInv, PcInv
<1>4. ForkInv'  BY <1>a DEF ForkInv, PcInv
<1>5. IdleInv'  BY <1>a DEF IdleInv, PcInv
<1>6. ArgInv'  BY <1>a DEF ArgInv
<1>7. LockInv'  BY <1>a DEF LockInv, NeedsLock, CurInv
<1>8. FreeInv'  BY <1>a DEF FreeInv, LockInv, NeedsLock, CurInv
<1>9. LkInv'  BY <1>a DEF LkInv, CurInv
<1>10. StackOwned'  BY <1>a DEF StackOwned, PcInv, CurInv
<1>11. ParentAlive'  BY <1>a DEF ParentAlive, PcInv, CurInv, ForkInv
<1>12. NoMissedExit'  BY <1>a DEF NoMissedExit, Children, Zombies, PcInv
<1>13. KeepInv'  BY <1>a DEF KeepInv, CurInv, PcInv
<1> QED
  BY <1>1, <1>2, <1>3, <1>4, <1>5, <1>6, <1>7, <1>8, <1>9, <1>10, <1>11, <1>12,
     <1>13

(* KeepAcquire keeps the invariant. *)
LEMMA KeepAcquireInv ==
  ASSUME TableInv, NEW c \in CPU, NEW p \in Slot, KeepAcquire(c, p)
  PROVE  TableInv'
<1> USE InitProcIsSlot DEF KeepAcquire, HoldsNone
<1>a. state[p] = "RUNNING"  BY DEF CurInv
<1>1. TypeOK'  BY <1>a
<1>2. PcInv'  BY <1>a DEF PcInv
<1>3. CurInv'  BY <1>a DEF CurInv, PcInv
<1>4. ForkInv'  BY <1>a DEF ForkInv, PcInv
<1>5. IdleInv'  BY <1>a DEF IdleInv, PcInv
<1>6. ArgInv'  BY <1>a DEF ArgInv
<1>7. LockInv'  BY <1>a DEF LockInv, NeedsLock, CurInv
<1>8. FreeInv'  BY <1>a DEF FreeInv, LockInv, NeedsLock, CurInv
<1>9. LkInv'  BY <1>a DEF LkInv, CurInv
<1>10. StackOwned'  BY <1>a DEF StackOwned, PcInv, CurInv
<1>11. ParentAlive'  BY <1>a DEF ParentAlive, PcInv, CurInv, ForkInv
<1>12. NoMissedExit'  BY <1>a DEF NoMissedExit, Children, Zombies, PcInv
<1>13. KeepInv'  BY <1>a DEF KeepInv, CurInv, PcInv
<1> QED
  BY <1>1, <1>2, <1>3, <1>4, <1>5, <1>6, <1>7, <1>8, <1>9, <1>10, <1>11, <1>12,
     <1>13

(* KeepRelease keeps the invariant. *)
LEMMA KeepReleaseInv ==
  ASSUME TableInv, NEW c \in CPU, NEW p \in Slot, KeepRelease(c, p)
  PROVE  TableInv'
<1> USE InitProcIsSlot DEF KeepRelease
<1>a. state[p] = "RUNNING"  BY DEF CurInv
<1>1. TypeOK'  BY <1>a
<1>2. PcInv'  BY <1>a DEF PcInv
<1>3. CurInv'  BY <1>a DEF CurInv, PcInv
<1>4. ForkInv'  BY <1>a DEF ForkInv, PcInv
<1>5. IdleInv'  BY <1>a DEF IdleInv, PcInv
<1>6. ArgInv'  BY <1>a DEF ArgInv
<1>7. LockInv'  BY <1>a DEF LockInv, NeedsLock, CurInv
<1>8. FreeInv'  BY <1>a DEF FreeInv, LockInv, NeedsLock, CurInv
<1>9. LkInv'  BY <1>a DEF LkInv, CurInv
<1>10. StackOwned'  BY <1>a DEF StackOwned, PcInv, CurInv
<1>11. ParentAlive'  BY <1>a DEF ParentAlive, PcInv, CurInv, ForkInv
<1>12. NoMissedExit'  BY <1>a DEF NoMissedExit, Children, Zombies, PcInv
<1>13. KeepInv'  BY <1>a DEF KeepInv, CurInv, PcInv
<1> QED
  BY <1>1, <1>2, <1>3, <1>4, <1>5, <1>6, <1>7, <1>8, <1>9, <1>10, <1>11, <1>12,
     <1>13

(* Leave keeps the invariant. *)
LEMMA LeaveInv ==
  ASSUME TableInv, NEW c \in CPU, NEW p \in Slot, Leave(c, p)
  PROVE  TableInv'
<1> USE InitProcIsSlot DEF Leave, HoldsNone
<1>a. state[p] = "RUNNING"  BY DEF CurInv
<1>1. TypeOK'  BY <1>a
<1>2. PcInv'  BY <1>a DEF PcInv
<1>3. CurInv'  BY <1>a DEF CurInv, PcInv
<1>4. ForkInv'  BY <1>a DEF ForkInv, PcInv
<1>5. IdleInv'  BY <1>a DEF IdleInv, PcInv
<1>6. ArgInv'  BY <1>a DEF ArgInv
<1>7. LockInv'  BY <1>a DEF LockInv, NeedsLock, CurInv
<1>8. FreeInv'  BY <1>a DEF FreeInv, LockInv, NeedsLock, CurInv
<1>9. LkInv'  BY <1>a DEF LkInv, CurInv
<1>10. StackOwned'  BY <1>a DEF StackOwned, PcInv, CurInv
<1>11. ParentAlive'  BY <1>a DEF ParentAlive, PcInv, CurInv, ForkInv
<1>12. NoMissedExit'  BY <1>a DEF NoMissedExit, Children, Zombies, PcInv
<1>13. KeepInv'  BY <1>a DEF KeepInv, CurInv, PcInv
<1> QED
  BY <1>1, <1>2, <1>3, <1>4, <1>5, <1>6, <1>7, <1>8, <1>9, <1>10, <1>11, <1>12,
     <1>13

(* CallSleep keeps the invariant. *)
LEMMA CallSleepInv ==
  ASSUME TableInv, NEW c \in CPU, NEW p \in Slot, CallSleep(c, p)
  PROVE  TableInv'
<1> USE InitProcIsSlot DEF CallSleep
<1>a. state[p] = "RUNNING"  BY DEF CurInv
<1>1. TypeOK'  BY <1>a
<1>2. PcInv'  BY <1>a DEF PcInv
<1>3. CurInv'  BY <1>a DEF CurInv, PcInv
<1>4. ForkInv'
  <2>1. \A q \in Slot : pc'[q] \in ForkPC <=> pc[q] \in ForkPC
    OBVIOUS
  <2>2. \A q \in Slot : pc'[q] = "copy" => pc[q] = "copy"
    OBVIOUS
  <2>3. \A q \in Slot : state[q] = "EMBRYO" =>
          state'[q] = "EMBRYO" /\ (parent[q] = Nil => parent'[q] = Nil)
    BY <1>a DEF PcInv
  <2>4. ForkInv /\ np' = np /\ np \in [Slot -> Slot \cup {Nil}]
    OBVIOUS
  <2> HIDE DEF TableInv
  <2> QED BY <2>1, <2>2, <2>3, <2>4, ForkKept
<1>5. IdleInv'  BY <1>a DEF IdleInv, PcInv
<1>6. ArgInv'  BY <1>a DEF ArgInv
<1>7. LockInv'  BY <1>a DEF LockInv, NeedsLock, CurInv
<1>8. FreeInv'  BY <1>a DEF FreeInv, LockInv, NeedsLock, CurInv
<1>9. LkInv'  BY <1>a DEF LkInv, CurInv
<1>10. StackOwned'  BY <1>a DEF StackOwned, PcInv, CurInv
<1>11. ParentAlive'  BY <1>a DEF ParentAlive, PcInv, CurInv, ForkInv
<1>12. NoMissedExit'  BY <1>a DEF NoMissedExit, Children, Zombies, PcInv
<1>13. KeepInv'  BY <1>a DEF KeepInv, CurInv, PcInv
<1> QED
  BY <1>1, <1>2, <1>3, <1>4, <1>5, <1>6, <1>7, <1>8, <1>9, <1>10, <1>11, <1>12,
     <1>13

(* SleepRelease keeps the invariant. *)
LEMMA SleepReleaseInv ==
  ASSUME TableInv, NEW c \in CPU, NEW p \in Slot, SleepRelease(c, p)
  PROVE  TableInv'
<1> USE InitProcIsSlot DEF SleepRelease
<1>a. state[p] = "RUNNING"  BY DEF CurInv
<1>1. TypeOK'  BY <1>a
<1>2. PcInv'  BY <1>a DEF PcInv
<1>3. CurInv'  BY <1>a DEF CurInv, PcInv
<1>4. ForkInv'  BY <1>a DEF ForkInv, PcInv
<1>5. IdleInv'  BY <1>a DEF IdleInv, PcInv
<1>6. ArgInv'  BY <1>a DEF ArgInv
<1>7. LockInv'  BY <1>a DEF LockInv, NeedsLock, CurInv
<1>8. FreeInv'  BY <1>a DEF FreeInv, LockInv, NeedsLock, CurInv
<1>9. LkInv'  BY <1>a DEF LkInv, CurInv
<1>10. StackOwned'  BY <1>a DEF StackOwned, PcInv, CurInv
<1>11. ParentAlive'  BY <1>a DEF ParentAlive, PcInv, CurInv, ForkInv
<1>12. NoMissedExit'  BY <1>a DEF NoMissedExit, Children, Zombies, PcInv
<1>13. KeepInv'  BY <1>a DEF KeepInv, CurInv, PcInv
<1> QED
  BY <1>1, <1>2, <1>3, <1>4, <1>5, <1>6, <1>7, <1>8, <1>9, <1>10, <1>11, <1>12,
     <1>13

(* Sleep keeps the invariant. *)
LEMMA SleepInv ==
  ASSUME TableInv, NEW c \in CPU, NEW p \in Slot, Sleep(c, p)
  PROVE  TableInv'
<1> USE InitProcIsSlot DEF Sleep
<1>a. state[p] = "RUNNING"  BY DEF CurInv
<1>b. \A q \in Slot : np[q] # p  BY <1>a DEF ForkInv
<1>1. TypeOK'  BY <1>a, <1>b
<1>2. PcInv'  BY <1>a, <1>b DEF PcInv
<1>3. CurInv'  BY <1>a, <1>b DEF CurInv, PcInv
<1>4. ForkInv'  BY <1>a, <1>b DEF ForkInv
<1>5. IdleInv'  BY <1>a, <1>b DEF IdleInv, PcInv
<1>6. ArgInv'  BY <1>a, <1>b DEF ArgInv
<1>7. LockInv'  BY <1>a, <1>b DEF LockInv, NeedsLock, CurInv
<1>8. FreeInv'  BY <1>a, <1>b DEF FreeInv, LockInv, NeedsLock, CurInv
<1>9. LkInv'  BY <1>a, <1>b DEF LkInv, CurInv
<1>10. StackOwned'  BY <1>a, <1>b DEF StackOwned, PcInv, CurInv
<1>11. ParentAlive'  BY <1>a, <1>b DEF ParentAlive, PcInv, CurInv, ForkInv
<1>12. NoMissedExit'  BY <1>a, <1>b DEF NoMissedExit, Children, Zombies, PcInv
<1>13. KeepInv'
  <2>1. \A q \in Slot : pc'[q] = IF q = p THEN "sleepW" ELSE pc[q]
    OBVIOUS
  <2>2. \A q \in Slot : slept'[q] <=> IF q = p THEN keeps[p] # Nil ELSE slept[q]
    OBVIOUS
  <2>3. KeepInv /\ UNCHANGED <<keeps, keepcpu, cur>> /\ pc[p] = "sleepM"
    OBVIOUS
  <2> HIDE DEF Sleep, TableInv
  <2> QED BY <2>1, <2>2, <2>3 DEF KeepInv
<1> QED
  BY <1>1, <1>2, <1>3, <1>4, <1>5, <1>6, <1>7, <1>8, <1>9, <1>10, <1>11, <1>12,
     <1>13

(* SleepResume keeps the invariant. *)
LEMMA SleepResumeInv ==
  ASSUME TableInv, NEW c \in CPU, NEW p \in Slot, SleepResume(c, p)
  PROVE  TableInv'
<1> USE InitProcIsSlot DEF SleepResume
<1>a. state[p] = "RUNNING"  BY DEF CurInv
<1>1. TypeOK'  BY <1>a
<1>2. PcInv'  BY <1>a DEF PcInv
<1>3. CurInv'  BY <1>a DEF CurInv, PcInv
<1>4. ForkInv'  BY <1>a DEF ForkInv, PcInv
<1>5. IdleInv'  BY <1>a DEF IdleInv, PcInv
<1>6. ArgInv'  BY <1>a DEF ArgInv
<1>7. LockInv'  BY <1>a DEF LockInv, NeedsLock, CurInv
<1>8. FreeInv'  BY <1>a DEF FreeInv, LockInv, NeedsLock, CurInv
<1>9. LkInv'  BY <1>a DEF LkInv, CurInv
<1>10. StackOwned'  BY <1>a DEF StackOwned, PcInv, CurInv
<1>11. ParentAlive'  BY <1>a DEF ParentAlive, PcInv, CurInv, ForkInv
<1>12. NoMissedExit'  BY <1>a DEF NoMissedExit, Children, Zombies, PcInv
<1>13. KeepInv'  BY <1>a DEF KeepInv, CurInv, PcInv
<1> QED
  BY <1>1, <1>2, <1>3, <1>4, <1>5, <1>6, <1>7, <1>8, <1>9, <1>10, <1>11, <1>12,
     <1>13

(* SleepReacquire keeps the invariant. *)
LEMMA SleepReacquireInv ==
  ASSUME TableInv, NEW c \in CPU, NEW p \in Slot, SleepReacquire(c, p)
  PROVE  TableInv'
<1> USE InitProcIsSlot DEF SleepReacquire
<1>a. state[p] = "RUNNING"  BY DEF CurInv
<1>1. TypeOK'  BY <1>a
<1>2. PcInv'  BY <1>a DEF PcInv
<1>3. CurInv'  BY <1>a DEF CurInv, PcInv
<1>4. ForkInv'  BY <1>a DEF ForkInv, PcInv
<1>5. IdleInv'  BY <1>a DEF IdleInv, PcInv
<1>6. ArgInv'  BY <1>a DEF ArgInv
<1>7. LockInv'  BY <1>a DEF LockInv, NeedsLock, CurInv
<1>8. FreeInv'  BY <1>a DEF FreeInv, LockInv, NeedsLock, CurInv
<1>9. LkInv'
  <2>1. \A l \in Lock : lkcpu[l] # c
    BY DEF LkInv
  <2> QED BY <1>a, <2>1 DEF LkInv, CurInv
<1>10. StackOwned'  BY <1>a DEF StackOwned, PcInv, CurInv
<1>11. ParentAlive'  BY <1>a DEF ParentAlive, PcInv, CurInv, ForkInv
<1>12. NoMissedExit'  BY <1>a DEF NoMissedExit, Children, Zombies, PcInv
<1>13. KeepInv'  BY <1>a DEF KeepInv, CurInv, PcInv
<1> QED
  BY <1>1, <1>2, <1>3, <1>4, <1>5, <1>6, <1>7, <1>8, <1>9, <1>10, <1>11, <1>12,
     <1>13

(* CallWakeup keeps the invariant. *)
LEMMA CallWakeupInv ==
  ASSUME TableInv, NEW c \in CPU, NEW p \in Slot, CallWakeup(c, p)
  PROVE  TableInv'
<1> USE InitProcIsSlot DEF CallWakeup
<1>a. state[p] = "RUNNING"  BY DEF CurInv
<1>1. TypeOK'  BY <1>a
<1>2. PcInv'  BY <1>a DEF PcInv
<1>3. CurInv'  BY <1>a DEF CurInv, PcInv
<1>4. ForkInv'
  <2>1. \A q \in Slot : pc'[q] \in ForkPC <=> pc[q] \in ForkPC
    OBVIOUS
  <2>2. \A q \in Slot : pc'[q] = "copy" => pc[q] = "copy"
    OBVIOUS
  <2>3. \A q \in Slot : state[q] = "EMBRYO" =>
          state'[q] = "EMBRYO" /\ (parent[q] = Nil => parent'[q] = Nil)
    BY <1>a DEF PcInv
  <2>4. ForkInv /\ np' = np /\ np \in [Slot -> Slot \cup {Nil}]
    OBVIOUS
  <2> HIDE DEF TableInv
  <2> QED BY <2>1, <2>2, <2>3, <2>4, ForkKept
<1>5. IdleInv'  BY <1>a DEF IdleInv, PcInv
<1>6. ArgInv'  BY <1>a DEF ArgInv
<1>7. LockInv'  BY <1>a DEF LockInv, NeedsLock, CurInv
<1>8. FreeInv'  BY <1>a DEF FreeInv, LockInv, NeedsLock, CurInv
<1>9. LkInv'  BY <1>a DEF LkInv, CurInv
<1>10. StackOwned'  BY <1>a DEF StackOwned, PcInv, CurInv
<1>11. ParentAlive'  BY <1>a DEF ParentAlive, PcInv, CurInv, ForkInv
<1>12. NoMissedExit'  BY <1>a DEF NoMissedExit, Children, Zombies, PcInv
<1>13. KeepInv'  BY <1>a DEF KeepInv, CurInv, PcInv
<1> QED
  BY <1>1, <1>2, <1>3, <1>4, <1>5, <1>6, <1>7, <1>8, <1>9, <1>10, <1>11, <1>12,
     <1>13

(* Wakeup keeps the invariant. *)
LEMMA WakeupInv ==
  ASSUME TableInv, NEW c \in CPU, NEW p \in Slot, Wakeup(c, p)
  PROVE  TableInv'
<1> USE InitProcIsSlot DEF Wakeup, Woken
<1>a. state[p] = "RUNNING"  BY DEF CurInv
<1>l. lock = c  BY DEF LockInv, NeedsLock
<1>b. \A q \in Slot : pc[q] \notin SchedPC  BY <1>l, NobodyInSched
<1>1. TypeOK'  BY <1>a, <1>b
<1>2. PcInv'  BY <1>a, <1>b DEF PcInv
<1>3. CurInv'  BY <1>a, <1>b DEF CurInv, PcInv
<1>4. ForkInv'  BY <1>a, <1>b DEF ForkInv, PcInv
<1>5. IdleInv'  BY <1>a, <1>b DEF IdleInv, PcInv
<1>6. ArgInv'  BY <1>a, <1>b DEF ArgInv
<1>7. LockInv'  BY <1>a, <1>b DEF LockInv, NeedsLock, CurInv
<1>8. FreeInv'  BY <1>a, <1>b DEF FreeInv, LockInv, NeedsLock, CurInv
<1>9. LkInv'  BY <1>a, <1>b DEF LkInv, CurInv
<1>10. StackOwned'  BY <1>a, <1>b DEF StackOwned, PcInv, CurInv
<1>11. ParentAlive'  BY <1>a, <1>b DEF ParentAlive, PcInv, CurInv, ForkInv
<1>12. NoMissedExit'  BY <1>a, <1>b DEF NoMissedExit, Children, Zombies, PcInv
<1>13. KeepInv'  BY <1>a, <1>b DEF KeepInv, CurInv, PcInv
<1> QED
  BY <1>1, <1>2, <1>3, <1>4, <1>5, <1>6, <1>7, <1>8, <1>9, <1>10, <1>11, <1>12,
     <1>13

-----------------------------------------------------------------------------
(* What main() leaves satisfies the invariant. *)
LEMMA TableInvInit == Init => TableInv
<1> USE InitProcIsSlot DEF Init
<1> SUFFICES ASSUME Init PROVE TableInv
  OBVIOUS
<1>1. TypeOK /\ ParentAlive /\ NoMissedExit
  BY DEF ParentAlive, NoMissedExit
<1>0. StackOwned
  BY DEF StackOwned
<1>2. PcInv /\ CurInv /\ ForkInv /\ ArgInv
  BY DEF PcInv, CurInv, ForkInv, ArgInv
<1>3. IdleInv
  BY DEF IdleInv, Idle
<1>4. LockInv /\ FreeInv /\ LkInv /\ KeepInv
  BY DEF LockInv, FreeInv, NeedsLock, LkInv, KeepInv
<1> QED BY <1>0, <1>1, <1>2, <1>3, <1>4

(* Every step of every CPU keeps the invariant. *)
LEMMA TableInvNext == TableInv /\ [Next]_vars => TableInv'
<1> SUFFICES ASSUME TableInv, [Next]_vars PROVE TableInv'
  OBVIOUS
<1>1. ASSUME NEW c \in CPU, SchedStep(c) PROVE TableInv'
  BY <1>1, SchedAcquireInv, SchedSkipInv, SchedRunInv, SchedReleaseInv DEF SchedStep
<1>2. ASSUME NEW c \in CPU, NEW p \in Slot, ForkStep(c, p) PROVE TableInv'
  BY <1>2, ForkNoSlotInv, ForkNoStackInv, ForkAllocInv, ForkNoCopyInv,
     ForkCopyInv, ForkStartInv DEF ForkStep
<1>3. ASSUME NEW c \in CPU, NEW p \in Slot, WaitStep(c, p) PROVE TableInv'
  BY <1>3, WaitReapInv, WaitNoneInv, WaitSleepInv, WaitResumeInv DEF WaitStep
<1>4. ASSUME NEW c \in CPU, NEW p \in Slot, ClientStep(c, p) PROVE TableInv'
  BY <1>4, LkAcquireInv, LkReleaseInv, KeepAcquireInv, KeepReleaseInv, LeaveInv,
     CallSleepInv, SleepReleaseInv,
     SleepInv, SleepResumeInv, SleepReacquireInv, CallWakeupInv, WakeupInv DEF ClientStep
<1>5. ASSUME NEW c \in CPU, NEW p \in Slot, ProcStep(c, p) PROVE TableInv'
  BY <1>2, <1>3, <1>4, <1>5, TimerIRQInv, DeviceIRQInv, SyscallInv, AcquireInv,
     YieldInv, SchedInv, ReturnToUserInv, ExitInv DEF ProcStep
<1>6. CASE UNCHANGED vars
  BY <1>6 DEF vars, PcInv, CurInv, ForkInv, IdleInv, ArgInv, LockInv, FreeInv, NeedsLock,
     LkInv, KeepInv, StackOwned, ParentAlive, NoMissedExit, Children, Zombies
<1> HIDE DEF TableInv
<1> QED BY <1>1, <1>5, <1>6 DEF Next

(* TableInv, and with it each part of it, holds in every reachable state. *)
THEOREM TableInvariant == Spec => []TableInv
  BY TableInvInit, TableInvNext, PTL DEF Spec

-----------------------------------------------------------------------------
(* What the invariant is for. *)

(* proc.c keeps the types of the process table and of its locks. *)
THEOREM TypeCorrect == Spec => []TypeOK
<1>1. TableInv => TypeOK
  BY DEF TableInv
<1> QED BY <1>1, TableInvariant, PTL

(* However yield, sleep, exit and the schedulers interleave, no process is *)
(* taken by two CPUs: a process that has stored its new state is still     *)
(* covered by ptable.lock until swtch has left its stack.                  *)
THEOREM OneCpu == Spec => []OneCpuPerProcess
<1>1. TableInv => OneCpuPerProcess
  BY DEF CurInv, OneCpuPerProcess
<1> QED BY <1>1, TableInvariant, PTL

(* wait never frees the stack a CPU runs on. *)
THEOREM StacksOwned == Spec => []StackOwned
<1>1. TableInv => StackOwned
  BY DEF TableInv
<1> QED BY <1>1, TableInvariant, PTL

(* A parent asleep in wait has no exited child. *)
THEOREM NoExitMissed == Spec => []NoMissedExit
<1>1. TableInv => NoMissedExit
  BY DEF TableInv
<1> QED BY <1>1, TableInvariant, PTL

(* No process has a dead parent. *)
THEOREM ParentsAlive == Spec => []ParentAlive
<1>1. TableInv => ParentAlive
  BY DEF TableInv
<1> QED BY <1>1, TableInvariant, PTL

(* Only a sleep with a second lock held, and a proc_alloc that returns     *)
(* without release, can bring a CPU to a panic of the lock protocol, and   *)
(* the latter only the CPU it runs on.                                     *)
THEOREM PanicFree == Spec => []NoPanic
<1>1. TableInv => NoPanic
  <2> SUFFICES ASSUME TableInv PROVE NoPanic
    OBVIOUS
  <2>1. ASSUME NEW c \in CPU
        PROVE  lock = c <=> NeedsLock(c) \/ c = leaker
    BY DEF LockInv, FreeInv
  <2>2. ASSUME NEW c \in CPU, cur[c] = Nil
        PROVE  lock = c <=> scan[c] # 0
    BY <2>1, <2>2 DEF NeedsLock, FreeInv
  <2>3. ASSUME NEW c \in CPU, NEW p \in Slot, cur[c] = p
        PROVE  /\ lock = c <=> pc[p] \in LockedPC \/ c = leaker
               /\ pc[p] # "dead"
               /\ pc[p] \in SchedPC => state[p] # "RUNNING"
               /\ pc[p] \in {"sleep", "sleepL"} => lkcpu[arg[p].lk] = c
               /\ pc[p] \in {"user", "reacq", "yield"} => HoldsNone(c)
               /\ pc[p] = "user" => keeps[p] = Nil
               /\ keeps[p] # Nil /\ ~slept[p] => keepcpu[keeps[p]] = c
    <3>1. lock = c <=> pc[p] \in LockedPC \/ c = leaker
      BY <2>1, <2>3 DEF NeedsLock
    <3>2. pc[p] # "dead" /\ (pc[p] \in SchedPC => state[p] # "RUNNING")
      BY <2>3 DEF CurInv, PcInv
    <3>3. /\ pc[p] \in {"sleep", "sleepL"} => lkcpu[arg[p].lk] = c
          /\ pc[p] \in {"user", "reacq", "yield"} => HoldsNone(c)
      BY <2>3 DEF LkInv, HoldsNone
    <3>4. pc[p] = "user" => keeps[p] = Nil
      BY DEF KeepInv
    <3>5. keeps[p] # Nil /\ ~slept[p] => keepcpu[keeps[p]] = c
      BY <2>3 DEF KeepInv, CurInv
    <3> QED BY <3>1, <3>2, <3>3, <3>4, <3>5
  <2>4. ASSUME NEW l \in Kept, keepcpu[l] # Nil
        PROVE  \E p \in Slot : keeps[p] = l /\ (slept[p] \/ cur[keepcpu[l]] = p)
    BY <2>4 DEF KeepInv
  <2>5. \A c \in CPU : cur[c] = Nil \/ cur[c] \in Slot
    OBVIOUS
  <2> HIDE DEF TableInv, LockedPC, SchedPC
  <2> QED BY <2>2, <2>3, <2>4, <2>5 DEF NoPanic
<1> QED BY <1>1, TableInvariant, PTL

(* wakeup(chan) leaves no sleeper of chan behind: sleep takes ptable.lock  *)
(* before it releases lk, so none is between the two while wakeup scans.   *)
THEOREM WakeupComplete == Spec => WakeupReachesAll
<1>1. ASSUME TableInv, NEW c \in CPU, NEW p \in Slot, Wakeup(c, p),
             NEW ch \in Chan, arg[p].chan = ch, NEW q \in Slot
      PROVE  ~GoingToSleep(q, ch)'
  <2> USE <1>1 DEF Wakeup, Woken
  <2> SUFFICES ASSUME GoingToSleep(q, ch)' PROVE FALSE
    OBVIOUS
  <2>1. q # p /\ arg[q].chan = ch
        /\ \/ pc[q] = "sleepM"
           \/ pc[q] \in {"sleepW", "sleepS"} /\ state[q] = "SLEEPING" /\ chan[q] # ch
    BY DEF GoingToSleep
  <2>2. CASE pc[q] = "sleepM"
    <3>0. state[q] = "RUNNING"
      BY <2>2 DEF PcInv
    <3>1. PICK d \in CPU : cur[d] = q
      BY <3>0 DEF CurInv
    <3>2. lock = c /\ lock = d
      BY <2>2, <3>1 DEF LockInv, NeedsLock
    <3> QED BY <2>1, <3>1, <3>2
  <2>3. CASE pc[q] # "sleepM"
    BY <2>1, <2>3 DEF PcInv
  <2> QED BY <2>2, <2>3
<1>2. TableInv /\ [Next]_vars =>
        [\A c \in CPU, p \in Slot, ch \in Chan :
            Wakeup(c, p) /\ arg[p].chan = ch =>
                \A q \in Slot : ~GoingToSleep(q, ch)']_vars
  BY <1>1
<1> QED BY <1>2, TableInvariant, PTL DEF Spec, WakeupReachesAll

-----------------------------------------------------------------------------
(* Proc implements ProcTable (see ProcRefines). *)

HIDE ProcAssumption DEF TableInv, TypeOK, Slot, State, NoArg, PC, AcquirePC,
    LockedPC, BodyPC, SchedPC, ResumePC, ForkPC, IdlePC, Alive, Goto, At, Release

(* A child that cannot run yet is the child of the fork that makes it. *)
EmbryoInv ==
    /\ \A p \in Slot : pc[p] = "start" => parent[np[p]] = p
    /\ \A q \in Slot : state[q] = "EMBRYO" /\ parent[q] # Nil =>
          pc[parent[q]] = "start" /\ np[parent[q]] = q

(* A wakeup is for a channel. *)
WakingInv ==
    \A p \in Slot : pc[p] \in {"wakeup", "wakeupL"} => arg[p].chan \in Chan

(* What the fields of the table are. *)
LEMMA TableTypes ==
  ASSUME TableInv
  PROVE  /\ lock \in CPU \cup {Nil} /\ cur \in [CPU -> Slot \cup {Nil}]
         /\ state \in [Slot -> State] /\ parent \in [Slot -> Slot \cup {Nil}]
         /\ chan \in [Slot -> Slot \cup Chan \cup {Nil}]
         /\ pc \in [Slot -> PC] /\ np \in [Slot -> Slot \cup {Nil}]
         /\ arg \in [Slot -> [lk : Lock \cup {Nil}, chan : Chan \cup {Nil}]]
         /\ lkcpu \in [Lock -> CPU \cup {Nil}]
         /\ Nil \notin CPU /\ Nil \notin Slot /\ Nil \notin Lock /\ Nil \notin Chan
         /\ Chan \cap Slot = {}
  BY ProcAssumption DEF TableInv, TypeOK

(* The process that a CPU runs outside sched is RUNNING. *)
LEMMA RunsRunning ==
  ASSUME TableInv, NEW c \in CPU, NEW p \in Slot, cur[c] = p, pc[p] \notin SchedPC
  PROVE  state[p] = "RUNNING"
  BY DEF TableInv, CurInv


(* Every step keeps what is known of the unborn. *)
LEMMA EmbryoInvNext == TableInv /\ EmbryoInv /\ [Next]_vars => EmbryoInv'
<1> SUFFICES ASSUME TableInv, EmbryoInv, [Next]_vars PROVE EmbryoInv'
  OBVIOUS
<1> USE TableTypes DEF Goto, At, Release
<1>1. ASSUME UNCHANGED parent,
             \A q \in Slot : /\ pc[q] = "start" => pc'[q] = "start" /\ np'[q] = np[q]
                             /\ pc'[q] = "start" => pc[q] = "start" /\ np'[q] = np[q]
                             /\ state'[q] = "EMBRYO" => state[q] = "EMBRYO"
      PROVE  EmbryoInv'
  BY <1>1 DEF EmbryoInv
<1>2. ASSUME NEW c \in CPU, SchedStep(c) PROVE EmbryoInv'
  BY <1>1, <1>2 DEF SchedStep, SchedAcquire, SchedSkip, SchedRun, SchedRelease
<1>3. ASSUME NEW c \in CPU, NEW p \in Slot,
             \/ TimerIRQ(c, p) \/ DeviceIRQ(c, p) \/ Syscall(c, p) \/ Acquire(c, p)
             \/ Yield(c, p) \/ Sched(c, p) \/ ReturnToUser(c, p)
      PROVE  EmbryoInv'
  BY <1>1, <1>3 DEF TimerIRQ, DeviceIRQ, Syscall, Acquire, Yield, Sched, ReturnToUser,
                    AcquirePC, SchedPC, Entry, Saved
<1>4. ASSUME NEW c \in CPU, NEW p \in Slot,
             ForkNoSlot(c, p) \/ ForkNoStack(c, p) \/ ForkNoCopy(c, p) \/ ForkStart(c, p)
      PROVE  EmbryoInv'
  <2>1. CASE ForkNoSlot(c, p) \/ ForkNoStack(c, p) \/ ForkNoCopy(c, p)
    BY <1>1, <2>1 DEF ForkNoSlot, ForkNoStack, ForkNoCopy
  <2>2. CASE ForkStart(c, p)
    <3>1. /\ pc[p] = "start" /\ pc' = [pc EXCEPT ![p] = "user"] /\ parent' = parent
          /\ np' = [np EXCEPT ![p] = Nil] /\ state' = [state EXCEPT ![np[p]] = "RUNNABLE"]
      BY <2>2 DEF ForkStart
    <3> QED
      BY <3>1 DEF EmbryoInv
  <2> QED
    BY <1>4, <2>1, <2>2
<1>5. ASSUME NEW c \in CPU, NEW p \in Slot, ForkAlloc(c, p) PROVE EmbryoInv'
  <2>1. PICK q \in Slot : /\ state[q] = "UNUSED" /\ pc[p] = "forkL"
                          /\ state' = [state EXCEPT ![q] = "EMBRYO"]
                          /\ np' = [np EXCEPT ![p] = q] /\ parent' = parent
                          /\ pc' = [pc EXCEPT ![q] = "forkret", ![p] = "copy"]
    BY <1>5 DEF ForkAlloc, First, Unused
  <2>2. parent[q] = Nil
    BY <2>1 DEF TableInv, ParentAlive
  <2>3. pc[q] # "start"
    BY <2>1 DEF TableInv, PcInv
  <2> QED
    BY <2>1, <2>2, <2>3 DEF EmbryoInv
<1>6. ASSUME NEW c \in CPU, NEW p \in Slot, ForkCopy(c, p) PROVE EmbryoInv'
  <2>1. np[p] \in Slot
    BY <1>6 DEF ForkCopy, TableInv, ForkInv, ForkPC
  <2>2. \A q \in Slot : pc[q] = "start" => np[q] # np[p]
    BY <1>6, <2>1 DEF ForkCopy, TableInv, ForkInv, ForkPC
  <2> QED
    BY <1>6, <2>1, <2>2 DEF ForkCopy, EmbryoInv
<1>7. ASSUME NEW c \in CPU, NEW p \in Slot, Exit(c, p) PROVE EmbryoInv'
  <2>1. /\ pc[p] = "exitL" /\ pc' = [pc EXCEPT ![p] = "exitW"] /\ np' = np
        /\ parent' = [q \in Slot |-> IF parent[q] = p THEN InitProc ELSE parent[q]]
        /\ \A q \in Slot : state'[q] = "EMBRYO" => state[q] = "EMBRYO"
    BY <1>7 DEF Exit, Children, Woken
  <2> QED
    BY <2>1 DEF EmbryoInv, TableInv, ForkInv, ForkPC
<1>8. ASSUME NEW c \in CPU, NEW p \in Slot, WaitReap(c, p) PROVE EmbryoInv'
  <2>1. PICK q \in Slot : /\ state[q] = "ZOMBIE" /\ pc[p] = "waitL" /\ np' = np
                          /\ state' = [state EXCEPT ![q] = "UNUSED"]
                          /\ parent' = [parent EXCEPT ![q] = Nil]
                          /\ pc' = [pc EXCEPT ![p] = "user"]
    BY <1>8 DEF WaitReap, First, Zombies, Children
  <2>2. \A r \in Slot : pc[r] = "start" => np[r] # q
    BY <2>1 DEF TableInv, ForkInv, ForkPC
  <2> QED
    BY <2>1, <2>2 DEF EmbryoInv
<1>9. ASSUME NEW c \in CPU, NEW p \in Slot, 
             WaitNone(c, p) \/ WaitSleep(c, p) \/ WaitResume(c, p)
      PROVE  EmbryoInv'
  BY <1>1, <1>9 DEF WaitNone, WaitSleep, WaitResume
<1>10. ASSUME NEW c \in CPU, NEW p \in Slot, ClientStep(c, p) PROVE EmbryoInv'
  BY <1>1, <1>10 DEF ClientStep, LkAcquire, LkRelease, KeepAcquire, KeepRelease, Leave, CallSleep, SleepRelease, Sleep,
                     SleepResume, SleepReacquire, CallWakeup, Wakeup, Woken
<1>11. CASE UNCHANGED vars
  BY <1>11 DEF vars, EmbryoInv
<1> QED
  BY <1>2, <1>3, <1>4, <1>5, <1>6, <1>7, <1>8, <1>9, <1>10, <1>11
     DEF Next, ProcStep, ForkStep, WaitStep

(* Every step keeps the channels of wakeups. *)
LEMMA WakingInvNext == TableInv /\ WakingInv /\ [Next]_vars => WakingInv'
<1> SUFFICES ASSUME TableInv, WakingInv, [Next]_vars PROVE WakingInv'
  OBVIOUS
<1> USE TableTypes DEF Goto, At, Release
<1>1. ASSUME \A q \in Slot : pc'[q] \in {"wakeup", "wakeupL"} =>
                \/ pc[q] \in {"wakeup", "wakeupL"} /\ arg'[q] = arg[q]
                \/ arg'[q].chan \in Chan
      PROVE  WakingInv'
  BY <1>1 DEF WakingInv
<1>2. ASSUME NEW c \in CPU, SchedStep(c) PROVE WakingInv'
  BY <1>1, <1>2 DEF SchedStep, SchedAcquire, SchedSkip, SchedRun, SchedRelease
<1>3. ASSUME NEW c \in CPU, NEW p \in Slot,
             \/ TimerIRQ(c, p) \/ DeviceIRQ(c, p) \/ Syscall(c, p) \/ Acquire(c, p)
             \/ Yield(c, p) \/ Sched(c, p) \/ ReturnToUser(c, p) \/ Exit(c, p)
      PROVE  WakingInv'
  BY <1>1, <1>3 DEF TimerIRQ, DeviceIRQ, Syscall, Acquire, Yield, Sched, ReturnToUser, Exit,
                    AcquirePC, SchedPC, Entry, Saved
<1>4. ASSUME NEW c \in CPU, NEW p \in Slot, ForkStep(c, p) \/ WaitStep(c, p) PROVE WakingInv'
  BY <1>1, <1>4 DEF ForkStep, WaitStep, ForkNoSlot, ForkNoStack, ForkAlloc, ForkNoCopy,
                    ForkCopy, ForkStart, WaitReap, WaitNone, WaitSleep, WaitResume
<1>5. ASSUME NEW c \in CPU, NEW p \in Slot, ClientStep(c, p) PROVE WakingInv'
  BY <1>1, <1>5 DEF ClientStep, LkAcquire, LkRelease, KeepAcquire, KeepRelease, Leave, CallSleep, SleepRelease, Sleep,
                    SleepResume, SleepReacquire, CallWakeup, Wakeup
<1>6. CASE UNCHANGED vars
  BY <1>6 DEF vars, WakingInv
<1> QED
  BY <1>2, <1>3, <1>4, <1>5, <1>6 DEF Next, ProcStep

-----------------------------------------------------------------------------
(* What ProcTable sees of a step.                                          *)

(* A lock is held by the process that its CPU runs, at a place where that  *)
(* process may hold one.                                                   *)
LEMMA HeldByRunning ==
  ASSUME TableInv, NEW l \in Lock
  PROVE  /\ AbsHeld[l] = Nil <=> lkcpu[l] = Nil
         /\ \A c \in CPU, p \in Slot : cur[c] = p => (AbsHeld[l] = p <=> lkcpu[l] = c)
         /\ \A p \in Slot : AbsHeld[l] = p =>
               pc[p] \in {"kernel", "sleep", "sleepL", "wakeup", "wakeupL"}
<1> USE TableTypes DEF AbsHeld
<1>1. AbsHeld[l] = Nil <=> lkcpu[l] = Nil
  BY DEF TableInv, LkInv
<1>2. ASSUME NEW c \in CPU, NEW p \in Slot, cur[c] = p
      PROVE  AbsHeld[l] = p <=> lkcpu[l] = c
  BY <1>2 DEF TableInv, CurInv
<1>3. ASSUME NEW p \in Slot, AbsHeld[l] = p
      PROVE  pc[p] \in {"kernel", "sleep", "sleepL", "wakeup", "wakeupL"}
  BY <1>3 DEF TableInv, LkInv
<1> QED BY <1>1, <1>2, <1>3

(* A CPU that leaves or takes up a process holds none of the other locks. *)
LEMMA HeldKept ==
  ASSUME TableInv, NEW c \in CPU, NEW x \in Slot \cup {Nil}, lkcpu' = lkcpu,
         cur' = [cur EXCEPT ![c] = x],
         cur[c] = Nil \/ pc[cur[c]] \in SchedPC
  PROVE  AbsHeld' = AbsHeld
<1>1. \A l \in Lock : lkcpu[l] # c
  BY DEF TableInv, LkInv, SchedPC
<1> QED
  BY <1>1, TableTypes DEF AbsHeld

(* The code of one process between two points that show nothing. *)
LEMMA Unseen ==
  ASSUME UNCHANGED <<cur, state, parent, chan, lkcpu>>,
         \A q \in Slot :
            /\ pc[q] = "sleepM" <=> pc'[q] = "sleepM"
            /\ pc[q] \in {"wakeup", "wakeupL"} <=> pc'[q] \in {"wakeup", "wakeupL"}
            /\ pc[q] \in {"sleepM", "wakeup", "wakeupL"} => arg'[q] = arg[q]
  PROVE  UNCHANGED Table!vars
<1>1. AbsState' = AbsState /\ AbsParent' = AbsParent /\ AbsHeld' = AbsHeld
  BY DEF AbsState, AbsParent, AbsHeld
<1>2. AbsChan' = AbsChan
  BY DEF AbsChan
<1>3. AbsWaking' = AbsWaking
  BY DEF AbsWaking
<1> QED
  BY <1>1, <1>2, <1>3 DEF Table!vars

(* While a CPU runs no process, fewer processes run than there are CPUs. *)
LEMMA CpuFree ==
  ASSUME TableInv, IsFiniteSet(CPU), NEW c \in CPU, cur[c] = Nil
  PROVE  Cardinality(Table!In("RUNNING")) < Cardinality(CPU)
<1> DEFINE R == Table!In("RUNNING")
           f == [p \in R |-> CHOOSE d \in CPU : cur[d] = p]
<1>1. \A p \in R : p \in Slot /\ state[p] = "RUNNING"
  BY DEF Table!In, Table!Slot, Slot, AbsState
<1>2. \A p \in R : \E d \in CPU : cur[d] = p
  BY <1>1 DEF TableInv, CurInv
<1>3. \A p \in R : f[p] \in CPU /\ cur[f[p]] = p
  BY <1>2
<1>4. \A p \in R : f[p] \in CPU \ {c}
  BY <1>1, <1>3, TableTypes
<1>5. f \in [R -> CPU \ {c}]
  BY <1>4
<1> HIDE DEF R, f
<1>6. f \in Injection(R, CPU \ {c})
  BY <1>3, <1>5 DEF Injection, IsInjective
<1>7. IsFiniteSet(CPU \ {c}) /\ Cardinality(CPU \ {c}) = Cardinality(CPU) - 1
  BY FS_RemoveElement
<1>8. IsFiniteSet(R) /\ Cardinality(R) <= Cardinality(CPU \ {c})
  BY <1>6, <1>7, FS_Injection
<1>9. Cardinality(R) \in Nat /\ Cardinality(CPU) \in Nat
  BY <1>8, FS_CardinalityType
<1> QED
  BY <1>7, <1>8, <1>9 DEF R

(* ProcTable has the same processes. *)
LEMMA SameSlots == Table!Slot = Slot
  BY DEF Table!Slot, Slot

(* ... and the same way to count them. *)
LEMMA SameCardinality == \A S : Table!Cardinality(S) = Cardinality(S)
  BY DEF Table!Cardinality, Cardinality

-----------------------------------------------------------------------------
(* The schedulers: a process taken is a process run. *)
LEMMA SchedRefines ==
  ASSUME TableInv, IsFiniteSet(CPU), NEW c \in CPU, SchedStep(c)
  PROVE  [Table!Next]_Table!vars
<1> USE TableTypes
<1>1. CASE SchedAcquire(c) \/ SchedSkip(c) \/ SchedRelease(c)
  BY <1>1, Unseen DEF SchedAcquire, SchedSkip, SchedRelease
<1>2. CASE SchedRun(c)
  <2>1. PICK p \in Slot :
           /\ p = scan[c] /\ state[p] = "RUNNABLE" /\ cur[c] = Nil
           /\ cur' = [cur EXCEPT ![c] = p] /\ state' = [state EXCEPT ![p] = "RUNNING"]
           /\ UNCHANGED <<parent, chan, pc, arg, lkcpu>>
    BY <1>2 DEF SchedRun
  <2>2. pc[p] # "sleepM" /\ AbsState[p] = "RUNNABLE"
    BY <2>1 DEF TableInv, PcInv, ResumePC, AbsState
  <2>3. AbsState' = [AbsState EXCEPT ![p] = "RUNNING"]
    BY <2>1, <2>2 DEF AbsState
  <2>4. AbsParent' = AbsParent
    BY <2>1 DEF AbsParent
  <2>5. AbsChan' = AbsChan
    BY <2>1 DEF AbsChan
  <2>6. AbsHeld' = AbsHeld
    BY <2>1, HeldKept
  <2>7. AbsWaking' = AbsWaking
    BY <2>1 DEF AbsWaking
  <2>8. Table!Run(p)
    BY <2>1, <2>2, <2>3, <2>4, <2>5, <2>6, <2>7, CpuFree, SameCardinality DEF Table!Run
  <2> QED BY <2>8, SameSlots DEF Table!Next
<1> QED BY <1>1, <1>2 DEF SchedStep

(* Interrupts, system calls, acquire, and yield: a process that yields is  *)
(* preempted when it stores its state.                                     *)
LEMMA YieldRefines ==
  ASSUME TableInv, NEW c \in CPU, NEW p \in Slot,
         \/ TimerIRQ(c, p) \/ DeviceIRQ(c, p) \/ Syscall(c, p) \/ Acquire(c, p)
         \/ Yield(c, p) \/ Sched(c, p) \/ ReturnToUser(c, p)
  PROVE  [Table!Next]_Table!vars
<1> USE TableTypes DEF Goto, At, Release
<1>1. CASE TimerIRQ(c, p) \/ DeviceIRQ(c, p) \/ Syscall(c, p) \/ ReturnToUser(c, p)
  BY <1>1, Unseen DEF TimerIRQ, DeviceIRQ, Syscall, ReturnToUser
<1>2. CASE Acquire(c, p)
  BY <1>2, Unseen DEF Acquire, AcquirePC, Entry
<1>3. CASE Yield(c, p)
  <2>1. /\ cur[c] = p /\ pc[p] = "yieldL" /\ state[p] = "RUNNING"
        /\ state' = [state EXCEPT ![p] = "RUNNABLE"]
        /\ pc' = [pc EXCEPT ![p] = "yieldW"]
        /\ UNCHANGED <<cur, parent, chan, arg, lkcpu>>
    BY <1>3, RunsRunning DEF Yield, SchedPC
  <2>2. AbsState[p] = "RUNNING" /\ AbsState' = [AbsState EXCEPT ![p] = "RUNNABLE"]
    BY <2>1 DEF AbsState
  <2>3. AbsParent' = AbsParent
    BY <2>1 DEF AbsParent
  <2>4. AbsChan' = AbsChan
    BY <2>1 DEF AbsChan
  <2>5. AbsHeld' = AbsHeld
    BY <2>1 DEF AbsHeld
  <2>6. AbsWaking' = AbsWaking
    BY <2>1 DEF AbsWaking
  <2>7. \A l \in Lock : AbsHeld[l] # p
    BY <2>1, HeldByRunning
  <2>8. Table!Preempt(p)
    BY <2>2, <2>3, <2>4, <2>5, <2>6, <2>7 DEF Table!Preempt
  <2> QED BY <2>8, SameSlots DEF Table!Next
<1>4. CASE Sched(c, p)
  <2>1. /\ cur[c] = p /\ pc[p] \in SchedPC /\ cur' = [cur EXCEPT ![c] = Nil]
        /\ \E m \in {"yielded", "dead", "waitS", "sleepS"} : pc' = [pc EXCEPT ![p] = m]
        /\ UNCHANGED <<state, parent, chan, arg, lkcpu>>
    <3>1. PICK s \in Saved : pc' = [pc EXCEPT ![p] = s[2]]
      BY <1>4 DEF Sched
    <3>2. s[2] \in {"yielded", "dead", "waitS", "sleepS"}
      BY DEF Saved
    <3> QED BY <1>4, <3>1, <3>2 DEF Sched
  <2>2. AbsState' = AbsState
    BY <2>1 DEF AbsState, SchedPC
  <2>3. AbsParent' = AbsParent
    BY <2>1 DEF AbsParent
  <2>4. AbsChan' = AbsChan
    BY <2>1 DEF AbsChan, SchedPC
  <2>5. AbsHeld' = AbsHeld
    BY <2>1, HeldKept
  <2>6. AbsWaking' = AbsWaking
    BY <2>1 DEF AbsWaking, SchedPC
  <2> QED BY <2>2, <2>3, <2>4, <2>5, <2>6 DEF Table!vars
<1> QED BY <1>1, <1>2, <1>3, <1>4

(* fork: a slot is reserved, given back, or becomes a child that can run.  *)
LEMMA ForkRefines ==
  ASSUME TableInv, EmbryoInv, NEW c \in CPU, NEW p \in Slot, ForkStep(c, p)
  PROVE  [Table!Next]_Table!vars
<1> USE TableTypes DEF Goto, At, Release
<1>1. CASE ForkNoSlot(c, p) \/ ForkNoStack(c, p)
  BY <1>1, Unseen DEF ForkNoSlot, ForkNoStack
<1>2. CASE ForkAlloc(c, p)
  <2>1. PICK q \in Slot :
           /\ state[q] = "UNUSED" /\ cur[c] = p /\ pc[p] = "forkL" /\ state[p] = "RUNNING"
           /\ state' = [state EXCEPT ![q] = "EMBRYO"]
           /\ pc' = [pc EXCEPT ![q] = "forkret", ![p] = "copy"]
           /\ UNCHANGED <<cur, parent, chan, arg, lkcpu>>
    BY <1>2, RunsRunning DEF ForkAlloc, First, Unused, SchedPC
  <2>2. pc[q] \in {"dead", "forkret"} /\ parent[q] = Nil /\ p # q
    BY <2>1 DEF TableInv, PcInv, ParentAlive
  <2>3. AbsState[q] = "UNUSED" /\ AbsState' = [AbsState EXCEPT ![q] = "EMBRYO"]
    BY <2>1, <2>2 DEF AbsState
  <2>4. AbsParent' = AbsParent
    BY <2>1, <2>2 DEF AbsParent
  <2>5. AbsChan' = AbsChan
    BY <2>1, <2>2 DEF AbsChan
  <2>6. AbsHeld' = AbsHeld
    BY <2>1 DEF AbsHeld
  <2>7. AbsWaking' = AbsWaking
    BY <2>1, <2>2 DEF AbsWaking
  <2>8. Table!In("RUNNING") # {}
    BY <2>1, SameSlots DEF Table!In, AbsState
  <2>9. Table!Reserve(q)
    BY <2>3, <2>4, <2>5, <2>6, <2>7, <2>8 DEF Table!Reserve
  <2> QED BY <2>9, SameSlots DEF Table!Next
<1>3. CASE ForkNoCopy(c, p)
  <2> DEFINE q == np[p]
  <2>1. /\ pc[p] = "copy" /\ state' = [state EXCEPT ![q] = "UNUSED"]
        /\ pc' = [pc EXCEPT ![p] = "user"]
        /\ UNCHANGED <<cur, parent, chan, arg, lkcpu>>
    BY <1>3 DEF ForkNoCopy
  <2>2. q \in Slot /\ state[q] = "EMBRYO" /\ parent[q] = Nil /\ pc[q] = "forkret"
    BY <2>1 DEF TableInv, ForkInv, ForkPC, PcInv
  <2> HIDE DEF q
  <2>3. AbsState[q] = "EMBRYO" /\ AbsState' = [AbsState EXCEPT ![q] = "UNUSED"]
    BY <2>1, <2>2 DEF AbsState
  <2>4. AbsParent' = AbsParent
    BY <2>1, <2>2 DEF AbsParent
  <2>5. AbsChan' = AbsChan
    BY <2>1, <2>2 DEF AbsChan
  <2>6. AbsHeld' = AbsHeld
    BY <2>1 DEF AbsHeld
  <2>7. AbsWaking' = AbsWaking
    BY <2>1, <2>2 DEF AbsWaking
  <2>8. Table!Abandon(q)
    BY <2>3, <2>4, <2>5, <2>6, <2>7 DEF Table!Abandon
  <2> QED BY <2>2, <2>8, SameSlots DEF Table!Next
<1>4. CASE ForkCopy(c, p)
  <2> DEFINE q == np[p]
  <2>1. /\ pc[p] = "copy" /\ parent' = [parent EXCEPT ![q] = p]
        /\ pc' = [pc EXCEPT ![p] = "start"]
        /\ UNCHANGED <<cur, state, chan, arg, lkcpu>>
    BY <1>4 DEF ForkCopy
  <2>2. q \in Slot /\ state[q] = "EMBRYO"
    BY <2>1 DEF TableInv, ForkInv, ForkPC
  <2> HIDE DEF q
  <2>3. AbsState' = AbsState
    BY <2>1 DEF AbsState
  <2>4. AbsParent' = AbsParent
    BY <2>1, <2>2 DEF AbsParent
  <2>5. AbsChan' = AbsChan
    BY <2>1 DEF AbsChan
  <2>6. AbsHeld' = AbsHeld
    BY <2>1 DEF AbsHeld
  <2>7. AbsWaking' = AbsWaking
    BY <2>1 DEF AbsWaking
  <2> QED BY <2>3, <2>4, <2>5, <2>6, <2>7 DEF Table!vars
<1>5. CASE ForkStart(c, p)
  <2> DEFINE q == np[p]
  <2>1. /\ cur[c] = p /\ pc[p] = "start" /\ state[p] = "RUNNING"
        /\ state' = [state EXCEPT ![q] = "RUNNABLE"]
        /\ pc' = [pc EXCEPT ![p] = "user"]
        /\ UNCHANGED <<cur, parent, chan, arg, lkcpu>>
    BY <1>5, RunsRunning DEF ForkStart, SchedPC
  <2>2. q \in Slot /\ state[q] = "EMBRYO" /\ parent[q] = p /\ pc[q] = "forkret"
    BY <2>1 DEF TableInv, ForkInv, ForkPC, PcInv, EmbryoInv
  <2> HIDE DEF q
  <2>3. /\ AbsState[p] = "RUNNING" /\ AbsState[q] = "EMBRYO"
        /\ AbsState' = [AbsState EXCEPT ![q] = "RUNNABLE"]
    BY <2>1, <2>2 DEF AbsState
  <2>4. AbsParent' = [AbsParent EXCEPT ![q] = p]
    BY <2>1, <2>2 DEF AbsParent
  <2>5. AbsChan' = AbsChan
    BY <2>1, <2>2 DEF AbsChan
  <2>6. AbsHeld' = AbsHeld
    BY <2>1 DEF AbsHeld
  <2>7. AbsWaking' = AbsWaking
    BY <2>1, <2>2 DEF AbsWaking
  <2>8. Table!Fork(p, q)
    BY <2>3, <2>4, <2>5, <2>6, <2>7 DEF Table!Fork
  <2> QED BY <2>2, <2>8, SameSlots DEF Table!Next
<1> QED BY <1>1, <1>2, <1>3, <1>4, <1>5 DEF ForkStep

(* exit wakes whoever waits for an exited child, and nobody else. *)
LEMMA ExitRefines ==
  ASSUME TableInv, EmbryoInv, NEW c \in CPU, NEW p \in Slot, Exit(c, p)
  PROVE  [Table!Next]_Table!vars
<1> USE TableTypes
<1>1. /\ cur[c] = p /\ pc[p] = "exitL" /\ state[p] = "RUNNING"
      /\ pc' = [pc EXCEPT ![p] = "exitW"]
      /\ UNCHANGED <<cur, chan, arg, lkcpu>>
  BY RunsRunning DEF Exit, At, Goto, SchedPC
<1>2. parent' = [q \in Slot |-> IF parent[q] = p THEN InitProc ELSE parent[q]]
  BY DEF Exit, Children
<1> DEFINE woken == {parent[p]} \cup (IF Zombies(p) # {} THEN {InitProc} ELSE {})
           W == {q \in Slot : state[q] = "SLEEPING" /\ chan[q] \in woken}
<1>3. \A q \in Slot : state'[q] = IF q = p THEN "ZOMBIE"
                                  ELSE IF q \in W THEN "RUNNABLE" ELSE state[q]
  BY DEF Exit, Woken
<1>4. /\ InitProc \in Slot /\ state[InitProc] # "SLEEPING" /\ InitProc # Nil
  BY InitProcIsSlot DEF TableInv, IdleInv
<1>5. \A q \in W : /\ q # p /\ q = parent[p] /\ chan[q] = q /\ pc[q] \in {"waitW", "waitS"}
  <2> SUFFICES ASSUME NEW q \in W
               PROVE  q # p /\ q = parent[p] /\ chan[q] = q /\ pc[q] \in {"waitW", "waitS"}
    OBVIOUS
  <2>1. chan[q] \in Slot
    <3>1. parent[p] \in Slot \cup {Nil}
      OBVIOUS
    <3>2. chan[q] \in Slot \cup {Nil}
      BY <1>4, <3>1
    <3>3. chan[q] # Nil
      BY DEF TableInv, PcInv, ArgInv
    <3> QED BY <3>2, <3>3
  <2>2. pc[q] \in {"waitW", "waitS"} /\ chan[q] = q
    BY <2>1 DEF TableInv, PcInv, ArgInv
  <2> QED BY <1>1, <1>4, <2>2
<1>6. \A q \in Slot : /\ pc[q] = "sleepM" => state[q] = "RUNNING"
                      /\ pc'[q] = "sleepM" <=> pc[q] = "sleepM"
  BY <1>1 DEF TableInv, PcInv, ResumePC, State
<1> DEFINE exited == Table!In("ZOMBIE") \cup {p}
           V == {q \in Table!In("SLEEPING") :
                    AbsChan[q] = q /\ \E r \in exited : AbsParent'[r] = q}
<1>7. AbsParent' = [q \in Slot |-> IF AbsParent[q] = p THEN InitProc ELSE AbsParent[q]]
  <2>1. \A q \in Slot : state[q] = "EMBRYO" => parent[q] # p
    BY <1>1 DEF EmbryoInv
  <2>2. \A q \in Slot : state'[q] = "EMBRYO" <=> state[q] = "EMBRYO"
    BY <1>1, <1>3
  <2> QED BY <1>2, <2>1, <2>2 DEF AbsParent
<1>8. V = W
  <2>1. ASSUME NEW q \in W PROVE q \in V
    <3>1. q \in Table!In("SLEEPING") /\ AbsChan[q] = q
      BY <1>5, SameSlots DEF Table!In, AbsState, AbsChan
    <3>2. AbsParent[p] = q /\ q # p
      BY <1>1, <1>5 DEF AbsParent
    <3>3. AbsParent'[p] = q
      BY <1>7, <3>2
    <3> QED BY <3>1, <3>3
  <2>2. ASSUME NEW q \in V PROVE q \in W
    <3>1. q \in Slot /\ AbsState[q] = "SLEEPING" /\ AbsChan[q] = q
      BY SameSlots DEF Table!In
    <3>2. pc[q] # "sleepM" /\ state[q] = "SLEEPING" /\ chan[q] = q
      BY <3>1 DEF AbsState, AbsChan, TableInv, ArgInv
    <3>3. pc[q] \in {"waitW", "waitS"}
      BY <3>1, <3>2 DEF TableInv, PcInv, ArgInv
    <3>4. PICK r \in exited : AbsParent'[r] = q
      OBVIOUS
    <3>5. r \in Slot /\ (r = p \/ state[r] = "ZOMBIE")
      BY SameSlots DEF Table!In, AbsState
    <3>6. q # InitProc /\ parent[r] = q
      <4>1. q # InitProc
        BY <1>4, <3>2
      <4>2. AbsParent[r] = q
        BY <1>7, <3>4, <3>5, <4>1
      <4>3. state[r] # "EMBRYO"
        BY <1>1, <3>5
      <4> QED BY <3>5, <4>1, <4>2, <4>3 DEF AbsParent
    <3>7. r = p
      <4>1. Zombies(q) = {}
        BY <3>1, <3>2, <3>3 DEF TableInv, NoMissedExit
      <4> QED BY <3>5, <3>6, <4>1 DEF Zombies, Children
    <3> QED BY <3>1, <3>2, <3>6, <3>7
  <2> QED BY <2>1, <2>2
<1>9. AbsState' = [q \in Slot |-> IF q = p THEN "ZOMBIE"
                                 ELSE IF q \in V THEN "RUNNABLE" ELSE AbsState[q]]
  <2>1. \A q \in W : pc[q] # "sleepM"
    BY <1>5
  <2> QED BY <1>1, <1>3, <1>6, <1>8, <2>1 DEF AbsState
<1>10. AbsChan' = [q \in Slot |-> IF q \in V THEN Nil ELSE AbsChan[q]]
  <2>1. \A q \in Slot : q \notin W => (state'[q] = "SLEEPING" <=> state[q] = "SLEEPING")
    BY <1>1, <1>3
  <2>2. \A q \in W : pc[q] # "sleepM" /\ state'[q] # "SLEEPING"
    BY <1>3, <1>5
  <2> QED BY <1>1, <1>6, <1>8, <2>1, <2>2 DEF AbsChan
<1>11. AbsHeld' = AbsHeld
  BY <1>1 DEF AbsHeld
<1>12. AbsWaking' = AbsWaking
  BY <1>1 DEF AbsWaking
<1>13. AbsState[p] = "RUNNING" /\ \A l \in Lock : AbsHeld[l] # p
  BY <1>1, HeldByRunning DEF AbsState
<1> HIDE DEF W, woken
<1>14. Table!Exit(p)
  BY <1>7, <1>9, <1>10, <1>11, <1>12, <1>13, SameSlots DEF Table!Exit, Table!Becomes
<1> QED BY <1>14, SameSlots DEF Table!Next

(* wait reaps a child, sleeps, or returns. *)
LEMMA WaitRefines ==
  ASSUME TableInv, EmbryoInv, NEW c \in CPU, NEW p \in Slot, WaitStep(c, p)
  PROVE  [Table!Next]_Table!vars
<1> USE TableTypes DEF Goto, At, Release
<1>1. CASE WaitNone(c, p)
  BY <1>1, Unseen DEF WaitNone
<1>2. CASE WaitReap(c, p)
  <2>1. PICK q \in Slot :
           /\ state[q] = "ZOMBIE" /\ parent[q] = p
           /\ cur[c] = p /\ pc[p] = "waitL" /\ state[p] = "RUNNING"
           /\ state' = [state EXCEPT ![q] = "UNUSED"]
           /\ parent' = [parent EXCEPT ![q] = Nil]
           /\ pc' = [pc EXCEPT ![p] = "user"]
           /\ UNCHANGED <<cur, chan, arg, lkcpu>>
    BY <1>2, RunsRunning DEF WaitReap, First, Zombies, Children, SchedPC
  <2>2. pc[q] \in {"exitW", "dead"} /\ p # q
    BY <2>1 DEF TableInv, PcInv
  <2>3. /\ AbsState[p] = "RUNNING" /\ AbsState[q] = "ZOMBIE"
        /\ AbsState' = [AbsState EXCEPT ![q] = "UNUSED"]
    BY <2>1, <2>2 DEF AbsState
  <2>4. AbsParent[q] = p /\ AbsParent' = [AbsParent EXCEPT ![q] = Nil]
    BY <2>1, <2>2 DEF AbsParent
  <2>5. AbsChan' = AbsChan
    BY <2>1, <2>2 DEF AbsChan
  <2>6. AbsHeld' = AbsHeld
    BY <2>1 DEF AbsHeld
  <2>7. AbsWaking' = AbsWaking
    BY <2>1 DEF AbsWaking
  <2>8. Table!Reap(p, q)
    BY <2>3, <2>4, <2>5, <2>6, <2>7 DEF Table!Reap
  <2> QED BY <2>8, SameSlots DEF Table!Next
<1>3. CASE WaitSleep(c, p)
  <2>1. /\ cur[c] = p /\ pc[p] = "waitL" /\ state[p] = "RUNNING"
        /\ Children(p) # {} /\ Zombies(p) = {}
        /\ chan' = [chan EXCEPT ![p] = p] /\ state' = [state EXCEPT ![p] = "SLEEPING"]
        /\ pc' = [pc EXCEPT ![p] = "waitW"]
        /\ UNCHANGED <<cur, parent, arg, lkcpu>>
    BY <1>3, RunsRunning DEF WaitSleep, SchedPC
  <2>2. AbsState[p] = "RUNNING" /\ AbsState' = [AbsState EXCEPT ![p] = "SLEEPING"]
    BY <2>1 DEF AbsState
  <2>3. AbsParent' = AbsParent
    BY <2>1 DEF AbsParent
  <2>4. AbsChan' = [AbsChan EXCEPT ![p] = p]
    BY <2>1 DEF AbsChan
  <2>5. AbsHeld' = AbsHeld
    BY <2>1 DEF AbsHeld
  <2>6. AbsWaking' = AbsWaking
    BY <2>1 DEF AbsWaking
  <2>7. \A l \in Lock : AbsHeld[l] # p
    BY <2>1, HeldByRunning
  <2>8. Table!ChildrenOf(p) = Children(p)
    <3>1. \A q \in Slot : parent[q] = p => state[q] # "EMBRYO"
      BY <2>1 DEF EmbryoInv
    <3> QED BY <3>1, SameSlots DEF Table!ChildrenOf, Children, AbsParent
  <2>9. Table!ChildrenOf(p) \cap Table!In("ZOMBIE") = {}
    BY <2>1, <2>8, SameSlots DEF Table!In, Zombies, AbsState
  <2>10. Table!WaitSleep(p)
    BY <2>1, <2>2, <2>3, <2>4, <2>5, <2>6, <2>7, <2>8, <2>9 DEF Table!WaitSleep
  <2> QED BY <2>10, SameSlots DEF Table!Next
<1>4. CASE WaitResume(c, p)
  <2>1. /\ cur[c] = p /\ pc[p] = "waitS" /\ state[p] = "RUNNING"
        /\ chan' = [chan EXCEPT ![p] = Nil] /\ pc' = [pc EXCEPT ![p] = "waitL"]
        /\ UNCHANGED <<cur, state, parent, arg, lkcpu>>
    BY <1>4, RunsRunning DEF WaitResume, SchedPC
  <2>2. AbsState' = AbsState /\ AbsParent' = AbsParent /\ AbsHeld' = AbsHeld
    BY <2>1 DEF AbsState, AbsParent, AbsHeld
  <2>3. AbsChan' = AbsChan
    BY <2>1 DEF AbsChan
  <2>4. AbsWaking' = AbsWaking
    BY <2>1 DEF AbsWaking
  <2> QED BY <2>2, <2>3, <2>4 DEF Table!vars
<1> QED BY <1>1, <1>2, <1>3, <1>4 DEF WaitStep

(* Other kernel code: the locks, sleep and wakeup. *)
LEMMA LockRefines ==
  ASSUME TableInv, NEW c \in CPU, NEW p \in Slot,
         \/ LkAcquire(c, p) \/ LkRelease(c, p) \/ Leave(c, p) \/ SleepReacquire(c, p)
         \/ KeepAcquire(c, p) \/ KeepRelease(c, p)
  PROVE  [Table!Next]_Table!vars
<1> USE TableTypes DEF Goto, At, Release
<1>1. CASE Leave(c, p) \/ KeepAcquire(c, p) \/ KeepRelease(c, p)
  BY <1>1, Unseen DEF Leave, KeepAcquire, KeepRelease
<1>2. CASE LkAcquire(c, p) \/ SleepReacquire(c, p)
  <2>1. /\ cur[c] = p /\ pc[p] \in {"kernel", "reacq"} /\ pc' = [pc EXCEPT ![p] = "kernel"]
        /\ state[p] = "RUNNING"
        /\ UNCHANGED <<cur, state, parent, chan>>
        /\ \A q \in Slot : q # p => arg'[q] = arg[q]
    BY <1>2, RunsRunning DEF LkAcquire, SleepReacquire, SchedPC
  <2>2. PICK l \in Lock : lkcpu[l] = Nil /\ lkcpu' = [lkcpu EXCEPT ![l] = c]
    BY <1>2 DEF LkAcquire, SleepReacquire, TableInv, ArgInv
  <2>3. AbsState[p] = "RUNNING" /\ AbsState' = AbsState
    BY <2>1 DEF AbsState
  <2>4. AbsParent' = AbsParent
    BY <2>1 DEF AbsParent
  <2>5. AbsChan' = AbsChan
    BY <2>1 DEF AbsChan
  <2>6. AbsHeld[l] = Nil /\ AbsHeld' = [AbsHeld EXCEPT ![l] = p]
    BY <2>1, <2>2 DEF AbsHeld
  <2>7. AbsWaking' = AbsWaking
    BY <2>1 DEF AbsWaking
  <2>8. Table!Acquire(p, l)
    BY <2>3, <2>4, <2>5, <2>6, <2>7 DEF Table!Acquire
  <2> QED BY <2>8, SameSlots DEF Table!Next
<1>3. CASE LkRelease(c, p)
  <2>1. cur[c] = p /\ UNCHANGED <<cur, state, parent, chan, pc, arg>>
    BY <1>3 DEF LkRelease
  <2>2. PICK l \in Lock : lkcpu[l] = c /\ lkcpu' = [lkcpu EXCEPT ![l] = Nil]
    BY <1>3 DEF LkRelease
  <2>3. AbsState' = AbsState /\ AbsParent' = AbsParent /\ AbsChan' = AbsChan
        /\ AbsWaking' = AbsWaking
    BY <2>1 DEF AbsState, AbsParent, AbsChan, AbsWaking
  <2>4. AbsHeld[l] = p /\ AbsHeld' = [AbsHeld EXCEPT ![l] = Nil]
    BY <2>1, <2>2 DEF AbsHeld
  <2>5. Table!Release(p, l)
    BY <2>3, <2>4 DEF Table!Release
  <2> QED BY <2>5, SameSlots DEF Table!Next
<1> QED BY <1>1, <1>2, <1>3

(* sleep is asleep when it releases its lock. *)
LEMMA SleepRefines ==
  ASSUME TableInv, NEW c \in CPU, NEW p \in Slot,
         \/ CallSleep(c, p) \/ SleepRelease(c, p) \/ Sleep(c, p) \/ SleepResume(c, p)
  PROVE  [Table!Next]_Table!vars
<1> USE TableTypes DEF Goto, At, Release
<1>1. CASE CallSleep(c, p)
  BY <1>1, Unseen DEF CallSleep
<1>2. CASE SleepRelease(c, p)
  <2> DEFINE l == arg[p].lk
             ch == arg[p].chan
  <2>1. /\ cur[c] = p /\ pc[p] = "sleepL" /\ pc' = [pc EXCEPT ![p] = "sleepM"]
        /\ lkcpu[l] = c /\ lkcpu' = [lkcpu EXCEPT ![l] = Nil]
        /\ state[p] = "RUNNING"
        /\ UNCHANGED <<cur, state, parent, chan, arg>>
    BY <1>2, RunsRunning DEF SleepRelease, SchedPC
  <2>2. l \in Lock /\ ch \in Chan
    BY <2>1 DEF TableInv, ArgInv
  <2>3. AbsState[p] = "RUNNING" /\ AbsState' = [AbsState EXCEPT ![p] = "SLEEPING"]
    BY <2>1 DEF AbsState
  <2>4. AbsParent' = AbsParent
    BY <2>1 DEF AbsParent
  <2>5. AbsChan' = [AbsChan EXCEPT ![p] = ch]
    BY <2>1 DEF AbsChan
  <2> HIDE DEF l, ch
  <2>6. AbsHeld[l] = p /\ AbsHeld' = [AbsHeld EXCEPT ![l] = Nil]
    BY <2>1, <2>2 DEF AbsHeld
  <2>7. AbsWaking' = AbsWaking
    BY <2>1 DEF AbsWaking
  <2>8. Table!Sleep(p, ch, l)
    BY <2>3, <2>4, <2>5, <2>6, <2>7 DEF Table!Sleep
  <2> QED BY <2>2, <2>8, SameSlots DEF Table!Next
<1>3. CASE Sleep(c, p)
  <2>1. /\ pc[p] = "sleepM" /\ pc' = [pc EXCEPT ![p] = "sleepW"]
        /\ chan' = [chan EXCEPT ![p] = arg[p].chan]
        /\ state' = [state EXCEPT ![p] = "SLEEPING"] /\ state[p] = "RUNNING"
        /\ UNCHANGED <<cur, parent, arg, lkcpu>>
    BY <1>3, RunsRunning DEF Sleep, SchedPC
  <2>2. AbsState' = AbsState
    BY <2>1 DEF AbsState
  <2>3. AbsParent' = AbsParent
    BY <2>1 DEF AbsParent
  <2>4. AbsChan' = AbsChan
    BY <2>1 DEF AbsChan
  <2>5. AbsHeld' = AbsHeld
    BY <2>1 DEF AbsHeld
  <2>6. AbsWaking' = AbsWaking
    BY <2>1 DEF AbsWaking
  <2> QED BY <2>2, <2>3, <2>4, <2>5, <2>6 DEF Table!vars
<1>4. CASE SleepResume(c, p)
  <2>1. /\ pc[p] = "sleepS" /\ pc' = [pc EXCEPT ![p] = "reacq"]
        /\ chan' = [chan EXCEPT ![p] = Nil] /\ state[p] = "RUNNING"
        /\ UNCHANGED <<cur, state, parent, arg, lkcpu>>
    BY <1>4, RunsRunning DEF SleepResume, SchedPC
  <2>2. AbsState' = AbsState /\ AbsParent' = AbsParent /\ AbsHeld' = AbsHeld
    BY <2>1 DEF AbsState, AbsParent, AbsHeld
  <2>3. AbsChan' = AbsChan
    BY <2>1 DEF AbsChan
  <2>4. AbsWaking' = AbsWaking
    BY <2>1 DEF AbsWaking
  <2> QED BY <2>2, <2>3, <2>4 DEF Table!vars
<1> QED BY <1>1, <1>2, <1>3, <1>4

(* wakeup reaches all its sleepers at once. *)
LEMMA WakeupRefines ==
  ASSUME TableInv, WakingInv, NEW c \in CPU, NEW p \in Slot, CallWakeup(c, p) \/ Wakeup(c, p)
  PROVE  [Table!Next]_Table!vars
<1> USE TableTypes DEF Goto, At, Release
<1>1. CASE CallWakeup(c, p)
  <2>1. /\ pc[p] = "kernel" /\ pc' = [pc EXCEPT ![p] = "wakeup"] /\ state[p] = "RUNNING"
        /\ UNCHANGED <<cur, state, parent, chan, lkcpu>>
    BY <1>1, RunsRunning DEF CallWakeup, SchedPC
  <2>2. PICK ch \in Chan : arg' = [arg EXCEPT ![p] = [lk |-> Nil, chan |-> ch]]
    BY <1>1 DEF CallWakeup
  <2>3. AbsState[p] = "RUNNING" /\ AbsState' = AbsState
    BY <2>1 DEF AbsState
  <2>4. AbsParent' = AbsParent /\ AbsHeld' = AbsHeld
    BY <2>1 DEF AbsParent, AbsHeld
  <2>5. AbsChan' = AbsChan
    BY <2>1, <2>2 DEF AbsChan
  <2>6. AbsWaking[p] = Nil /\ AbsWaking' = [AbsWaking EXCEPT ![p] = ch]
    BY <2>1, <2>2 DEF AbsWaking
  <2>7. Table!CallWakeup(p, ch)
    BY <2>3, <2>4, <2>5, <2>6 DEF Table!CallWakeup
  <2> QED BY <2>7, SameSlots DEF Table!Next
<1>2. CASE Wakeup(c, p)
  <2> DEFINE ch == arg[p].chan
             W == {q \in Slot : state[q] = "SLEEPING" /\ chan[q] = ch}
             V == {q \in Table!In("SLEEPING") : AbsChan[q] = ch}
  <2>1. /\ cur[c] = p /\ pc[p] = "wakeupL" /\ pc' = [pc EXCEPT ![p] = "kernel"]
        /\ arg' = [arg EXCEPT ![p] = NoArg]
        /\ UNCHANGED <<cur, parent, chan, lkcpu>>
    BY <1>2 DEF Wakeup
  <2>2. \A q \in Slot : state'[q] = IF q \in W THEN "RUNNABLE" ELSE state[q]
    BY <1>2 DEF Wakeup, Woken
  <2>3. \A q \in Slot : pc[q] # "sleepM" /\ pc'[q] # "sleepM"
    <3> SUFFICES ASSUME NEW q \in Slot, pc[q] = "sleepM" PROVE FALSE
      BY <2>1
    <3>1. state[q] = "RUNNING"
      BY DEF TableInv, PcInv, ResumePC, State
    <3>2. PICK d \in CPU : cur[d] = q
      BY <3>1 DEF TableInv, CurInv
    <3>3. NeedsLock(c) /\ NeedsLock(d)
      BY <2>1, <3>2 DEF NeedsLock, LockedPC, BodyPC
    <3>4. lock = c /\ lock = d
      BY <3>3 DEF TableInv, LockInv
    <3> QED BY <2>1, <3>2, <3>4
  <2>4. V = W
    BY <2>3, SameSlots DEF Table!In, AbsState, AbsChan
  <2>5. AbsState' = [q \in Slot |-> IF q \in W THEN "RUNNABLE" ELSE AbsState[q]]
    BY <2>2, <2>3 DEF AbsState
  <2>6. AbsParent' = AbsParent
    BY <2>1, <2>2 DEF AbsParent
  <2>7. AbsChan' = [q \in Slot |-> IF q \in W THEN Nil ELSE AbsChan[q]]
    BY <2>1, <2>2, <2>3 DEF AbsChan
  <2>8. AbsHeld' = AbsHeld
    BY <2>1 DEF AbsHeld
  <2>9. AbsWaking[p] = ch /\ AbsWaking' = [AbsWaking EXCEPT ![p] = Nil]
    BY <2>1 DEF AbsWaking
  <2> HIDE DEF W
  <2>10. V = {q \in Table!In("SLEEPING") : AbsChan[q] = AbsWaking[p]}
    BY <2>9
  <2>11. Table!Becomes(Nil, "RUNNING", V)
    BY <2>4, <2>5, <2>7, SameSlots DEF Table!Becomes
  <2>12. AbsWaking[p] # Nil
    BY <2>1, <2>9 DEF WakingInv
  <2> HIDE DEF V
  <2>13. Table!Wakeup(p)
    BY <2>6, <2>8, <2>9, <2>10, <2>11, <2>12 DEF Table!Wakeup
  <2> QED BY <2>13, SameSlots DEF Table!Next
<1> QED BY <1>1, <1>2

(* What main() leaves is what ProcTable begins with. *)
LEMMA InitRefines ==
  ASSUME Init
  PROVE  Table!Init /\ EmbryoInv /\ WakingInv
<1> USE ProcAssumption DEF Init
<1>1. EmbryoInv /\ WakingInv
  BY InitProcIsSlot DEF EmbryoInv, WakingInv, Slot
<1>2. AbsState = [p \in Slot |-> IF p \in 1 .. 1 + NIDLE THEN "RUNNABLE" ELSE "UNUSED"]
  BY DEF AbsState, Slot
<1>3. AbsParent = [p \in Slot |-> Nil] /\ AbsChan = [p \in Slot |-> Nil]
  BY DEF AbsParent, AbsChan, Slot
<1>4. AbsHeld = [l \in Lock |-> Nil] /\ AbsWaking = [p \in Slot |-> Nil]
  BY DEF AbsHeld, AbsWaking, Slot
<1> QED
  BY <1>1, <1>2, <1>3, <1>4, SameSlots DEF Table!Init

(* For any finite number of CPUs and any size of the table, with or        *)
(* without failing allocations: the CPUs, ptable.lock and swtch implement  *)
(* the process table that programs and the rest of the kernel see. sleep   *)
(* is atomic with the release of its lock, a wakeup reaches all sleepers,  *)
(* wait misses no exit, and no more processes run than there are CPUs.     *)
THEOREM ProcIsTable ==
  ASSUME IsFiniteSet(CPU)
  PROVE  Spec => ImplementsProcTable
<1> DEFINE Inv == TableInv /\ EmbryoInv /\ WakingInv
<1>1. Init => Inv /\ Table!Init
  BY TableInvInit, InitRefines
<1>2. Inv /\ [Next]_vars => Inv'
  BY TableInvNext, EmbryoInvNext, WakingInvNext
<1>3. Inv /\ [Next]_vars => [Table!Next]_Table!vars
  <2> SUFFICES ASSUME TableInv, EmbryoInv, WakingInv, [Next]_vars
               PROVE  [Table!Next]_Table!vars
    OBVIOUS
  <2>1. CASE UNCHANGED vars
    <3>1. UNCHANGED <<cur, state, parent, chan, pc, arg, lkcpu>>
      BY <2>1 DEF vars
    <3> QED BY <3>1, Unseen
  <2>2. ASSUME NEW c \in CPU, SchedStep(c) PROVE [Table!Next]_Table!vars
    BY <2>2, SchedRefines
  <2>3. ASSUME NEW c \in CPU, NEW p \in Slot, ProcStep(c, p) PROVE [Table!Next]_Table!vars
    BY <2>3, YieldRefines, ForkRefines, ExitRefines, WaitRefines, LockRefines, SleepRefines,
       WakeupRefines DEF ProcStep, ClientStep
  <2> QED BY <2>1, <2>2, <2>3 DEF Next
<1> QED
  BY <1>1, <1>2, <1>3, PTL DEF Spec, ImplementsProcTable, Table!Spec

-----------------------------------------------------------------------------
(***************************************************************************)
(* sleeplock.c, on top of what is proved above: SleepLock takes sleep and  *)
(* wakeup to be one step each, as ProcTable does.                          *)
(***************************************************************************)

(* lk->lk is held by the process whose code must hold it. *)
SpinInv == \A p \in Proc : at[p] \in SpinPC <=> spin = p

SleepLockInv == LockTypeOK /\ SpinInv /\ MutualExclusion /\ SleepersAwaitHolder

(* The lock starts free, with nobody in its functions. *)
LEMMA SleepLockInvInit == LockInit => SleepLockInv
  BY SleepLockAssumption DEF SleepLockInv, LockTypeOK, LockPC, SpinPC, HasPC,
     LockInit, SpinInv, MutualExclusion, SleepersAwaitHolder

(* Each step of the three functions, and each call, keeps the invariant. *)
LEMMA SleepLockInvNext == SleepLockInv /\ [LockNext]_lockVars => SleepLockInv'
<1> SUFFICES ASSUME SleepLockInv, [LockNext]_lockVars PROVE SleepLockInv'
  OBVIOUS
<1> USE SleepLockAssumption DEF SleepLockInv, LockTypeOK, LockPC, SpinPC, HasPC, Jump, Acquired
<1>1. ASSUME NEW p \in Proc, Call(p) PROVE SleepLockInv'
  BY <1>1 DEF Call, SpinInv, MutualExclusion, SleepersAwaitHolder
<1>2. ASSUME NEW p \in Proc, Spin(p) PROVE SleepLockInv'
  BY <1>2 DEF Spin, SpinInv, MutualExclusion, SleepersAwaitHolder
<1>3. ASSUME NEW p \in Proc, SleepOn(p) PROVE SleepLockInv'
  BY <1>3 DEF SleepOn, SpinInv, MutualExclusion, SleepersAwaitHolder
<1>4. ASSUME NEW p \in Proc, Take(p) PROVE SleepLockInv'
  BY <1>4 DEF Take, SpinInv, MutualExclusion, SleepersAwaitHolder
<1>5. ASSUME NEW p \in Proc, Clear(p) PROVE SleepLockInv'
  BY <1>5 DEF Clear, SpinInv, MutualExclusion, SleepersAwaitHolder
<1>6. ASSUME NEW p \in Proc, Wake(p) PROVE SleepLockInv'
  BY <1>6 DEF Wake, SpinInv, MutualExclusion, SleepersAwaitHolder
<1>7. ASSUME NEW p \in Proc, Unlock(p) PROVE SleepLockInv'
  BY <1>7 DEF Unlock, SpinInv, MutualExclusion, SleepersAwaitHolder
<1>8. ASSUME NEW p \in Proc, Read(p) PROVE SleepLockInv'
  BY <1>8 DEF Read, SpinInv, MutualExclusion, SleepersAwaitHolder
<1>9. CASE UNCHANGED lockVars
  BY <1>9 DEF lockVars, SpinInv, MutualExclusion, SleepersAwaitHolder
<1> QED
  BY <1>1, <1>2, <1>3, <1>4, <1>5, <1>6, <1>7, <1>8, <1>9 DEF LockNext, Inside

(* The invariant holds in every reachable state. *)
THEOREM SleepLockInvariant == LockSpec => []SleepLockInv
  BY SleepLockInvInit, SleepLockInvNext, PTL DEF LockSpec

(* The lock and its users keep their types. *)
THEOREM SleepLockTyped == LockSpec => []LockTypeOK
<1>1. SleepLockInv => LockTypeOK
  BY DEF SleepLockInv
<1> QED BY <1>1, SleepLockInvariant, PTL

(* At most one process holds the sleep lock. *)
THEOREM SleepLockExcludes == LockSpec => []MutualExclusion
<1>1. SleepLockInv => MutualExclusion
  BY DEF SleepLockInv
<1> QED BY <1>1, SleepLockInvariant, PTL

(* Nobody sleeps on a free lock unless releasesleep is about to wake it. *)
THEOREM NoLostWakeup == LockSpec => []SleepersAwaitHolder
<1>1. SleepLockInv => SleepersAwaitHolder
  BY DEF SleepLockInv
<1> QED BY <1>1, SleepLockInvariant, PTL

(* holdingsleep answers for the caller, under every interleaving. *)
THEOREM HoldingExact == LockSpec => HoldingIsExact
<1>1. SleepLockInv /\ [LockNext]_lockVars =>
        [\A p \in Proc :
            at[p] \in {"readout", "readhas"} /\ at'[p] # at[p] =>
                (answer'[p] <=> at[p] = "readhas")]_lockVars
  <2> SUFFICES ASSUME SleepLockInv, LockNext, NEW p \in Proc,
                      at[p] \in {"readout", "readhas"}, at'[p] # at[p]
               PROVE  answer'[p] <=> at[p] = "readhas"
    OBVIOUS
  <2> USE DEF SleepLockInv, LockTypeOK, LockPC, SpinPC, HasPC, Jump, Acquired
  <2>1. PICK q \in Proc : Call(q) \/ Spin(q) \/ Inside(q)
    BY DEF LockNext
  <2>2. q = p
    BY <2>1 DEF Call, Spin, Inside, SleepOn, Take, Clear, Wake, Unlock, Read
  <2>3. Read(p)
    BY <2>1, <2>2 DEF Call, Spin, Inside, SleepOn, Take, Clear, Wake, Unlock
  <2>4. locked /\ pid = p <=> at[p] = "readhas"
    BY DEF MutualExclusion
  <2> QED BY <2>3, <2>4 DEF Read
<1> QED BY <1>1, SleepLockInvariant, PTL DEF LockSpec, HoldingIsExact
=============================================================================
