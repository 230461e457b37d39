----------------------------- MODULE SleepLock ------------------------------
(***************************************************************************)
(* kern/sleeplock.c: one sleep lock, used by any number of processes.      *)
(* sleep(lk, &lk->lk) gives up the spin lock and falls asleep in one step  *)
(* and wakeup(lk) makes all its sleepers runnable in one step, as          *)
(* ProcTable promises.  The callers are the buffer cache and the inode     *)
(* cache: a process releases only what it holds and does not take what it  *)
(* holds (bwrite, brelse and iunlock panic otherwise).                     *)
(***************************************************************************)
CONSTANTS
    Proc,  \* the processes, by pid
    None   \* nobody

ASSUME SleepLockAssumption == None \notin Proc

VARIABLES
    spin,    \* the process whose CPU holds lk->lk
    locked,  \* lk->locked
    pid,     \* lk->pid
    at,      \* where each process is in sleeplock.c
    answer   \* what holdingsleep last returned to each process

lockVars == <<spin, locked, pid, at, answer>>

(* Inside acquiresleep: "acquire" spins for lk->lk (on entry and when      *)
(* sleep returns), "test" is the while loop.  Inside releasesleep:         *)
(* "release" spins, then "clear", "wake", "unlock".  Inside holdingsleep:  *)
(* "ask" spins (the process may hold the lock or not), "read".             *)
LockPC == {"out", "acquire", "test", "asleep", "has", "release", "clear",
           "wake", "unlock", "askout", "askhas", "readout", "readhas"}

SpinPC == {"test", "clear", "wake", "unlock", "readout", "readhas"}
HasPC  == {"has", "release", "clear", "askhas", "readhas"}

LockTypeOK ==
    /\ spin \in Proc \cup {None}
    /\ locked \in BOOLEAN
    /\ pid \in Proc \cup {None}
    /\ at \in [Proc -> LockPC]
    /\ answer \in [Proc -> BOOLEAN]

(* initsleeplock *)
LockInit ==
    /\ spin = None
    /\ locked = FALSE
    /\ pid = None
    /\ at = [p \in Proc |-> "out"]
    /\ answer = [p \in Proc |-> FALSE]

Jump(p, l) == at' = [at EXCEPT ![p] = l]

(* The process calls one of the functions. *)
Call(p) ==
    /\ \/ at[p] = "out" /\ \E l \in {"acquire", "askout"} : Jump(p, l)
       \/ at[p] = "has" /\ \E l \in {"release", "askhas"} : Jump(p, l)
    /\ UNCHANGED <<spin, locked, pid, answer>>

(* acquire(&lk->lk) *)
Acquired == {<<"acquire", "test">>, <<"release", "clear">>,
             <<"askout", "readout">>, <<"askhas", "readhas">>}

Spin(p) ==
    /\ spin = None
    /\ spin' = p
    /\ \E e \in Acquired : at[p] = e[1] /\ Jump(p, e[2])
    /\ UNCHANGED <<locked, pid, answer>>

(* SleepOn, without the test of lk->locked. *)
SleepAnyway(p) ==
    /\ at[p] = "test"
    /\ spin' = None
    /\ Jump(p, "asleep")
    /\ UNCHANGED <<locked, pid, answer>>

SleepOn(p) ==
    /\ at[p] = "test" /\ locked
    /\ spin' = None
    /\ Jump(p, "asleep")
    /\ UNCHANGED <<locked, pid, answer>>

(* Take, without the test of lk->locked. *)
TakeAnyway(p) ==
    /\ at[p] = "test"
    /\ locked' = TRUE
    /\ pid' = p
    /\ spin' = None
    /\ Jump(p, "has")
    /\ UNCHANGED answer

Take(p) ==
    /\ at[p] = "test" /\ ~locked
    /\ locked' = TRUE
    /\ pid' = p
    /\ spin' = None
    /\ Jump(p, "has")
    /\ UNCHANGED answer

Clear(p) ==
    /\ at[p] = "clear"
    /\ locked' = FALSE
    /\ pid' = None
    /\ Jump(p, "wake")
    /\ UNCHANGED <<spin, answer>>

(* Wake, without the wakeup. *)
WakeNobody(p) ==
    /\ at[p] = "wake"
    /\ Jump(p, "unlock")
    /\ UNCHANGED <<spin, locked, pid, answer>>

(* wakeup(lk), with lk->lk held: the sleepers will spin for lk->lk. *)
Wake(p) ==
    /\ at[p] = "wake"
    /\ at' = [q \in Proc |-> IF q = p THEN "unlock"
                             ELSE IF at[q] = "asleep" THEN "acquire" ELSE at[q]]
    /\ UNCHANGED <<spin, locked, pid, answer>>

Unlock(p) ==
    /\ at[p] = "unlock"
    /\ spin' = None
    /\ Jump(p, "out")
    /\ UNCHANGED <<locked, pid, answer>>

(* Read, without the comparison of lk->pid. *)
ReadLocked(p) ==
    /\ at[p] \in {"readout", "readhas"}
    /\ answer' = [answer EXCEPT ![p] = locked]
    /\ spin' = None
    /\ Jump(p, IF at[p] = "readout" THEN "out" ELSE "has")
    /\ UNCHANGED <<locked, pid>>

(* The body of holdingsleep and its release. *)
Read(p) ==
    /\ at[p] \in {"readout", "readhas"}
    /\ answer' = [answer EXCEPT ![p] = locked /\ pid = p]
    /\ spin' = None
    /\ Jump(p, IF at[p] = "readout" THEN "out" ELSE "has")
    /\ UNCHANGED <<locked, pid>>

Inside(p) == SleepOn(p) \/ Take(p) \/ Clear(p) \/ Wake(p) \/ Unlock(p) \/ Read(p)

LockNext == \E p \in Proc : Call(p) \/ Spin(p) \/ Inside(p)

LockSpec == LockInit /\ [][LockNext]_lockVars

(* A CPU inside the functions goes on; a spinning CPU gets the lock when   *)
(* it is free again and again; a holder releases the lock in the end.      *)
FairLockSpec ==
    /\ LockSpec
    /\ \A p \in Proc :
          /\ WF_lockVars(Inside(p))
          /\ SF_lockVars(Spin(p))
          /\ SF_lockVars(Call(p) /\ at'[p] = "release")

-----------------------------------------------------------------------------
(* At most one process is between the return of acquiresleep and the clear *)
(* of releasesleep, and lk->pid names it.                                  *)
MutualExclusion ==
    \A p \in Proc : at[p] \in HasPC <=> locked /\ pid = p

(* No wakeup is lost: whoever sleeps on the lock sleeps while it is held,  *)
(* or releasesleep is on its way to wakeup.                                *)
SleepersAwaitHolder ==
    \A p \in Proc : at[p] = "asleep" => locked \/ \E q \in Proc : at[q] = "wake"

(* holdingsleep tells the caller whether it holds the lock itself, also    *)
(* when another process holds it or is taking it at the same time.         *)
HoldingIsExact ==
    [][\A p \in Proc :
          at[p] \in {"readout", "readhas"} /\ at'[p] # at[p] =>
              (answer'[p] <=> at[p] = "readhas")]_lockVars

(* A process asleep in acquiresleep is woken. *)
SleeperWakes == \A p \in Proc : at[p] = "asleep" ~> at[p] # "asleep"
=============================================================================
