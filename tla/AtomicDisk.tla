----------------------------- MODULE AtomicDisk -----------------------------
(***************************************************************************)
(* What the log (kern/log.c) promises to the file system calls: the disk   *)
(* goes from one state in which no call is in progress to a later one, and *)
(* a crash takes the file system back to the last of them.  It promises    *)
(* nothing from the first transaction on that changes more than Room       *)
(* blocks.                                                                 *)
(***************************************************************************)
EXTENDS Naturals, FiniteSets

CONSTANTS
    Proc,
    Blk,
    Val,
    Room     \* blocks that a transaction may change

VARIABLES
    stable,  \* the contents of the blocks after a crash
    cur,     \* the contents that the file system calls see
    active,  \* the processes between begin_op and end_op
    changed, \* the blocks changed since the last commit
    spoilt   \* a transaction was too large

vars == <<stable, cur, active, changed, spoilt>>

Init ==
    /\ cur \in [Blk -> Val]
    /\ stable = cur
    /\ active = {} /\ changed = {}
    /\ spoilt = FALSE

Begin(p) ==
    /\ p \notin active
    /\ active' = active \cup {p}
    /\ UNCHANGED <<stable, cur, changed, spoilt>>

Write(p, k, v) ==
    /\ p \in active
    /\ cur' = [cur EXCEPT ![k] = v]
    /\ changed' = changed \cup {k}
    /\ UNCHANGED <<stable, active, spoilt>>

End(p) ==
    /\ p \in active
    /\ active' = active \ {p}
    /\ UNCHANGED <<stable, cur, changed, spoilt>>

Commit ==
    /\ active = {}
    /\ stable' = cur
    /\ changed' = {}
    /\ UNCHANGED <<cur, active, spoilt>>

(* The transaction is too large: its last write, or its commit, may leave  *)
(* anything.                                                               *)
Spoil == Cardinality(changed') > Room /\ spoilt'

Crash ==
    /\ cur' = stable
    /\ active' = {} /\ changed' = {}
    /\ UNCHANGED <<stable, spoilt>>

Next ==
    \/ \E p \in Proc : \/ Begin(p) \/ End(p)
                       \/ \E k \in Blk, v \in Val : Write(p, k, v)
    \/ Commit \/ Crash
    \/ Spoil
    \/ spoilt /\ spoilt'

Spec == Init /\ [][Next]_vars
=============================================================================
