----------------------------- MODULE ProcTable ------------------------------
(***************************************************************************)
(* What the process layer (kern/proc.c) promises to the rest of the        *)
(* kernel and to user programs, without CPUs, ptable.lock and swtch:       *)
(*                                                                         *)
(*   - at most NCPU processes run;                                         *)
(*   - sleep(chan, lk) gives up lk and falls asleep in one step, and       *)
(*     wakeup(chan) makes all sleepers of chan runnable in one step;       *)
(*   - fork, exit and wait keep the tree of processes: wait sleeps only    *)
(*     while no child has exited, and an exit wakes whoever waits for a    *)
(*     child that has exited.                                              *)
(*                                                                         *)
(* ProcRefines shows that Proc implements this specification.              *)
(***************************************************************************)
EXTENDS Naturals, FiniteSets

CONSTANTS
    NCPU,   \* processors
    NPROC,  \* slots of the process table
    Init0,  \* the process that adopts orphans
    Booted, \* the processes that main() makes
    Lock,   \* spin locks that are passed to sleep()
    Chan,   \* channels other than the processes themselves
    Nil

Slot == 1 .. NPROC

VARIABLES
    st,     \* state of each process
    par,    \* parent of each started process
    on,     \* channel of each sleeping process
    held,   \* the process that holds each spin lock
    waking  \* the channel each process has called wakeup() for

vars == <<st, par, on, held, waking>>

Init ==
    /\ st = [p \in Slot |-> IF p \in Booted THEN "RUNNABLE" ELSE "UNUSED"]
    /\ par = [p \in Slot |-> Nil]
    /\ on = [p \in Slot |-> Nil]
    /\ held = [l \in Lock |-> Nil]
    /\ waking = [p \in Slot |-> Nil]

In(s) == {p \in Slot : st[p] = s}
ChildrenOf(p) == {q \in Slot : par[q] = p}

(* The state table once p is in state s and the processes of W are awake. *)
Becomes(p, s, W) ==
    /\ st' = [q \in Slot |-> IF q = p THEN s ELSE IF q \in W THEN "RUNNABLE" ELSE st[q]]
    /\ on' = [q \in Slot |-> IF q \in W THEN Nil ELSE on[q]]

Run(p) ==
    /\ st[p] = "RUNNABLE" /\ Cardinality(In("RUNNING")) < NCPU
    /\ st' = [st EXCEPT ![p] = "RUNNING"]
    /\ UNCHANGED <<par, on, held, waking>>

Preempt(p) ==
    /\ st[p] = "RUNNING" /\ \A l \in Lock : held[l] # p
    /\ st' = [st EXCEPT ![p] = "RUNNABLE"]
    /\ UNCHANGED <<par, on, held, waking>>

Reserve(q) ==
    /\ st[q] = "UNUSED" /\ In("RUNNING") # {}
    /\ st' = [st EXCEPT ![q] = "EMBRYO"]
    /\ UNCHANGED <<par, on, held, waking>>

Abandon(q) ==
    /\ st[q] = "EMBRYO"
    /\ st' = [st EXCEPT ![q] = "UNUSED"]
    /\ UNCHANGED <<par, on, held, waking>>

Fork(p, q) ==
    /\ st[p] = "RUNNING" /\ st[q] = "EMBRYO"
    /\ st' = [st EXCEPT ![q] = "RUNNABLE"]
    /\ par' = [par EXCEPT ![q] = p]
    /\ UNCHANGED <<on, held, waking>>

(* Whoever sleeps in wait and now has an exited child is woken. *)
Exit(p) ==
    /\ st[p] = "RUNNING" /\ \A l \in Lock : held[l] # p
    /\ par' = [q \in Slot |-> IF par[q] = p THEN Init0 ELSE par[q]]
    /\ LET exited == In("ZOMBIE") \cup {p}
       IN  Becomes(p, "ZOMBIE",
                   {q \in In("SLEEPING") : on[q] = q /\ \E r \in exited : par'[r] = q})
    /\ UNCHANGED <<held, waking>>

Reap(p, q) ==
    /\ st[p] = "RUNNING" /\ st[q] = "ZOMBIE" /\ par[q] = p
    /\ st' = [st EXCEPT ![q] = "UNUSED"]
    /\ par' = [par EXCEPT ![q] = Nil]
    /\ UNCHANGED <<on, held, waking>>

WaitSleep(p) ==
    /\ st[p] = "RUNNING" /\ \A l \in Lock : held[l] # p
    /\ ChildrenOf(p) # {} /\ ChildrenOf(p) \cap In("ZOMBIE") = {}
    /\ st' = [st EXCEPT ![p] = "SLEEPING"]
    /\ on' = [on EXCEPT ![p] = p]
    /\ UNCHANGED <<par, held, waking>>

Acquire(p, l) ==
    /\ st[p] = "RUNNING" /\ held[l] = Nil
    /\ held' = [held EXCEPT ![l] = p]
    /\ UNCHANGED <<st, par, on, waking>>

Release(p, l) ==
    /\ held[l] = p
    /\ held' = [held EXCEPT ![l] = Nil]
    /\ UNCHANGED <<st, par, on, waking>>

(* sleep(c, l): no step of another process is between the two. *)
Sleep(p, c, l) ==
    /\ st[p] = "RUNNING" /\ held[l] = p
    /\ st' = [st EXCEPT ![p] = "SLEEPING"]
    /\ on' = [on EXCEPT ![p] = c]
    /\ held' = [held EXCEPT ![l] = Nil]
    /\ UNCHANGED <<par, waking>>

CallWakeup(p, c) ==
    /\ st[p] = "RUNNING" /\ waking[p] = Nil
    /\ waking' = [waking EXCEPT ![p] = c]
    /\ UNCHANGED <<st, par, on, held>>

(* The call of wakeup ends when all the sleepers are runnable. *)
Wakeup(p) ==
    /\ waking[p] # Nil
    /\ Becomes(Nil, "RUNNING", {q \in In("SLEEPING") : on[q] = waking[p]})
    /\ waking' = [waking EXCEPT ![p] = Nil]
    /\ UNCHANGED <<par, held>>

Next ==
    \/ \E p \in Slot : \/ Run(p) \/ Preempt(p) \/ Reserve(p) \/ Abandon(p)
                       \/ Exit(p) \/ WaitSleep(p) \/ Wakeup(p)
                       \/ \E c \in Chan : CallWakeup(p, c)
                       \/ \E q \in Slot : Fork(p, q) \/ Reap(p, q)
                       \/ \E l \in Lock : \/ Acquire(p, l) \/ Release(p, l)
                                          \/ \E c \in Chan : Sleep(p, c, l)

Spec == Init /\ [][Next]_vars
=============================================================================
