------------------------------- MODULE Memory -------------------------------
(***************************************************************************)
(* kern/kalloc.c, kern/vm.c, and what fork, wait, brk and execve do with   *)
(* pages: the free list, four levels of page tables, and processes that    *)
(* grow, shrink, copy, replace and give back their memory while others     *)
(* take pages from the same list.                                          *)
(*                                                                         *)
(* An address space is counted in units of which PGSIZE make a page, so    *)
(* that sizes need not be whole pages.  One page of the loops in allocuvm  *)
(* and copyuvm is one step; giving pages back is one step.  Nothing        *)
(* happens after a panic.                                                  *)
(***************************************************************************)
EXTENDS Integers, Sequences, FiniteSets

CONSTANTS
    Proc,      \* slots for processes
    Initproc,  \* the one that user_init makes
    NPAGE,     \* physical pages
    ENTRIES,   \* entries of a page table
    PGSIZE,    \* units in a page
    UADDR_SZ,  \* limit of an address space, in units
    MaxCalls,  \* bound on the number of calls to brk, fork and execve
    Brk,       \* arguments of brk
    Image      \* programs: sequences of segments, in units: from start, of
               \* which the file has what is below file, up to end

Segment == [start : Nat, file : Nat, end : Nat]

ASSUME MemoryAssumption ==
    /\ Initproc \in Proc
    /\ NPAGE \in Nat /\ NPAGE > 5
    /\ ENTRIES \in Nat /\ ENTRIES > 1
    /\ PGSIZE \in Nat /\ PGSIZE > 0
    /\ UADDR_SZ \in Nat /\ UADDR_SZ > PGSIZE
    /\ UADDR_SZ <= (ENTRIES * (ENTRIES * (ENTRIES * ENTRIES))) * PGSIZE
    /\ Brk \subseteq Int /\ MaxCalls \in Nat
    /\ Image \subseteq Seq(Segment)

VARIABLES
    heap,    \* free, table: the pages; kernel: pages mapped without PTE_USER;
             \* ok: FALSE after a page is freed twice or mapped over another.
             \* Page 0 is the null pointer; it holds no entries.
    kstack,  \* p->kstack, or 0
    pgdir,   \* p->pgdir, or 0
    sz,      \* p->sz
    pc,      \* where each process is
    loc,     \* its locals
    holes,   \* history: pages of p below p->sz that the code has lost
    stale,   \* history: pages of p above p->sz that the code has left
    guard,   \* history: where p's stack guard is
    mishap,  \* history: the free list ran empty while p's image grew, or brk
             \* has shrunk it to nothing
    spoilt,  \* history: the same of the image that execve is making
    ncalls   \* how many calls there have been

vars == <<heap, kstack, pgdir, sz, pc, loc, holes, stale, guard, mishap, spoilt, ncalls>>

PageUp(n)  == (n + PGSIZE - 1) \div PGSIZE
Pages(n)   == 0 .. PageUp(n) - 1

Page  == 1 .. NPAGE
Slot  == 0 .. ENTRIES - 1
VPage == Pages(UADDR_SZ)

PC == {"unused", "user", "grow", "copy", "seg", "load", "args", "bad", "zombie",
       "nomem", "nopage", "mapped"}

Local == [then : {"none", "brk", "load", "args"}, pd : 0 .. NPAGE, a : Nat, old : Nat, new : Nat,
          sz : 0 .. UADDR_SZ - 1, segs : Seq(Segment), child : Proc,
          holes : SUBSET VPage]

NoLocal == [then |-> "none", pd |-> 0, a |-> 0, old |-> 0, new |-> 0, sz |-> 0,
            segs |-> <<>>, child |-> Initproc, holes |-> {}]

StateOK ==
    /\ heap \in [free : SUBSET Page, kernel : SUBSET Page, ok : {TRUE},
                  table : [0 .. NPAGE -> [Slot -> 0 .. NPAGE]]]
    /\ kstack \in [Proc -> 0 .. NPAGE] /\ pgdir \in [Proc -> 0 .. NPAGE]
    /\ sz \in [Proc -> 0 .. UADDR_SZ - 1] /\ pc \in [Proc -> PC]
    /\ loc \in [Proc -> Local] /\ ncalls \in Nat
    /\ holes \in [Proc -> SUBSET VPage] /\ stale \in [Proc -> SUBSET VPage]
    /\ guard \in [Proc -> SUBSET VPage]

TypeOK == StateOK /\ mishap \in [Proc -> BOOLEAN] /\ spoilt \in [Proc -> BOOLEAN]

-----------------------------------------------------------------------------
(* kalloc.c.  What a free page holds is never read, and which of them      *)
(* kalloc takes is of no consequence.                                      *)
NoEntries == [i \in Slot |-> 0]

NextPage(h) == IF h.free = {} THEN 0 ELSE CHOOSE page \in h.free : TRUE
Kalloc(h)   == [h EXCEPT !.free = @ \ {NextPage(h)}]

Kfree(h, S) ==
    [h EXCEPT !.free = @ \cup S, !.kernel = @ \ S, !.ok = @ /\ S \cap h.free = {},
              !.table = [t \in 0 .. NPAGE |-> IF t \in S THEN NoEntries ELSE h.table[t]]]

-----------------------------------------------------------------------------
(* vm.c *)

(* The index of page v at a level. *)
Block(v) == v \div ENTRIES
PTX(level, v) ==
    CASE level = 0 -> Block(Block(Block(v))) % ENTRIES
      [] level = 1 -> Block(Block(v)) % ENTRIES
      [] level = 2 -> Block(v) % ENTRIES
      [] level = 3 -> v % ENTRIES

(* pgdir_walk without alloc: the table of level 3 for page v, or 0. *)
Down(h, t, level, v)  == h.table[t][PTX(level, v)]
Pgdir_walk(h, pd, v)  == Down(h, Down(h, Down(h, pd, 0, v), 1, v), 2, v)
HasTable(h, pd, v)    == Pgdir_walk(h, pd, v) # 0
Pte(h, pd, v)         == Down(h, Pgdir_walk(h, pd, v), 3, v)

(* pgdir_walk with alloc makes the tables that are missing, and keeps      *)
(* those it has made if one fails.                                         *)
Link(h, t, i, page) == [h EXCEPT !.table[t][i] = page]

Enter(w, level, v) ==
    LET i    == PTX(level, v)
        next == w.h.table[w.at][i]
        new  == NextPage(w.h)
    IN  IF w.at = 0 \/ next # 0 THEN [w EXCEPT !.at = next]
        ELSE [h |-> IF new = 0 THEN w.h ELSE Link(Kalloc(w.h), w.at, i, new), at |-> new]

Pgdir_alloc(h, pd, v) == Enter(Enter(Enter([h |-> h, at |-> pd], 0, v), 1, v), 2, v)

(* map_region of one page; it fails when the walk does. *)
Unmappable(h, pd, v) == Pgdir_alloc(h, pd, v).at = 0
Map_region(h, pd, v, page) ==
    LET w == Pgdir_alloc(h, pd, v)
        i == PTX(3, v)
    IN  IF w.at = 0 THEN w.h
        ELSE [Link(w.h, w.at, i, page) EXCEPT !.ok = @ /\ w.h.table[w.at][i] = 0]

(* clearpteu *)
Clearpteu(h, pd, v) == [h EXCEPT !.kernel = @ \cup ({Pte(h, pd, v)} \ {0})]

(* copyout to the pages S: uva2ka wants each of them present and PTE_USER. *)
Copyout(h, pd, S) == \A v \in S : Pte(h, pd, v) \notin {0} \cup h.kernel

(* The pages at each depth below a page directory. *)
Children(h, S) == {h.table[t][i] : t \in S, i \in Slot} \ {0}
Below(h, pd, depth) ==
    CASE depth = 0 -> {pd}
      [] depth = 1 -> Children(h, {pd})
      [] depth = 2 -> Children(h, Children(h, {pd}))
      [] depth = 3 -> Children(h, Children(h, Children(h, {pd})))
      [] depth = 4 -> Children(h, Children(h, Children(h, Children(h, {pd}))))

(* vm_free frees a table when its level is less than 3, and what a table   *)
(* of level 3 lists; the level of pgdir is the caller's word.              *)
Vm_free(h, pd, level) ==
    Kfree(h, (UNION {Below(h, pd, k) : k \in 0 .. 2 - level}) \cup Below(h, pd, 4 - level))

(* Without *pte = 0. *)
DeallocKeepsPte(h, pd, old, new) ==
    Kfree(h, {Pte(h, pd, v) : v \in Pages(old) \ Pages(new)} \ {0})

(* From the page after the one that holds the new end. *)
VisitedBelow(h, pd, old, new) == Pages(old) \ Pages(new + PGSIZE)

(* The pages that deallocuvm comes to: where a table is missing it goes on *)
(* at the page after the first one of the next table.                      *)
Visited(h, pd, old, new) ==
    LET Span == Pages(old) \ Pages(new) IN
    {v \in Span : v % ENTRIES = 0 /\ v - 1 \in Span => HasTable(h, pd, v - 1)}

Deallocuvm(h, pd, old, new) ==
    LET Gone    == {v \in Visited(h, pd, old, new) : Pte(h, pd, v) # 0}
        Cleared == {<<Pgdir_walk(h, pd, v), PTX(3, v)>> : v \in Gone}
        Entry   == [t \in 0 .. NPAGE |->
                      [i \in Slot |-> IF <<t, i>> \in Cleared THEN 0 ELSE h.table[t][i]]]
    IN  Kfree([h EXCEPT !.table = Entry], {Pte(h, pd, v) : v \in Gone})

-----------------------------------------------------------------------------
(* user_init: the first process has one page. *)
Boot ==
    LET h == [free |-> Page \ {1, 2, 3}, kernel |-> {}, ok |-> TRUE,
              table |-> [t \in 0 .. NPAGE |-> NoEntries]]
    IN  Map_region(h, 2, 0, 3)

Init ==
    /\ heap = Boot
    /\ kstack = [p \in Proc |-> IF p = Initproc THEN 1 ELSE 0]
    /\ pgdir = [p \in Proc |-> IF p = Initproc THEN 2 ELSE 0]
    /\ sz = [p \in Proc |-> IF p = Initproc THEN PGSIZE ELSE 0]
    /\ pc = [p \in Proc |-> IF p = Initproc THEN "user" ELSE "unused"]
    /\ loc = [p \in Proc |-> NoLocal]
    /\ holes = [p \in Proc |-> {}] /\ stale = [p \in Proc |-> {}] /\ guard = [p \in Proc |-> {}]
    /\ mishap = [p \in Proc |-> FALSE] /\ spoilt = [p \in Proc |-> FALSE]
    /\ ncalls = 0

Goto(p, l) == pc' = [pc EXCEPT ![p] = l]
Locally(p, r) == loc' = [loc EXCEPT ![p] = r]

(* Nothing has happened to the images, p's has turned out so, or the one   *)
(* that execve makes is no longer its own.                                 *)
NoMishap        == UNCHANGED <<mishap, spoilt>>
Mishap(p, what) == mishap' = [mishap EXCEPT ![p] = what] /\ UNCHANGED spoilt
Unspoilt(p)     == spoilt' = [spoilt EXCEPT ![p] = FALSE]

Called == ncalls < MaxCalls /\ ncalls' = ncalls + 1

(* allocuvm, in the page directory pd. *)
Allocuvm(p, r, pd, old, new, then) ==
    /\ Goto(p, "grow")
    /\ Locally(p, [r EXCEPT !.then = then, !.pd = pd, !.a = PageUp(old), !.old = old, !.new = new])

-----------------------------------------------------------------------------
(* brk: growproc *)

BrkGrow(p) ==
    /\ pc[p] = "user" /\ Called
    /\ \E n \in Brk :
          /\ n > 0 /\ sz[p] + n < UADDR_SZ
          /\ Allocuvm(p, NoLocal, pgdir[p], sz[p], sz[p] + n, "brk")
    /\ NoMishap
    /\ UNCHANGED <<heap, kstack, pgdir, sz, holes, stale, guard>>

(* What the code has lost of p's image, and what it has left behind.       *)
Lost(p, below, above, closed) ==
    /\ holes' = [holes EXCEPT ![p] = below]
    /\ stale' = [stale EXCEPT ![p] = above]
    /\ guard' = [guard EXCEPT ![p] = closed]

(* The new size of 0 is taken for a failure, and the size stays. *)
BrkShrink(p) ==
    /\ pc[p] = "user" /\ Called
    /\ \E n \in Brk : LET new == sz[p] + n IN
          /\ n < 0 /\ new >= 0
          /\ heap' = Deallocuvm(heap, pgdir[p], sz[p], new)
          /\ sz' = [sz EXCEPT ![p] = IF new = 0 THEN @ ELSE new]
          /\ LET gone == Visited(heap, pgdir[p], sz[p], new) IN
             IF new = 0
             THEN Lost(p, holes[p] \cup gone, stale[p], guard[p] \ gone)
             ELSE Lost(p, holes[p] \cap Pages(new),
                       (stale[p] \cup (Pages(sz[p]) \ (Pages(new) \cup holes[p]))) \ gone,
                       guard[p] \ gone)
          /\ Mishap(p, mishap[p] \/ new = 0)
    /\ UNCHANGED <<kstack, pgdir, pc, loc>>

(* A step of allocuvm that leaves no free page behind. *)
RanEmpty(p) ==
    IF loc[p].then = "brk" THEN Mishap(p, mishap[p] \/ heap'.free = {})
    ELSE spoilt' = [spoilt EXCEPT ![p] = @ \/ heap'.free = {}] /\ UNCHANGED mishap

(* One page of allocuvm: map_region's failure goes unnoticed, and it       *)
(* panics at an entry that is present.                                     *)
GrowPage(p) ==
    LET l    == loc[p]
        page == NextPage(heap)
        h    == Kalloc(heap)
    IN  /\ pc[p] = "grow" /\ l.a * PGSIZE < l.new /\ page # 0
        /\ IF Pte(heap, l.pd, l.a) # 0 THEN heap' = h /\ Goto(p, "mapped") /\ UNCHANGED loc
           ELSE /\ heap' = Map_region(h, l.pd, l.a, page)
                /\ Locally(p, [l EXCEPT !.a = @ + 1,
                        !.holes = IF Unmappable(h, l.pd, l.a) THEN @ \cup {l.a} ELSE @])
                /\ UNCHANGED pc
        /\ RanEmpty(p)
        /\ UNCHANGED <<kstack, pgdir, sz, holes, stale, guard, ncalls>>

(* No page: those of this call are given back. *)
GrowNoPage(p) ==
    LET l    == loc[p]
        gone == Visited(heap, l.pd, l.new, l.old)
    IN  /\ pc[p] = "grow" /\ l.a * PGSIZE < l.new /\ NextPage(heap) = 0
        /\ heap' = Deallocuvm(heap, l.pd, l.new, l.old)
        /\ IF l.then = "brk"
           THEN /\ Lost(p, holes[p],
                        (stale[p] \cup ((PageUp(l.old) .. l.a - 1) \ l.holes)) \ gone,
                        guard[p] \ gone)
                /\ Mishap(p, TRUE)
                /\ Goto(p, "user") /\ Locally(p, NoLocal)
           ELSE Goto(p, "bad") /\ NoMishap /\ UNCHANGED <<loc, holes, stale, guard>>
        /\ UNCHANGED <<kstack, pgdir, sz, ncalls>>

Grown(p) == IF loc[p].new < loc[p].old THEN loc[p].old ELSE loc[p].new

GrowDone(p) ==
    LET l == loc[p] IN
    /\ pc[p] = "grow" /\ l.a * PGSIZE >= l.new
    /\ IF l.then = "brk"
       THEN /\ sz' = [sz EXCEPT ![p] = Grown(p)]
            /\ holes' = [holes EXCEPT ![p] = @ \cup l.holes]
            /\ Goto(p, "user")
            /\ Locally(p, NoLocal)
       ELSE /\ Goto(p, l.then)
            /\ Locally(p, [l EXCEPT !.sz = Grown(p)])
            /\ UNCHANGED <<sz, holes>>
    /\ NoMishap
    /\ UNCHANGED <<heap, kstack, pgdir, stale, guard, ncalls>>

-----------------------------------------------------------------------------
(* fork *)

(* Two pages, for the kernel stack and the page directory; the kernel      *)
(* stops without them: the first failure keeps ptable.lock (see Proc), the *)
(* second is a panic of pgdir_init.                                        *)
Fork(p) ==
    LET stack == NextPage(heap)
        h     == Kalloc(heap)
        d     == NextPage(h)
    IN  /\ pc[p] = "user" /\ Called
        /\ \E q \in Proc :
              /\ pc[q] = "unused" /\ \A r \in Proc : pc[r] = "copy" => loc[r].child # q
              /\ IF d = 0 THEN Goto(p, "nomem") /\ UNCHANGED <<heap, kstack, loc>>
                 ELSE /\ heap' = Kalloc(h)
                      /\ kstack' = [kstack EXCEPT ![q] = stack]
                      /\ Goto(p, "copy")
                      /\ Locally(p, [NoLocal EXCEPT !.pd = d, !.child = q])
        /\ NoMishap
        /\ UNCHANGED <<pgdir, sz, holes, stale, guard>>

(* With PTE_USER for every page. *)
CopiedForUser(h, src, page) == h

(* The permission of the page src goes with it. *)
Copied(h, src, page) == IF src \in h.kernel THEN [h EXCEPT !.kernel = @ \cup {page}] ELSE h

(* One page of copyuvm, which panics at a hole. *)
CopyPage(p) ==
    LET l    == loc[p]
        src  == Pte(heap, pgdir[p], l.a)
        page == NextPage(heap)
        h    == Kalloc(heap)
        fail == page = 0 \/ Unmappable(h, l.pd, l.a)
        map  == Map_region(h, l.pd, l.a, page)
    IN  /\ pc[p] = "copy" /\ l.a * PGSIZE < sz[p]
        /\ IF src = 0 THEN Goto(p, "nopage") /\ UNCHANGED <<heap, kstack, loc>>
           ELSE IF fail
           THEN /\ heap' = Kfree(IF page = 0 THEN heap ELSE map, {l.pd, kstack[l.child]})
                /\ kstack' = [kstack EXCEPT ![l.child] = 0]
                /\ Goto(p, "user") /\ Locally(p, NoLocal)
           ELSE /\ heap' = Copied(map, src, page)
                /\ Locally(p, [l EXCEPT !.a = @ + 1])
                /\ UNCHANGED <<kstack, pc>>
        /\ NoMishap
        /\ UNCHANGED <<pgdir, sz, holes, stale, guard, ncalls>>

CopyDone(p) ==
    LET q == loc[p].child IN
    /\ pc[p] = "copy" /\ loc[p].a * PGSIZE >= sz[p]
    /\ pgdir' = [pgdir EXCEPT ![q] = loc[p].pd]
    /\ sz' = [sz EXCEPT ![q] = sz[p]]
    /\ Lost(q, holes[p], {}, guard[p] \cap Pages(sz[p])) /\ Mishap(q, FALSE)
    /\ pc' = [pc EXCEPT ![p] = "user", ![q] = "user"]
    /\ Locally(p, NoLocal)
    /\ UNCHANGED <<heap, kstack, ncalls>>

-----------------------------------------------------------------------------
(* execve *)

Exec(p) ==
    /\ pc[p] = "user" /\ Called
    /\ \E image \in Image :
          IF NextPage(heap) = 0 THEN Goto(p, "nomem") /\ UNCHANGED <<heap, loc>>
          ELSE /\ heap' = Kalloc(heap)
               /\ Goto(p, "seg")
               /\ Locally(p, [NoLocal EXCEPT !.pd = NextPage(heap), !.segs = image])
    /\ NoMishap
    /\ UNCHANGED <<kstack, pgdir, sz, holes, stale, guard>>

(* The next segment, or after the last the guard and the stack.  execve    *)
(* gives up when the header cannot be read or has more in the file than in *)
(* memory, or allocuvm returns 0, as it does also for a size of 0.         *)
ExecSeg(p) ==
    LET l    == loc[p]
        last == l.segs = <<>>
        old  == IF last THEN PageUp(l.sz) * PGSIZE ELSE l.sz
        new  == IF last THEN old + 2 * PGSIZE ELSE Head(l.segs).end
        fail == new >= UADDR_SZ \/ (new = 0 /\ old = 0)
                  \/ (~last /\ Head(l.segs).file > Head(l.segs).end)
    IN  /\ pc[p] = "seg"
        /\ \/ (fail \/ ~last) /\ Goto(p, "bad") /\ UNCHANGED loc
           \/ ~fail /\ Allocuvm(p, l, l.pd, old, new, IF last THEN "args" ELSE "load")
        /\ NoMishap
        /\ UNCHANGED <<heap, kstack, pgdir, sz, holes, stale, guard, ncalls>>

(* loaduvm panics when a table is missing, not when the page is.  It reads *)
(* page by page what the file has, and fails when the file is too short.   *)
ExecLoad(p) ==
    LET l     == loc[p]
        seg   == Head(l.segs)
        first == seg.start \div PGSIZE
        Gap   == {v \in {first} \cup (first .. PageUp(seg.file) - 1) : ~HasTable(heap, l.pd, v)}
    IN  /\ pc[p] = "load"
        /\ \/ first \notin Gap /\ Goto(p, "bad") /\ UNCHANGED loc
           \/ Gap # {} /\ Goto(p, "nopage") /\ UNCHANGED loc
           \/ Gap = {} /\ Goto(p, "seg") /\ Locally(p, [l EXCEPT !.segs = Tail(@)])
        /\ NoMishap
        /\ UNCHANGED <<heap, kstack, pgdir, sz, holes, stale, guard, ncalls>>

(* The guard, the arguments, and the new image in place of the old one.    *)
(* Arguments that do not fit in a page go on to the guard; without a table *)
(* for the stack, uva2ka reads through a null pointer.                     *)
ExecArgs(p) ==
    LET l == loc[p]
        g == PageUp(l.sz) - 2
        h == Clearpteu(heap, l.pd, g)
    IN  /\ pc[p] = "args"
        /\ IF ~HasTable(heap, l.pd, g) \/ ~HasTable(heap, l.pd, g + 1)
           THEN Goto(p, "nopage") /\ NoMishap /\ UNCHANGED <<heap, pgdir, sz, holes, stale, guard, loc>>
           ELSE \E S \in {{g + 1}, {g, g + 1}} :
              IF ~Copyout(h, l.pd, S)
              THEN Goto(p, "bad") /\ heap' = h /\ NoMishap /\ UNCHANGED <<pgdir, sz, holes, stale, guard, loc>>
              ELSE /\ heap' = Vm_free(h, pgdir[p], 1)
                   /\ pgdir' = [pgdir EXCEPT ![p] = l.pd]
                   /\ sz' = [sz EXCEPT ![p] = l.sz]
                   /\ Lost(p, l.holes, {}, {g} \ l.holes)
                   /\ mishap' = [mishap EXCEPT ![p] = spoilt[p]] /\ Unspoilt(p)
                   /\ Goto(p, "user") /\ Locally(p, NoLocal)
        /\ UNCHANGED <<kstack, ncalls>>

ExecBad(p) ==
    /\ pc[p] = "bad"
    /\ heap' = Vm_free(heap, loc[p].pd, 0) /\ Unspoilt(p) /\ UNCHANGED mishap
    /\ Goto(p, "user") /\ Locally(p, NoLocal)
    /\ UNCHANGED <<kstack, pgdir, sz, holes, stale, guard, ncalls>>

-----------------------------------------------------------------------------
Exit(p) ==
    /\ pc[p] = "user" /\ p # Initproc
    /\ Goto(p, "zombie") /\ NoMishap
    /\ UNCHANGED <<heap, kstack, pgdir, sz, loc, holes, stale, guard, ncalls>>

(* wait, in whichever process is the parent now.  (The code leaves pgdir  *)
(* and sz in the free slot, where no one reads them.)                     *)
Wait(p) ==
    /\ pc[p] = "user"
    /\ \E q \in Proc :
          /\ pc[q] = "zombie"
          /\ heap' = Vm_free(Kfree(heap, {kstack[q]}), pgdir[q], 1)
          /\ kstack' = [kstack EXCEPT ![q] = 0]
          /\ pgdir' = [pgdir EXCEPT ![q] = 0]
          /\ sz' = [sz EXCEPT ![q] = 0]
          /\ Lost(q, {}, {}, {}) /\ Mishap(q, FALSE)
          /\ Goto(q, "unused")
    /\ UNCHANGED <<loc, ncalls>>

Step(p) ==
    \/ BrkGrow(p) \/ BrkShrink(p) \/ GrowPage(p) \/ GrowNoPage(p) \/ GrowDone(p)
    \/ Fork(p) \/ CopyPage(p) \/ CopyDone(p)
    \/ Exec(p) \/ ExecSeg(p) \/ ExecLoad(p) \/ ExecArgs(p) \/ ExecBad(p)
    \/ Exit(p) \/ Wait(p)

Stopped == \E p \in Proc : pc[p] \in {"nomem", "nopage", "mapped"}

Next == ~Stopped /\ \E p \in Proc : Step(p)

Spec == Init /\ [][Next]_vars

-----------------------------------------------------------------------------
(* The page directories in use: of processes, and under construction.      *)
Roots  == ({pgdir[p] : p \in Proc} \cup {loc[p].pd : p \in Proc}) \ {0}
Trees  == UNION {Below(heap, d, k) : d \in Roots, k \in 0 .. 4}
Tables == UNION {Below(heap, d, k) : d \in Roots, k \in 0 .. 3}
Stacks == {kstack[p] : p \in Proc} \ {0}

(* A page is in one place: free, a kernel stack, or one entry of one table *)
(* of one address space, whatever processes take, copy, give back or fail  *)
(* to get at the same time.                                                *)
Entries == {e \in Tables \X Slot : heap.table[e[1]][e[2]] # 0}

OnePlace ==
    /\ heap.free \cap (Trees \cup Stacks) = {}
    /\ Trees \cap Stacks = {}
    /\ Cardinality(Trees) = Cardinality(Roots) + Cardinality(Entries)
    /\ Cardinality(Stacks) = Cardinality({p \in Proc : kstack[p] # 0})

(* The types and the allocator. *)
PagesApart == TypeOK /\ OnePlace

Mapped(h, d) == {v \in VPage : Pte(h, d, v) # 0}
Closed(h, d) == {v \in VPage : Pte(h, d, v) \in h.kernel}

(* The pages that a page directory maps are those below p->sz, which is    *)
(* all that argptr and fetchint check of an address and all that copyuvm   *)
(* copies.  When memory has run out while the image grew, or brk has       *)
(* shrunk it to nothing, pages may be missing below p->sz, but what is     *)
(* mapped above it is still only the first page of a table.                *)
ImageExact ==
    \A p \in Proc : pc[p] \in {"user", "zombie"} =>
       /\ ~mishap[p] => Mapped(heap, pgdir[p]) = Pages(sz[p])
       /\ \A v \in Mapped(heap, pgdir[p]) \ Pages(sz[p]) : v % ENTRIES = 0

(* The guard page of an image stays out of the user's reach in every copy  *)
(* of it, and no other page does.                                          *)
GuardKept ==
    \A p \in Proc : pc[p] \in {"user", "zombie"} => Closed(heap, pgdir[p]) = guard[p]

(* Nothing stays mapped above p->sz: "round it up to the next page         *)
(* directory".                                                             *)
ShrinkGivesBack ==
    \A p \in Proc : pc[p] \in {"user", "zombie"} => Mapped(heap, pgdir[p]) \subseteq Pages(sz[p])

(* Every page is free or in use: "You need to free all existing PTEs for   *)
(* this pgdir."                                                            *)
NothingLost == heap.free \cup Trees \cup Stacks = Page
=============================================================================
