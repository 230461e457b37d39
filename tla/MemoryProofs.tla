---------------------------- MODULE MemoryProofs ----------------------------
(***************************************************************************)
(* Memory, for any number of processes and pages, any size of the tables   *)
(* and any programs.  First the page tables as a forest, and what the      *)
(* functions of kalloc.c and vm.c do to it (Forest, Woods); then what each *)
(* of them does to the pages that an address space maps; then the          *)
(* inductive invariant IInv, the steps, and what follows from it.          *)
(***************************************************************************)
EXTENDS Memory, FiniteSetTheorems, TLAPS

-----------------------------------------------------------------------------
(* Indices.                                                                *)

(* The quotient and the rest of a division by the entries of a table give  *)
(* the number back.                                                        *)
LEMMA BlockParts ==
    ASSUME NEW v \in Nat
    PROVE  Block(v) \in Nat /\ v % ENTRIES \in Slot /\ v = ENTRIES * Block(v) + (v % ENTRIES)
<1>0. ENTRIES \in Nat /\ ENTRIES > 0
  BY MemoryAssumption DEF MemoryAssumption
<1> DEFINE q == v \div ENTRIES
           r == v % ENTRIES
<1>1. q \in Nat /\ r \in 0 .. ENTRIES - 1 /\ v = ENTRIES * q + r
  BY <1>0, SMT
<1> QED
  BY <1>1 DEF Block, Slot

(* Every index is an entry of a table.                                     *)
LEMMA PTXType ==
    ASSUME NEW level \in 0 .. 3, NEW v \in Nat
    PROVE  PTX(level, v) \in Slot
<1>1. Block(v) \in Nat /\ Block(Block(v)) \in Nat /\ Block(Block(Block(v))) \in Nat
  BY BlockParts
<1>2. level = 0 \/ level = 1 \/ level = 2 \/ level = 3
  OBVIOUS
<1> QED
  BY <1>1, <1>2, BlockParts DEF PTX

(* A block of n times as many pages holds blocks up to n.                  *)
LEMMA BlockBelow ==
    ASSUME NEW v \in Nat, NEW n \in Nat, v < ENTRIES * n
    PROVE  Block(v) < n
<1> DEFINE b == Block(v)
<1>1. b \in Nat /\ v >= ENTRIES * b /\ ENTRIES \in Nat
  <2>1. ENTRIES * Block(v) \in Int
    <3>1. Block(v) \in Nat
      BY BlockParts
    <3> QED
      BY <3>1, MemoryAssumption DEF MemoryAssumption
  <2> QED
    BY <2>1, BlockParts, MemoryAssumption DEF MemoryAssumption, Slot
<1> HIDE DEF b
<1>2. b >= n => ENTRIES * b >= ENTRIES * n
  BY <1>1, SMT
<1>3. ENTRIES * b \in Int /\ ENTRIES * n \in Int
  BY <1>1
<1>4. b < n
  BY <1>1, <1>2, <1>3
<1> QED
  BY <1>4 DEF b

(* PageUp is a division that rounds up.                                    *)
LEMMA PageUpIs ==
    ASSUME NEW n \in Nat
    PROVE  /\ PageUp(n) \in Nat
           /\ \A k \in Nat : PageUp(n) <= k <=> n <= k * PGSIZE
<1>0. PGSIZE \in Nat /\ PGSIZE > 0
  BY MemoryAssumption DEF MemoryAssumption
<1> DEFINE m == n + PGSIZE - 1
           q == PageUp(n)
           r == m % PGSIZE
<1>1. m \in Nat
  BY <1>0
<1>2. q \in Nat /\ r \in 0 .. PGSIZE - 1 /\ m = PGSIZE * q + r
  BY <1>0, <1>1, SMT DEF PageUp
<1>3. ASSUME NEW k \in Nat PROVE q <= k <=> n <= k * PGSIZE
  <2> HIDE DEF q, r
  <2>0. PGSIZE * q \in Nat /\ PGSIZE * k \in Nat /\ k * PGSIZE = PGSIZE * k
    BY <1>0, <1>2
  <2>1. ASSUME q <= k PROVE n <= k * PGSIZE
    <3>1. PGSIZE * q <= PGSIZE * k
      BY <1>0, <1>2, <2>1
    <3> QED
      BY <1>0, <1>2, <2>0, <3>1
  <2>2. ASSUME q > k PROVE n > k * PGSIZE
    <3>1. q >= k + 1
      BY <1>2, <2>2
    <3>2. PGSIZE * q >= PGSIZE * (k + 1)
      BY <1>0, <1>2, <3>1
    <3>3. PGSIZE * (k + 1) = PGSIZE * k + PGSIZE
      BY <1>0
    <3> QED
      BY <1>0, <1>2, <2>0, <3>2, <3>3
  <2> QED
    BY <2>0, <2>1, <2>2, <1>2
<1> QED
  BY <1>2, <1>3

(* The pages of an address space are those that the limit allows.          *)
LEMMA VPageBelow ==
    ASSUME NEW v \in VPage
    PROVE  v \in Nat /\ v < ENTRIES * (ENTRIES * (ENTRIES * ENTRIES))
<1> DEFINE e == ENTRIES * (ENTRIES * (ENTRIES * ENTRIES))
<1>1. e \in Nat
  BY MemoryAssumption, SMT DEF MemoryAssumption
<1>2. UADDR_SZ <= e * PGSIZE /\ UADDR_SZ \in Nat
  BY MemoryAssumption DEF MemoryAssumption
<1> HIDE DEF e
<1>3. PageUp(UADDR_SZ) <= e /\ PageUp(UADDR_SZ) \in Nat
  BY <1>1, <1>2, PageUpIs
<1>4. v \in Nat /\ v < e
  BY <1>1, <1>3 DEF VPage, Pages
<1> QED
  BY <1>4 DEF e

(* The four indices of a page tell it from every other page.               *)
LEMMA Digits ==
    ASSUME NEW v \in VPage, NEW w \in VPage, \A level \in 0 .. 3 : PTX(level, v) = PTX(level, w)
    PROVE  v = w
<1>0. ENTRIES \in Nat
  BY MemoryAssumption DEF MemoryAssumption
<1>1. ASSUME NEW x \in Nat, NEW y \in Nat, x % ENTRIES = y % ENTRIES, Block(x) = Block(y)
      PROVE  x = y
  BY BlockParts, <1>1
<1>2. ASSUME NEW x \in VPage
      PROVE  /\ x \in Nat /\ Block(x) \in Nat /\ Block(Block(x)) \in Nat
             /\ Block(Block(Block(x))) \in Nat
             /\ Block(Block(Block(x))) % ENTRIES = Block(Block(Block(x)))
  <2>1. x \in Nat /\ x < ENTRIES * (ENTRIES * (ENTRIES * ENTRIES))
    BY VPageBelow
  <2>2. ENTRIES * ENTRIES \in Nat /\ ENTRIES * (ENTRIES * ENTRIES) \in Nat
    BY <1>0
  <2>3. Block(x) \in Nat /\ Block(x) < ENTRIES * (ENTRIES * ENTRIES)
    BY <2>1, <2>2, BlockParts, BlockBelow
  <2>4. Block(Block(x)) \in Nat /\ Block(Block(x)) < ENTRIES * ENTRIES
    BY <2>2, <2>3, BlockParts, BlockBelow
  <2>5. Block(Block(Block(x))) \in Nat /\ Block(Block(Block(x))) < ENTRIES
    BY <1>0, <2>4, BlockParts, BlockBelow
  <2>6. Block(Block(Block(x))) % ENTRIES = Block(Block(Block(x)))
    BY <2>5, <1>0, SMT
  <2> QED
    BY <2>1, <2>3, <2>4, <2>5, <2>6
<1>3. /\ Block(Block(Block(v))) % ENTRIES = Block(Block(Block(w))) % ENTRIES
      /\ Block(Block(v)) % ENTRIES = Block(Block(w)) % ENTRIES
      /\ Block(v) % ENTRIES = Block(w) % ENTRIES
      /\ v % ENTRIES = w % ENTRIES
  BY DEF PTX
<1>4. Block(Block(Block(v))) = Block(Block(Block(w)))
  BY <1>2, <1>3
<1>5. Block(Block(v)) = Block(Block(w))
  BY <1>1, <1>2, <1>3, <1>4
<1>6. Block(v) = Block(w)
  BY <1>1, <1>2, <1>3, <1>5
<1> QED
  BY <1>1, <1>2, <1>3, <1>6

-----------------------------------------------------------------------------
(* Trees of tables.  L holds the pages in use: the page directories R and  *)
(* all that is listed in a page of L.  K holds pages in use for other      *)
(* things.  No page of L is listed twice, and none of R is listed.         *)

Heap == [free : SUBSET Page, kernel : SUBSET Page, ok : {TRUE},
         table : [0 .. NPAGE -> [Slot -> 0 .. NPAGE]]]

Forest(h, R, K, L) ==
    /\ h \in Heap /\ h.table[0] = NoEntries
    /\ L \subseteq Page /\ R \subseteq L /\ K \subseteq Page
    /\ L \cap h.free = {} /\ K \cap h.free = {} /\ K \cap L = {}
    /\ h.kernel \cap (h.free \cup K) = {}
    /\ \A t \in h.free \cup K : h.table[t] = NoEntries
    /\ \A t \in L, i \in Slot : h.table[t][i] \in (L \ R) \cup {0}
    /\ \A t, u \in L, i, j \in Slot :
          h.table[t][i] = h.table[u][j] /\ h.table[t][i] # 0 => t = u /\ i = j

Woods(h, R, K) == \E L \in SUBSET Page : Forest(h, R, K, L)

(* The walk of pgdir_walk: where it is after some levels.                  *)
Node(h, d, depth, v) ==
    CASE depth = 0 -> d
      [] depth = 1 -> Down(h, d, 0, v)
      [] depth = 2 -> Down(h, Down(h, d, 0, v), 1, v)
      [] depth = 3 -> Pgdir_walk(h, d, v)
      [] depth = 4 -> Pte(h, d, v)

(* The walk enters a table at its index.                                   *)
LEMMA NodeStep ==
    ASSUME NEW h, NEW d, NEW v
    PROVE  /\ Node(h, d, 0, v) = d
           /\ Node(h, d, 4, v) = Pte(h, d, v)
           /\ Node(h, d, 3, v) = Pgdir_walk(h, d, v)
           /\ \A k \in 0 .. 3 : Node(h, d, k + 1, v) = h.table[Node(h, d, k, v)][PTX(k, v)]
<1>1. Node(h, d, 1, v) = h.table[Node(h, d, 0, v)][PTX(0, v)]
  BY DEF Node, Down
<1>2. Node(h, d, 2, v) = h.table[Node(h, d, 1, v)][PTX(1, v)]
  BY DEF Node, Down
<1>3. Node(h, d, 3, v) = h.table[Node(h, d, 2, v)][PTX(2, v)]
  BY DEF Node, Down, Pgdir_walk
<1>4. Node(h, d, 4, v) = h.table[Node(h, d, 3, v)][PTX(3, v)]
  BY DEF Node, Down, Pte
<1>5. Node(h, d, 0, v) = d /\ Node(h, d, 4, v) = Pte(h, d, v) /\ Node(h, d, 3, v) = Pgdir_walk(h, d, v)
  BY DEF Node
<1>6. ASSUME NEW k \in 0 .. 3
      PROVE  Node(h, d, k + 1, v) = h.table[Node(h, d, k, v)][PTX(k, v)]
  <2>1. (k = 0 /\ k + 1 = 1) \/ (k = 1 /\ k + 1 = 2) \/ (k = 2 /\ k + 1 = 3) \/ (k = 3 /\ k + 1 = 4)
    OBVIOUS
  <2> QED
    BY <2>1, <1>1, <1>2, <1>3, <1>4
<1> QED
  BY <1>5, <1>6

(* A walk stays among the pages in use, or ends at the null pointer.       *)
LEMMA NodeIn ==
    ASSUME NEW h, NEW R, NEW K, NEW L, Forest(h, R, K, L), NEW d \in R, NEW v \in Nat,
           NEW k \in 0 .. 4
    PROVE  /\ Node(h, d, k, v) \in L \cup {0}
           /\ k # 0 => Node(h, d, k, v) \in (L \ R) \cup {0}
<1>1. ASSUME NEW j \in 0 .. 3, Node(h, d, j, v) \in L \cup {0}
      PROVE  Node(h, d, j + 1, v) \in (L \ R) \cup {0}
  <2>1. Node(h, d, j + 1, v) = h.table[Node(h, d, j, v)][PTX(j, v)] /\ PTX(j, v) \in Slot
    BY NodeStep, PTXType
  <2>2. CASE Node(h, d, j, v) = 0
    BY <2>1, <2>2 DEF Forest, NoEntries
  <2>3. CASE Node(h, d, j, v) \in L
    BY <2>1, <2>3 DEF Forest
  <2> QED
    BY <1>1, <2>2, <2>3
<1>2. Node(h, d, 0, v) \in L
  BY NodeStep DEF Forest
<1>3. Node(h, d, 1, v) \in (L \ R) \cup {0}
  BY <1>1, <1>2
<1>4. Node(h, d, 2, v) \in (L \ R) \cup {0}
  BY <1>1, <1>3
<1>5. Node(h, d, 3, v) \in (L \ R) \cup {0}
  BY <1>1, <1>4
<1>6. Node(h, d, 4, v) \in (L \ R) \cup {0}
  BY <1>1, <1>5
<1>7. k = 0 \/ k = 1 \/ k = 2 \/ k = 3 \/ k = 4
  OBVIOUS
<1> QED
  BY <1>2, <1>3, <1>4, <1>5, <1>6, <1>7

(* Once at the null pointer, a walk stays there.                           *)
LEMMA NodeNull ==
    ASSUME NEW h, h.table[0] = NoEntries, NEW d, NEW v \in Nat, NEW k \in 0 .. 3,
           Node(h, d, k, v) = 0
    PROVE  Node(h, d, k + 1, v) = 0
BY NodeStep, PTXType DEF NoEntries

(* Walks that are at one page k levels down began at one page directory,   *)
(* are as deep and took the same indices.                                  *)
Alike(h, R, k) ==
    \A j \in 0 .. 4, d \in R, e \in R, v \in Nat, w \in Nat :
       Node(h, d, k, v) = Node(h, e, j, w) /\ Node(h, d, k, v) # 0 =>
          j = k /\ d = e /\ \A m \in 0 .. k - 1 : PTX(m, v) = PTX(m, w)

(* ... as every page is listed once and no page directory is.              *)
LEMMA WalksAlike ==
    ASSUME NEW h, NEW R, NEW K, NEW L, Forest(h, R, K, L), NEW k \in 0 .. 4
    PROVE  Alike(h, R, k)
<1>0. Alike(h, R, 0)
  <2> SUFFICES ASSUME NEW j \in 0 .. 4, NEW d \in R, NEW e \in R, NEW v \in Nat, NEW w \in Nat,
                      Node(h, d, 0, v) = Node(h, e, j, w), Node(h, d, 0, v) # 0
               PROVE  j = 0 /\ d = e
    BY DEF Alike
  <2>1. Node(h, d, 0, v) \in R
    BY NodeStep
  <2>2. j = 0
    BY <2>1, NodeIn
  <2> QED
    BY <2>2, NodeStep
<1>1. ASSUME NEW i \in 0 .. 3, Alike(h, R, i) PROVE Alike(h, R, i + 1)
  <2> SUFFICES ASSUME NEW j \in 0 .. 4, NEW d \in R, NEW e \in R, NEW v \in Nat, NEW w \in Nat,
                      Node(h, d, i + 1, v) = Node(h, e, j, w), Node(h, d, i + 1, v) # 0
               PROVE  j = i + 1 /\ d = e /\ \A m \in 0 .. i : PTX(m, v) = PTX(m, w)
    <3>1. (i + 1) - 1 = i
      OBVIOUS
    <3> QED
      BY <3>1 DEF Alike
  <2>1. j # 0
    <3>1. i + 1 \in 0 .. 4 /\ i + 1 # 0
      OBVIOUS
    <3>2. Node(h, d, i + 1, v) \notin R
      BY <3>1, NodeIn
    <3> QED
      BY <3>2, NodeStep
  <2>2. PICK b \in 0 .. 3 : j = b + 1
    <3>1. j - 1 \in 0 .. 3 /\ j = (j - 1) + 1
      BY <2>1
    <3> QED
      BY <3>1
  <2>3. /\ Node(h, d, i + 1, v) = h.table[Node(h, d, i, v)][PTX(i, v)] /\ PTX(i, v) \in Slot
        /\ Node(h, e, b + 1, w) = h.table[Node(h, e, b, w)][PTX(b, w)] /\ PTX(b, w) \in Slot
    BY NodeStep, PTXType
  <2>4. Node(h, d, i, v) \in L /\ Node(h, e, b, w) \in L
    <3>1. i \in 0 .. 4 /\ b \in 0 .. 4
      OBVIOUS
    <3>2. Node(h, d, i, v) # 0 /\ Node(h, e, b, w) # 0
      BY <2>2, <2>3 DEF Forest, NoEntries
    <3> QED
      BY <3>1, <3>2, NodeIn
  <2>5. Node(h, d, i, v) = Node(h, e, b, w) /\ PTX(i, v) = PTX(b, w)
    BY <2>2, <2>3, <2>4 DEF Forest
  <2>6. Node(h, d, i, v) # 0
    BY <2>4 DEF Forest, Page
  <2>7. b = i /\ d = e /\ \A m \in 0 .. i - 1 : PTX(m, v) = PTX(m, w)
    BY <1>1, <2>5, <2>6 DEF Alike
  <2>8. \A m \in 0 .. i : m = i \/ m \in 0 .. i - 1
    OBVIOUS
  <2> QED
    BY <2>2, <2>5, <2>7, <2>8
<1>2. Alike(h, R, 1)
  BY <1>0, <1>1
<1>3. Alike(h, R, 2)
  BY <1>1, <1>2
<1>4. Alike(h, R, 3)
  BY <1>1, <1>3
<1>5. Alike(h, R, 4)
  BY <1>1, <1>4
<1>6. k = 0 \/ k = 1 \/ k = 2 \/ k = 3 \/ k = 4
  OBVIOUS
<1> QED
  BY <1>0, <1>2, <1>3, <1>4, <1>5, <1>6

(* A page is mapped at one place of one address space.                     *)
LEMMA PteApart ==
    ASSUME NEW h, NEW R, NEW K, NEW L, Forest(h, R, K, L), NEW d \in R, NEW e \in R,
           NEW v \in VPage, NEW w \in VPage, Pte(h, d, v) = Pte(h, e, w), Pte(h, d, v) # 0
    PROVE  d = e /\ v = w
<1>1. v \in Nat /\ w \in Nat
  BY VPageBelow
<1>2. Alike(h, R, 4)
  BY WalksAlike
<1>3. d = e /\ \A m \in 0 .. 3 : PTX(m, v) = PTX(m, w)
  BY <1>1, <1>2, NodeStep DEF Alike
<1> QED
  BY <1>3, Digits

(* Walks with the same indices are at the same page.                       *)
LEMMA SameWalk ==
    ASSUME NEW h, NEW d, NEW k \in 0 .. 4, NEW v, NEW w, \A m \in 0 .. k - 1 : PTX(m, v) = PTX(m, w)
    PROVE  Node(h, d, k, v) = Node(h, d, k, w)
<1>1. k = 0 \/ k = 1 \/ k = 2 \/ k = 3 \/ k = 4
  OBVIOUS
<1>2. Node(h, d, 0, v) = Node(h, d, 0, w)
  BY NodeStep
<1>3. ASSUME NEW i \in 0 .. 3, i < k, Node(h, d, i, v) = Node(h, d, i, w)
      PROVE  Node(h, d, i + 1, v) = Node(h, d, i + 1, w)
  BY <1>3, NodeStep
<1>4. k > 0 => Node(h, d, 1, v) = Node(h, d, 1, w)
  BY <1>2, <1>3
<1>5. k > 1 => Node(h, d, 2, v) = Node(h, d, 2, w)
  BY <1>3, <1>4
<1>6. k > 2 => Node(h, d, 3, v) = Node(h, d, 3, w)
  BY <1>3, <1>5
<1>7. k > 3 => Node(h, d, 4, v) = Node(h, d, 4, w)
  BY <1>3, <1>6
<1> QED
  BY <1>1, <1>2, <1>4, <1>5, <1>6, <1>7

-----------------------------------------------------------------------------
(* What kalloc and a new entry do to the trees.                            *)

(* A heap is its parts.                                                    *)
LEMMA HeapIs ==
    ASSUME NEW g, g = [free |-> g.free, kernel |-> g.kernel, ok |-> g.ok, table |-> g.table],
           g.free \subseteq Page, g.kernel \subseteq Page, g.ok \in {TRUE},
           g.table \in [0 .. NPAGE -> [Slot -> 0 .. NPAGE]]
    PROVE  g \in Heap
BY DEF Heap

(* What Link changes of a heap.                                            *)
LEMMA LinkIs ==
    ASSUME NEW h \in Heap, NEW t \in Page, NEW i \in Slot, NEW n \in Page,
           NEW g, g = Link(h, t, i, n)
    PROVE  /\ g \in Heap /\ g.free = h.free /\ g.kernel = h.kernel
           /\ \A u \in 0 .. NPAGE : u # t => g.table[u] = h.table[u]
           /\ \A j \in Slot : g.table[t][j] = IF j = i THEN n ELSE h.table[t][j]
<1>a. NPAGE \in Nat
  BY MemoryAssumption DEF MemoryAssumption
<1>b. t \in 0 .. NPAGE /\ n \in 0 .. NPAGE
  BY <1>a DEF Page
<1>0. t \in 0 .. NPAGE /\ n \in 0 .. NPAGE /\ h.table \in [0 .. NPAGE -> [Slot -> 0 .. NPAGE]]
  BY <1>b DEF Heap
<1>1. /\ g.free = h.free /\ g.kernel = h.kernel /\ g.ok = h.ok
      /\ g.table = [h.table EXCEPT ![t] = [h.table[t] EXCEPT ![i] = n]]
      /\ g = [free |-> h.free, kernel |-> h.kernel, ok |-> h.ok, table |-> g.table]
  BY DEF Link, Heap
<1> DEFINE row == [h.table[t] EXCEPT ![i] = n]
<1>c. row \in [Slot -> 0 .. NPAGE] /\ \A j \in Slot : row[j] = IF j = i THEN n ELSE h.table[t][j]
  <2>1. h.table[t] \in [Slot -> 0 .. NPAGE]
    BY <1>0
  <2> QED
    BY <1>b, <2>1
<1>d. g.table = [h.table EXCEPT ![t] = row]
  BY <1>1
<1> HIDE DEF row
<1>2. g.table \in [0 .. NPAGE -> [Slot -> 0 .. NPAGE]] /\ g.table[t] = row
  BY <1>0, <1>c, <1>d
<1>3. g \in Heap
  BY <1>1, <1>2 DEF Heap
<1>4. \A u \in 0 .. NPAGE : u # t => g.table[u] = h.table[u]
  BY <1>0, <1>d
<1>5. \A j \in Slot : g.table[t][j] = IF j = i THEN n ELSE h.table[t][j]
  BY <1>2, <1>c
<1> QED
  BY <1>1, <1>3, <1>4, <1>5

(* A page that kalloc returns was free, and is in use for something else   *)
(* than the trees until it is entered in one.                              *)
LEMMA KallocTakes ==
    ASSUME NEW h, NEW R, NEW K, NEW L, Forest(h, R, K, L), NextPage(h) # 0,
           NEW g, g = Kalloc(h), NEW n, n = NextPage(h)
    PROVE  /\ n \in Page /\ n \notin K /\ n \notin L /\ n \notin h.kernel
           /\ g.table = h.table /\ g.kernel = h.kernel
           /\ Forest(g, R, K \cup {n}, L)
<1>1. n \in h.free
  BY DEF NextPage
<1>2. n \in Page /\ n \notin K /\ n \notin L /\ n \notin h.kernel
  BY <1>1 DEF Forest, Heap
<1>3. g = [free |-> h.free \ {n}, kernel |-> h.kernel, ok |-> h.ok, table |-> h.table]
  BY DEF Kalloc, Forest, Heap
<1>4. g.free = h.free \ {n} /\ g.kernel = h.kernel /\ g.ok = h.ok /\ g.table = h.table
  BY <1>3
<1>5. g \in Heap
  <2>1. /\ h.free \subseteq Page /\ h.kernel \subseteq Page /\ h.ok \in {TRUE}
        /\ h.table \in [0 .. NPAGE -> [Slot -> 0 .. NPAGE]]
    BY DEF Forest, Heap
  <2>2. h.free \ {n} \subseteq Page
    BY <2>1
  <2> QED
    BY <1>3, <1>4, <2>1, <2>2, HeapIs
<1>6. \A x \in g.free \cup (K \cup {n}) : g.table[x] = NoEntries
  BY <1>1, <1>4 DEF Forest
<1> QED
  BY <1>1, <1>2, <1>4, <1>5, <1>6 DEF Forest

(* Without a page, kalloc changes nothing.                                 *)
LEMMA KallocFails ==
    ASSUME NEW h \in Heap, NextPage(h) = 0
    PROVE  Kalloc(h) = h
<1>1. h.free \ {0} = h.free
  BY DEF Heap, Page
<1>2. Kalloc(h) = [h EXCEPT !.free = h.free]
  BY <1>1 DEF Kalloc
<1> QED
  BY <1>2 DEF Heap

(* A page that is in use for nothing else can be entered in a tree.        *)
LEMMA LinkGrows ==
    ASSUME NEW h, NEW R, NEW K, NEW L, NEW n, n \notin K, Forest(h, R, K \cup {n}, L),
           NEW t \in L, NEW i \in Slot, h.table[t][i] = 0, NEW g, g = Link(h, t, i, n)
    PROVE  Forest(g, R, K, L \cup {n})
<1>0. h \in Heap /\ n \in Page /\ t \in Page /\ n \notin L /\ t # n /\ t # 0
  <2>1. /\ h \in Heap
        /\ L \subseteq Page /\ K \cup {n} \subseteq Page
        /\ (K \cup {n}) \cap L = {}
    BY DEF Forest
  <2>2. 0 \notin Page
    BY DEF Page
  <2> QED
    BY <2>1, <2>2
<1>1. /\ g \in Heap /\ g.free = h.free /\ g.kernel = h.kernel
      /\ \A u \in 0 .. NPAGE : u # t => g.table[u] = h.table[u]
      /\ \A j \in Slot : g.table[t][j] = IF j = i THEN n ELSE h.table[t][j]
  BY <1>0, LinkIs
<1>2. Page \subseteq 0 .. NPAGE /\ 0 \in 0 .. NPAGE
  BY MemoryAssumption DEF MemoryAssumption, Page
<1>3. g.table[0] = NoEntries
  BY <1>0, <1>1, <1>2 DEF Forest
<1>4. \A x \in g.free \cup K : g.table[x] = NoEntries
  <2>1. \A x \in h.free \cup K : x \in Page /\ x # t
    <3>1. /\ L \subseteq Page /\ K \cup {n} \subseteq Page
          /\ L \cap h.free = {} /\ (K \cup {n}) \cap L = {}
      BY DEF Forest
    <3>2. h.free \subseteq Page
      BY <1>0 DEF Heap
    <3> QED
      BY <3>1, <3>2
  <2>2. \A x \in h.free \cup K : h.table[x] = NoEntries
    BY DEF Forest
  <2>3. \A x \in g.free \cup K : x \in h.free \cup K
    BY <1>1
  <2> QED
    BY <1>1, <1>2, <2>1, <2>2, <2>3
<1>5. ASSUME NEW u \in L \cup {n}, NEW j \in Slot
      PROVE  g.table[u][j] = IF u = t /\ j = i THEN n ELSE IF u = n THEN 0 ELSE h.table[u][j]
  <2>1. u \in Page
    BY <1>0 DEF Forest
  <2>2. CASE u = t
    BY <1>0, <1>1, <2>2
  <2>3. CASE u # t
    <3>1. g.table[u] = h.table[u]
      BY <1>1, <1>2, <2>1, <2>3
    <3>2. u = n => h.table[u] = NoEntries
      BY DEF Forest
    <3> QED
      BY <2>3, <3>1, <3>2 DEF NoEntries
  <2> QED
    BY <2>2, <2>3
<1>6. \A u \in L, j \in Slot : h.table[u][j] \in (L \ R) \cup {0}
  BY DEF Forest
<1>7. n \notin R
  BY <1>0 DEF Forest
<1>8. \A u \in L \cup {n}, j \in Slot : g.table[u][j] \in ((L \cup {n}) \ R) \cup {0}
  BY <1>5, <1>6, <1>7
<1>9. ASSUME NEW x \in L \cup {n}, NEW y \in L \cup {n}, NEW j \in Slot, NEW k \in Slot,
             g.table[x][j] = g.table[y][k], g.table[x][j] # 0
      PROVE  x = y /\ j = k
  <2>0. n # 0
    BY <1>0 DEF Page
  <2>1. CASE x = t /\ j = i
    <3>1. g.table[y][k] = n
      BY <1>5, <1>9, <2>1
    <3>2. ~(y = t /\ k = i) => g.table[y][k] # n
      <4>1. CASE y = n
        BY <1>5, <1>0, <2>0, <4>1
      <4>2. CASE y \in L
        BY <1>5, <1>6, <1>0, <2>0, <4>2
      <4> QED
        BY <4>1, <4>2
    <3> QED
      BY <2>1, <3>1, <3>2
  <2>2. CASE ~(x = t /\ j = i)
    <3>1. x \in L /\ g.table[x][j] = h.table[x][j]
      BY <1>5, <1>9, <2>2
    <3>2. g.table[x][j] # n
      BY <1>6, <1>0, <2>0, <3>1
    <3>3. ~(y = t /\ k = i)
      BY <1>5, <1>9, <3>2
    <3>4. y \in L /\ g.table[y][k] = h.table[y][k]
      BY <1>5, <1>9, <3>3
    <3>5. h.table[x][j] = h.table[y][k] /\ h.table[x][j] # 0
      BY <1>9, <3>1, <3>4
    <3> QED
      BY <3>1, <3>4, <3>5 DEF Forest
  <2> QED
    BY <2>1, <2>2
<1>10. /\ L \cup {n} \subseteq Page /\ R \subseteq L \cup {n} /\ K \subseteq Page
       /\ (L \cup {n}) \cap g.free = {} /\ K \cap g.free = {} /\ K \cap (L \cup {n}) = {}
       /\ g.kernel \cap (g.free \cup K) = {}
  BY <1>0, <1>1 DEF Forest
<1> QED
  BY <1>1, <1>3, <1>4, <1>8, <1>9, <1>10 DEF Forest

(* A new entry at the end of a walk: the walks that come to it go on to    *)
(* the page, which holds no entries, and all others are as they were.      *)
LEMMA LinkWalks ==
    ASSUME NEW h, NEW R, NEW K, NEW L, NEW n, n \notin K, Forest(h, R, K \cup {n}, L),
           NEW d \in R, NEW v \in Nat, NEW k \in 0 .. 3,
           Node(h, d, k, v) # 0, Node(h, d, k + 1, v) = 0,
           NEW g, g = Link(h, Node(h, d, k, v), PTX(k, v), n),
           NEW e \in R, NEW w \in Nat
    PROVE  LET hit == e = d /\ \A m \in 0 .. k : PTX(m, w) = PTX(m, v)
           IN  \A m \in 0 .. 4 :
                  Node(g, e, m, w) = IF hit /\ m = k + 1 THEN n ELSE Node(h, e, m, w)
<1> DEFINE t == Node(h, d, k, v)
           i == PTX(k, v)
           hit == e = d /\ \A m \in 0 .. k : PTX(m, w) = PTX(m, v)
<1>0. i \in Slot /\ t \in L /\ h \in Heap /\ n \in Page /\ t \in Page /\ n \notin L /\ t # n
  <2>1. k \in 0 .. 4
    OBVIOUS
  <2>2. t \in L \cup {0}
    BY <2>1, NodeIn
  <2>3. t \in L
    BY <2>2
  <2>4. h \in Heap /\ n \in Page /\ L \subseteq Page /\ n \notin L
    BY DEF Forest
  <2> QED
    BY <2>3, <2>4, PTXType
<1>1. /\ g \in Heap
      /\ \A u \in 0 .. NPAGE : u # t => g.table[u] = h.table[u]
      /\ \A j \in Slot : g.table[t][j] = IF j = i THEN n ELSE h.table[t][j]
  BY <1>0, LinkIs
<1>2. Page \subseteq 0 .. NPAGE /\ 0 \in 0 .. NPAGE /\ n \in 0 .. NPAGE /\ t # 0 /\ n # 0
  BY <1>0, MemoryAssumption DEF MemoryAssumption, Page
<1>3. g.table[0] = NoEntries /\ g.table[n] = NoEntries
  BY <1>0, <1>1, <1>2 DEF Forest
<1>4. ASSUME NEW m \in 0 .. 3, Node(h, e, m, w) = t, PTX(m, w) = i PROVE hit /\ m = k
  <2>0. k \in 0 .. 4 /\ m \in 0 .. 4
    OBVIOUS
  <2>1. Alike(h, R, k)
    BY <2>0, WalksAlike
  <2>2. m = k /\ d = e /\ \A b \in 0 .. k - 1 : PTX(b, v) = PTX(b, w)
    BY <2>0, <2>1, <1>4 DEF Alike
  <2>3. \A b \in 0 .. k : b = k \/ b \in 0 .. k - 1
    OBVIOUS
  <2> QED
    BY <1>4, <2>2, <2>3
<1>5. ASSUME hit PROVE \A m \in 0 .. k + 1 : Node(h, e, m, w) = Node(h, d, m, v)
  <2> SUFFICES ASSUME NEW m \in 0 .. k + 1 PROVE Node(h, d, m, w) = Node(h, d, m, v)
    BY <1>5
  <2>1. m \in 0 .. 4 /\ \A b \in 0 .. m - 1 : PTX(b, w) = PTX(b, v)
    BY <1>5
  <2> QED
    BY <2>1, SameWalk
<1>6. hit => Node(h, e, k, w) = t /\ PTX(k, w) = i /\ Node(h, e, k + 1, w) = 0
  BY <1>5
<1> DEFINE P(m) == Node(g, e, m, w) = IF hit /\ m = k + 1 THEN n ELSE Node(h, e, m, w)
<1>7. P(0)
  BY NodeStep
<1>8. ASSUME NEW m \in 0 .. 3, P(m) PROVE P(m + 1)
  <2>1. /\ Node(g, e, m + 1, w) = g.table[Node(g, e, m, w)][PTX(m, w)]
        /\ Node(h, e, m + 1, w) = h.table[Node(h, e, m, w)][PTX(m, w)]
        /\ PTX(m, w) \in Slot
    BY NodeStep, PTXType
  <2>2. CASE hit /\ m = k
    <3>1. Node(g, e, m, w) = t /\ PTX(m, w) = i
      BY <1>6, <1>8, <2>2
    <3> QED
      BY <1>1, <2>1, <2>2, <3>1
  <2>3. CASE hit /\ m = k + 1
    <3>1. Node(g, e, m, w) = n
      BY <1>8, <2>3
    <3>2. Node(g, e, m + 1, w) = 0
      BY <1>3, <2>1, <3>1 DEF NoEntries
    <3>3. Node(h, e, m + 1, w) = 0
      BY <1>6, <2>3, NodeNull DEF Forest
    <3> QED
      BY <2>3, <3>2, <3>3
  <2>4. CASE ~(hit /\ m = k) /\ ~(hit /\ m = k + 1)
    <3>1. Node(g, e, m, w) = Node(h, e, m, w)
      BY <1>8, <2>4
    <3>2. ~(Node(h, e, m, w) = t /\ PTX(m, w) = i)
      BY <1>4, <2>4
    <3>3. Node(h, e, m, w) \in L \cup {0}
      <4>1. m \in 0 .. 4
        OBVIOUS
      <4> QED
        BY <4>1, NodeIn
    <3>4. Node(h, e, m, w) \in 0 .. NPAGE
      BY <3>3, <1>2 DEF Forest
    <3>5. g.table[Node(h, e, m, w)][PTX(m, w)] = h.table[Node(h, e, m, w)][PTX(m, w)]
      <4> HIDE DEF t, i
      <4>1. CASE Node(h, e, m, w) = t
        BY <1>1, <2>1, <3>2, <4>1
      <4>2. CASE Node(h, e, m, w) # t
        BY <1>1, <3>4, <4>2
      <4> QED
        BY <4>1, <4>2
    <3>6. Node(g, e, m + 1, w) = Node(h, e, m + 1, w)
      BY <2>1, <3>1, <3>5
    <3>7. ~(hit /\ m + 1 = k + 1)
      BY <2>4
    <3> QED
      BY <3>6, <3>7
  <2> QED
    BY <2>2, <2>3, <2>4
<1> HIDE DEF P
<1>9. P(1) /\ P(2) /\ P(3) /\ P(4)
  <2>1. P(1)
    BY <1>7, <1>8
  <2>2. P(2)
    BY <1>8, <2>1
  <2>3. P(3)
    BY <1>8, <2>2
  <2>4. P(4)
    BY <1>8, <2>3
  <2> QED
    BY <2>1, <2>2, <2>3, <2>4
<1>10. \A m \in 0 .. 4 : m = 0 \/ m = 1 \/ m = 2 \/ m = 3 \/ m = 4
  OBVIOUS
<1>11. \A m \in 0 .. 4 : P(m)
  BY <1>7, <1>9, <1>10
<1> QED
  BY <1>11 DEF P

(* A page directory of its own is an address space with nothing in it.     *)
LEMMA NewRoot ==
    ASSUME NEW h, NEW R, NEW K, NEW L, NEW n, n \notin K, Forest(h, R, K \cup {n}, L)
    PROVE  /\ Forest(h, R \cup {n}, K, L \cup {n})
           /\ Mapped(h, n) = {} /\ Closed(h, n) = {}
<1>0. n \in Page /\ n \notin L /\ h.table[n] = NoEntries /\ h.table[0] = NoEntries
  BY DEF Forest
<1>1. \A t \in L \cup {n}, i \in Slot : h.table[t][i] \in ((L \cup {n}) \ (R \cup {n})) \cup {0}
  BY <1>0 DEF Forest, NoEntries
<1>2. \A t \in L \cup {n}, i \in Slot : h.table[t][i] # 0 => t \in L
  BY <1>0 DEF NoEntries
<1>3. \A t, u \in L \cup {n}, i, j \in Slot :
         h.table[t][i] = h.table[u][j] /\ h.table[t][i] # 0 => t = u /\ i = j
  <2> SUFFICES ASSUME NEW t \in L \cup {n}, NEW u \in L \cup {n}, NEW i \in Slot, NEW j \in Slot,
                      h.table[t][i] = h.table[u][j], h.table[t][i] # 0
               PROVE  t = u /\ i = j
    OBVIOUS
  <2>1. t \in L /\ u \in L
    BY <1>2
  <2> QED
    BY <2>1 DEF Forest
<1>4. Forest(h, R \cup {n}, K, L \cup {n})
  <2>1. /\ L \cup {n} \subseteq Page /\ R \cup {n} \subseteq L \cup {n} /\ K \subseteq Page
        /\ (L \cup {n}) \cap h.free = {} /\ K \cap h.free = {} /\ K \cap (L \cup {n}) = {}
        /\ h.kernel \cap (h.free \cup K) = {}
        /\ h \in Heap /\ \A t \in h.free \cup K : h.table[t] = NoEntries
    BY <1>0 DEF Forest
  <2> QED
    BY <1>0, <1>1, <1>3, <2>1 DEF Forest
<1>5. ASSUME NEW v \in VPage PROVE Pte(h, n, v) = 0
  <2>0. v \in Nat
    BY VPageBelow
  <2>1. Node(h, n, 0, v) = n
    BY NodeStep
  <2>2. Node(h, n, 0 + 1, v) = h.table[n][PTX(0, v)] /\ PTX(0, v) \in Slot
    BY <2>0, <2>1, NodeStep, PTXType
  <2>3. Node(h, n, 1, v) = 0
    BY <1>0, <2>2 DEF NoEntries
  <2>4. Node(h, n, 1 + 1, v) = 0
    BY <1>0, <2>0, <2>3, NodeNull
  <2>5. Node(h, n, 2 + 1, v) = 0
    BY <1>0, <2>0, <2>4, NodeNull
  <2>6. Node(h, n, 3 + 1, v) = 0
    BY <1>0, <2>0, <2>5, NodeNull
  <2> QED
    BY <2>6, NodeStep
<1>6. 0 \notin h.kernel
  BY DEF Forest, Heap, Page
<1> QED
  BY <1>4, <1>5, <1>6 DEF Mapped, Closed

-----------------------------------------------------------------------------
(* map_region.                                                             *)

SameView(h, g, e) == Mapped(g, e) = Mapped(h, e) /\ Closed(g, e) = Closed(h, e)

SamePtes(h, g, R) ==
    /\ g.kernel = h.kernel
    /\ \A e \in R, v \in VPage : Pte(g, e, v) = Pte(h, e, v)

(* After some levels of a walk that makes missing tables.                  *)
Walked(h, w, R, K, d, v, k) ==
    /\ w = [h |-> w.h, at |-> w.at]
    /\ Woods(w.h, R, K)
    /\ w.at = Node(w.h, d, k, v)
    /\ SamePtes(h, w.h, R)

(* A new table holds no entries: it changes no address space.              *)
LEMMA EnterWalks ==
    ASSUME NEW h, NEW R, NEW K, NEW d \in R, NEW v \in VPage, NEW k \in 0 .. 2,
           NEW w, Walked(h, w, R, K, d, v, k), NEW x, x = Enter(w, k, v)
    PROVE  Walked(h, x, R, K, d, v, k + 1)
<1> DEFINE g == w.h
           t == w.at
           i == PTX(k, v)
           n == NextPage(g)
           f == Kalloc(g)
<1>0. v \in Nat /\ k \in 0 .. 3 /\ k \in 0 .. 4 /\ i \in Slot
  BY VPageBelow, PTXType
<1>1. PICK L \in SUBSET Page : Forest(g, R, K, L)
  BY DEF Walked, Woods
<1>2. Node(g, d, k, v) = t /\ Node(g, d, k + 1, v) = g.table[t][i] /\ t \in L \cup {0}
  BY <1>0, <1>1, NodeStep, NodeIn DEF Walked
<1>3. CASE t = 0 \/ g.table[t][i] # 0
  <2>1. x = [w EXCEPT !.at = g.table[t][i]]
    BY <1>3 DEF Enter
  <2>2. x = [h |-> g, at |-> g.table[t][i]]
    BY <2>1 DEF Walked
  <2> QED
    BY <1>2, <2>2 DEF Walked
<1>4. CASE t # 0 /\ g.table[t][i] = 0 /\ n = 0
  <2>1. x = [h |-> g, at |-> 0]
    BY <1>4 DEF Enter
  <2> QED
    BY <1>2, <1>4, <2>1 DEF Walked
<1>5. CASE t # 0 /\ g.table[t][i] = 0 /\ n # 0
  <2>1. x = [h |-> Link(f, t, i, n), at |-> n]
    BY <1>5 DEF Enter
  <2>2. n \in Page /\ n \notin K /\ f.table = g.table /\ f.kernel = g.kernel /\ Forest(f, R, K \cup {n}, L)
    BY <1>1, <1>5, KallocTakes
  <2>3. ASSUME NEW e, NEW u, NEW m \in 0 .. 4 PROVE Node(f, e, m, u) = Node(g, e, m, u)
    BY <2>2 DEF Node, Down, Pgdir_walk, Pte
  <2>4. t \in L /\ f.table[t][i] = 0 /\ Node(f, d, k, v) = t /\ Node(f, d, k + 1, v) = 0
    <3>1. k + 1 \in 0 .. 4
      OBVIOUS
    <3> QED
      BY <1>0, <1>2, <1>5, <2>2, <2>3, <3>1
  <2> DEFINE b == Link(f, t, i, n)
  <2>5. Forest(b, R, K, L \cup {n})
    BY <1>0, <2>2, <2>4, LinkGrows
  <2>6. f \in Heap /\ t \in Page
    BY <2>2, <2>4 DEF Forest
  <2>7. b.kernel = f.kernel
    BY <1>0, <2>2, <2>6, LinkIs
  <2>8. ASSUME NEW e \in R, NEW u \in Nat, NEW m \in 0 .. 4
        PROVE  Node(b, e, m, u) = IF (e = d /\ \A j \in 0 .. k : PTX(j, u) = PTX(j, v)) /\ m = k + 1
                                  THEN n ELSE Node(f, e, m, u)
    <3> HIDE DEF f, n
    <3> QED
      BY <1>0, <1>5, <2>2, <2>4, LinkWalks
  <2>9. Node(b, d, k + 1, v) = n
    <3>1. k + 1 \in 0 .. 4
      OBVIOUS
    <3> QED
      BY <1>0, <2>8, <3>1
  <2>10. ASSUME NEW e \in R, NEW u \in VPage PROVE Pte(b, e, u) = Pte(g, e, u)
    <3>1. u \in Nat /\ 4 # k + 1 /\ 4 \in 0 .. 4
      BY VPageBelow
    <3>2. Node(b, e, 4, u) = Node(g, e, 4, u)
      BY <2>3, <2>8, <3>1
    <3> QED
      BY <3>2, NodeStep
  <2> HIDE DEF b, f, n
  <2>11. SamePtes(h, b, R)
    BY <2>2, <2>7, <2>10 DEF SamePtes, Walked
  <2>12. x = [h |-> b, at |-> n]
    BY <2>1 DEF b
  <2>13. x.h = b /\ x.at = n
    BY <2>12
  <2>14. L \cup {n} \in SUBSET Page
    BY <2>2
  <2>15. Woods(b, R, K)
    BY <2>5, <2>14 DEF Woods
  <2> QED
    BY <2>9, <2>11, <2>12, <2>13, <2>15 DEF Walked
<1> QED
  BY <1>3, <1>4, <1>5

(* The three levels of a walk that makes missing tables.                   *)
LEMMA AllocWalks ==
    ASSUME NEW h, NEW R, NEW K, Woods(h, R, K), NEW d \in R, NEW v \in VPage,
           NEW w, w = Pgdir_alloc(h, d, v)
    PROVE  /\ Woods(w.h, R, K)
           /\ w.at = Node(w.h, d, 3, v)
           /\ SamePtes(h, w.h, R)
<1> DEFINE w0 == [h |-> h, at |-> d]
           w1 == Enter(w0, 0, v)
           w2 == Enter(w1, 1, v)
           w3 == Enter(w2, 2, v)
<1>1. Walked(h, w0, R, K, d, v, 0)
  BY NodeStep DEF Walked, SamePtes
<1>2. w = w3
  BY DEF Pgdir_alloc
<1> HIDE DEF w0
<1>3. Walked(h, w1, R, K, d, v, 0 + 1)
  BY <1>1, EnterWalks
<1> HIDE DEF w1
<1>4. Walked(h, w2, R, K, d, v, 1 + 1)
  BY <1>3, EnterWalks
<1> HIDE DEF w2
<1>5. Walked(h, w3, R, K, d, v, 2 + 1)
  BY <1>4, EnterWalks
<1> QED
  BY <1>2, <1>5 DEF Walked

(* What is in use may be less than is said.                                *)
LEMMA WoodsLess ==
    ASSUME NEW h, NEW R, NEW K, Woods(h, R, K), NEW Q, Q \subseteq R, NEW J, J \subseteq K
    PROVE  Woods(h, Q, J)
<1>1. PICK L \in SUBSET Page : Forest(h, R, K, L)
  BY DEF Woods
<1>2. \A t \in L, i \in Slot : h.table[t][i] \in (L \ Q) \cup {0}
  BY <1>1 DEF Forest
<1>3. Forest(h, Q, J, L)
  BY <1>1, <1>2 DEF Forest
<1> QED
  BY <1>3 DEF Woods

(* Address spaces with the same entries have the same pages.               *)
LEMMA SamePtesView ==
    ASSUME NEW h, NEW g, NEW R, SamePtes(h, g, R), NEW e \in R
    PROVE  SameView(h, g, e)
BY DEF SamePtes, SameView, Mapped, Closed

(* map_region of a page that is in use for nothing else, at a place where  *)
(* nothing is mapped: it is mapped there and the rest is as it was, or     *)
(* there is no table for it and all is as it was.                          *)
LEMMA MapMaps ==
    ASSUME NEW h, NEW R, NEW K, NEW page, page \notin K, Woods(h, R, K \cup {page}),
           NEW d \in R, NEW v \in VPage, Pte(h, d, v) = 0,
           NEW g, g = Map_region(h, d, v, page)
    PROVE  /\ Woods(g, R, K)
           /\ g.kernel = h.kernel
           /\ \A e \in R : e # d => SameView(h, g, e)
           /\ Closed(g, d) = Closed(h, d)
           /\ Unmappable(h, d, v) => Mapped(g, d) = Mapped(h, d)
           /\ ~Unmappable(h, d, v) => Mapped(g, d) = Mapped(h, d) \cup {v} /\ Pte(g, d, v) = page
<1> DEFINE w == Pgdir_alloc(h, d, v)
           f == w.h
           t == w.at
           i == PTX(3, v)
<1>0. v \in Nat /\ i \in Slot
  BY VPageBelow, PTXType
<1>1. Woods(f, R, K \cup {page}) /\ t = Node(f, d, 3, v) /\ SamePtes(h, f, R)
  BY AllocWalks
<1>2. PICK L \in SUBSET Page : Forest(f, R, K \cup {page}, L)
  BY <1>1 DEF Woods
<1>3. f.table[t][i] = 0 /\ t \in L \cup {0} /\ Node(f, d, 3 + 1, v) = 0
  <2>1. Pte(f, d, v) = 0
    BY <1>1 DEF SamePtes
  <2>2. Node(f, d, 3 + 1, v) = f.table[t][i]
    BY <1>0, <1>1, NodeStep
  <2>3. Node(f, d, 3 + 1, v) = 0
    BY <2>1, NodeStep
  <2>4. t \in L \cup {0}
    <3>1. 3 \in 0 .. 4
      OBVIOUS
    <3> QED
      BY <1>0, <1>1, <1>2, <3>1, NodeIn
  <2> QED
    BY <2>2, <2>3, <2>4
<1>4. CASE t = 0
  <2>1. g = f /\ Unmappable(h, d, v)
    BY <1>4 DEF Map_region, Unmappable
  <2>2. Woods(f, R, K)
    <3>1. K \subseteq K \cup {page} /\ R \subseteq R
      OBVIOUS
    <3> HIDE DEF f
    <3> QED
      BY <1>1, <3>1, WoodsLess
  <2>3. \A e \in R : SameView(h, f, e)
    <3> HIDE DEF f
    <3> QED
      BY <1>1, SamePtesView
  <2>4. f.kernel = h.kernel
    BY <1>1 DEF SamePtes
  <2> HIDE DEF w
  <2> QED
    BY <2>1, <2>2, <2>3, <2>4 DEF SameView
<1>5. CASE t # 0
  <2> DEFINE b == Link(f, t, i, page)
  <2>0. t \in L /\ t \in Page /\ f \in Heap /\ page \in Page /\ page \notin f.kernel
    BY <1>2, <1>3, <1>5 DEF Forest
  <2>1. Forest(b, R, K, L \cup {page})
    <3> HIDE DEF w, i
    <3> QED
      BY <1>0, <1>2, <1>3, <2>0, LinkGrows
  <2>2. b \in Heap /\ b.kernel = f.kernel
    <3> HIDE DEF w, i
    <3> QED
      BY <1>0, <2>0, LinkIs
  <2>3. g = b /\ ~Unmappable(h, d, v)
    <3>1. g = [b EXCEPT !.ok = @ /\ f.table[t][i] = 0]
      BY <1>5 DEF Map_region
    <3>2. (b.ok /\ f.table[t][i] = 0) = TRUE
      <4>1. b.ok = TRUE
        <5> HIDE DEF b
        <5> QED
          BY <2>2 DEF Heap
      <4> QED
        BY <4>1, <1>3
    <3>3. g = [b EXCEPT !.ok = TRUE]
      BY <3>1, <3>2
    <3> HIDE DEF b
    <3>4. g = b
      BY <2>2, <3>3 DEF Heap
    <3> QED
      BY <1>5, <3>4 DEF Unmappable
  <2>4. ASSUME NEW e \in R, NEW u \in VPage
        PROVE  Pte(b, e, u) = IF e = d /\ u = v THEN page ELSE Pte(h, e, u)
    <3>0. u \in Nat /\ 4 \in 0 .. 4 /\ 3 \in 0 .. 3 /\ 4 = 3 + 1
      BY VPageBelow
    <3>1. Pte(b, e, u) = IF e = d /\ \A m \in 0 .. 3 : PTX(m, u) = PTX(m, v) THEN page ELSE Pte(f, e, u)
      <4>1. \A m \in 0 .. 4 : Node(b, e, m, u) =
               IF (e = d /\ \A j \in 0 .. 3 : PTX(j, u) = PTX(j, v)) /\ m = 3 + 1
               THEN page ELSE Node(f, e, m, u)
        <5> HIDE DEF w
        <5> QED
          BY <1>0, <1>1, <1>2, <1>3, <1>5, <3>0, LinkWalks
      <4>2. Node(b, e, 4, u) =
               IF e = d /\ \A j \in 0 .. 3 : PTX(j, u) = PTX(j, v) THEN page ELSE Node(f, e, 4, u)
        BY <3>0, <4>1
      <4> QED
        BY <4>2, NodeStep
    <3>2. (\A m \in 0 .. 3 : PTX(m, u) = PTX(m, v)) <=> u = v
      BY Digits
    <3>3. Pte(f, e, u) = Pte(h, e, u)
      BY <1>1 DEF SamePtes
    <3> QED
      BY <3>1, <3>2, <3>3
  <2>5. page # 0 /\ f.kernel = h.kernel /\ page \notin h.kernel /\ 0 \notin h.kernel
    <3>1. f.kernel = h.kernel
      BY <1>1 DEF SamePtes
    <3>2. 0 \notin Page
      BY DEF Page
    <3>3. f.kernel \subseteq Page
      <4> HIDE DEF f
      <4> QED
        BY <2>0 DEF Heap
    <3> HIDE DEF w
    <3> QED
      BY <2>0, <3>1, <3>2, <3>3
  <2> HIDE DEF b, w, f, t, i
  <2>6. \A e \in R : e # d => SameView(h, b, e)
    BY <2>2, <2>4, <2>5 DEF SameView, Mapped, Closed
  <2>7. Mapped(b, d) = Mapped(h, d) \cup {v} /\ Pte(b, d, v) = page
    BY <2>4, <2>5 DEF Mapped
  <2>8. Closed(b, d) = Closed(h, d)
    BY <2>2, <2>4, <2>5 DEF Closed
  <2>9. Woods(b, R, K)
    <3>1. L \cup {page} \in SUBSET Page
      BY <2>0
    <3> QED
      BY <2>1, <3>1 DEF Woods
  <2> QED
    BY <2>2, <2>3, <2>5, <2>6, <2>7, <2>8, <2>9
<1> QED
  BY <1>4, <1>5

-----------------------------------------------------------------------------
(* kfree and vm_free.                                                      *)

(* What Kfree changes of a heap.                                           *)
LEMMA KfreeIs ==
    ASSUME NEW h \in Heap, NEW S, S \subseteq Page, S \cap h.free = {}, NEW g, g = Kfree(h, S)
    PROVE  /\ g \in Heap /\ g.free = h.free \cup S /\ g.kernel = h.kernel \ S
           /\ \A t \in 0 .. NPAGE : g.table[t] = IF t \in S THEN NoEntries ELSE h.table[t]
<1>1. /\ g.free = h.free \cup S /\ g.kernel = h.kernel \ S
      /\ g.table = [t \in 0 .. NPAGE |-> IF t \in S THEN NoEntries ELSE h.table[t]]
      /\ g = [free |-> g.free, kernel |-> g.kernel, ok |-> g.ok, table |-> g.table]
  BY DEF Kfree, Heap
<1>2. g.ok \in {TRUE}
  <2>1. g.ok = (h.ok /\ S \cap h.free = {})
    BY DEF Kfree, Heap
  <2>2. h.ok = TRUE
    BY DEF Heap
  <2> QED
    BY <2>1, <2>2
<1>3. NoEntries \in [Slot -> 0 .. NPAGE] /\ h.table \in [0 .. NPAGE -> [Slot -> 0 .. NPAGE]]
  BY MemoryAssumption DEF MemoryAssumption, NoEntries, Heap
<1>4. g.table \in [0 .. NPAGE -> [Slot -> 0 .. NPAGE]]
  BY <1>1, <1>3
<1>5. g.free \subseteq Page /\ g.kernel \subseteq Page
  BY <1>1 DEF Heap
<1>6. g \in Heap
  BY <1>1, <1>2, <1>4, <1>5, HeapIs
<1> QED
  BY <1>1, <1>6

(* The pages a depth further are those that the pages of a depth list.     *)
LEMMA BelowStep ==
    ASSUME NEW h, NEW d
    PROVE  /\ Below(h, d, 0) = {d}
           /\ \A k \in 0 .. 3 : Below(h, d, k + 1) = Children(h, Below(h, d, k))
<1>1. ASSUME NEW k \in 0 .. 3 PROVE Below(h, d, k + 1) = Children(h, Below(h, d, k))
  <2>1. (k = 0 /\ k + 1 = 1) \/ (k = 1 /\ k + 1 = 2) \/ (k = 2 /\ k + 1 = 3) \/ (k = 3 /\ k + 1 = 4)
    OBVIOUS
  <2>2. Below(h, d, 1) = Children(h, Below(h, d, 0))
    BY DEF Below
  <2>3. Below(h, d, 2) = Children(h, Below(h, d, 1))
    BY DEF Below
  <2>4. Below(h, d, 3) = Children(h, Below(h, d, 2))
    BY DEF Below
  <2>5. Below(h, d, 4) = Children(h, Below(h, d, 3))
    BY DEF Below
  <2> QED
    BY <2>1, <2>2, <2>3, <2>4, <2>5
<1> QED
  BY <1>1 DEF Below

(* The pages below a page directory are in use, and no page directories.   *)
LEMMA BelowIn ==
    ASSUME NEW h, NEW R, NEW K, NEW L, Forest(h, R, K, L), NEW d \in R, NEW k \in 0 .. 4
    PROVE  Below(h, d, k) \subseteq L /\ (k # 0 => Below(h, d, k) \subseteq L \ R)
<1>1. ASSUME NEW j \in 0 .. 3, Below(h, d, j) \subseteq L
      PROVE  Below(h, d, j + 1) \subseteq L \ R
  BY <1>1, BelowStep DEF Children, Forest
<1>2. Below(h, d, 0) \subseteq L
  BY BelowStep DEF Forest
<1>3. Below(h, d, 1) \subseteq L \ R
  BY <1>1, <1>2
<1>4. Below(h, d, 2) \subseteq L \ R
  BY <1>1, <1>3
<1>5. Below(h, d, 3) \subseteq L \ R
  BY <1>1, <1>4
<1>6. Below(h, d, 4) \subseteq L \ R
  BY <1>1, <1>5
<1>7. k = 0 \/ k = 1 \/ k = 2 \/ k = 3 \/ k = 4
  OBVIOUS
<1> QED
  BY <1>2, <1>3, <1>4, <1>5, <1>6, <1>7

(* The trees of some page directories.                                     *)
TreesOf(h, D) == UNION {Below(h, d, k) : d \in D, k \in 0 .. 4}

(* They have no other page directory in them, and are listed in no table   *)
(* of another tree.                                                        *)
LEMMA TreesApart ==
    ASSUME NEW h, NEW R, NEW K, NEW L, Forest(h, R, K, L), NEW D \in SUBSET R
    PROVE  /\ TreesOf(h, D) \subseteq L /\ D \subseteq TreesOf(h, D)
           /\ TreesOf(h, D) \cap R = D
           /\ \A t \in L, i \in Slot : h.table[t][i] \in TreesOf(h, D) => t \in TreesOf(h, D)
<1>1. \A c : c \in TreesOf(h, D) <=> \E d \in D, k \in 0 .. 4 : c \in Below(h, d, k)
  BY DEF TreesOf
<1>2. TreesOf(h, D) \subseteq L
  BY <1>1, BelowIn
<1>3. D \subseteq TreesOf(h, D)
  <2>1. \A d \in D : d \in Below(h, d, 0) /\ 0 \in 0 .. 4
    BY BelowStep
  <2> QED
    BY <1>1, <2>1
<1>4. TreesOf(h, D) \cap R \subseteq D
  <2> SUFFICES ASSUME NEW c \in R, NEW d \in D, NEW k \in 0 .. 4, c \in Below(h, d, k) PROVE c \in D
    BY <1>1
  <2>1. k = 0
    BY BelowIn
  <2> QED
    BY <2>1, BelowStep
<1>5. ASSUME NEW t \in L, NEW i \in Slot, h.table[t][i] \in TreesOf(h, D) PROVE t \in TreesOf(h, D)
  <2>1. PICK d \in D, k \in 0 .. 4 : h.table[t][i] \in Below(h, d, k)
    BY <1>1, <1>5
  <2>2. h.table[t][i] \in L \ R
    <3>1. h.table[t][i] \in (L \ R) \cup {0}
      BY DEF Forest
    <3>2. 0 \notin L
      BY DEF Forest, Page
    <3> QED
      BY <1>2, <1>5, <3>1, <3>2
  <2>3. k # 0
    BY <2>1, <2>2, BelowStep
  <2>4. k - 1 \in 0 .. 3 /\ k - 1 \in 0 .. 4 /\ k = (k - 1) + 1
    BY <2>3
  <2>5. h.table[t][i] \in Children(h, Below(h, d, k - 1))
    BY <2>1, <2>4, BelowStep
  <2>6. PICK u \in Below(h, d, k - 1), j \in Slot : h.table[t][i] = h.table[u][j] /\ h.table[t][i] # 0
    BY <2>5 DEF Children
  <2>7. u \in L
    BY <2>4, BelowIn
  <2>8. t = u
    BY <2>6, <2>7 DEF Forest
  <2> QED
    BY <1>1, <2>4, <2>8
<1> QED
  BY <1>2, <1>3, <1>4, <1>5

(* Giving back pages of some trees, and pages in use for other things,     *)
(* leaves the other trees as they are, whether the whole of a tree goes    *)
(* back or a part of it is lost.                                           *)
LEMMA FreeTrees ==
    ASSUME NEW h, NEW R, NEW K, NEW L, Forest(h, R, K, L), NEW D \in SUBSET R,
           NEW Q \in SUBSET K, NEW S \in SUBSET (TreesOf(h, D) \cup Q), NEW g, g = Kfree(h, S)
    PROVE  /\ Forest(g, R \ D, K \ Q, L \ TreesOf(h, D))
           /\ \A e \in R \ D : SameView(h, g, e)
<1> DEFINE T == TreesOf(h, D)
<1>1. T \subseteq L /\ D \subseteq T /\ T \cap R = D /\ \A t \in L, i \in Slot : h.table[t][i] \in T => t \in T
  BY TreesApart
<1> HIDE DEF T
<1>2. S \subseteq T \cup Q
  BY DEF T
<1>3. h \in Heap /\ L \subseteq Page /\ S \subseteq Page /\ S \cap h.free = {} /\ 0 \notin S /\ 0 \notin Page
  <2>1. 0 \notin Page
    BY DEF Page
  <2>2. /\ h \in Heap /\ L \subseteq Page /\ K \subseteq Page
        /\ L \cap h.free = {} /\ K \cap h.free = {}
    BY DEF Forest
  <2> QED
    BY <1>1, <1>2, <2>1, <2>2
<1>4. /\ g \in Heap /\ g.free = h.free \cup S /\ g.kernel = h.kernel \ S
      /\ \A t \in 0 .. NPAGE : g.table[t] = IF t \in S THEN NoEntries ELSE h.table[t]
  BY <1>3, KfreeIs
<1>5. Page \subseteq 0 .. NPAGE /\ 0 \in 0 .. NPAGE
  BY MemoryAssumption DEF MemoryAssumption, Page
<1>6. g.table[0] = h.table[0] /\ \A t \in L \ T : g.table[t] = h.table[t]
  <2>1. \A t \in L \ T : t \notin S /\ t \in 0 .. NPAGE
    BY <1>2, <1>3, <1>5 DEF Forest
  <2> QED
    BY <1>3, <1>4, <1>5, <2>1
<1>7. Forest(g, R \ D, K \ Q, L \ T)
  <2>1. g \in Heap /\ g.table[0] = NoEntries
    BY <1>4, <1>6 DEF Forest
  <2>2. /\ L \ T \subseteq Page /\ R \ D \subseteq L \ T /\ K \ Q \subseteq Page
        /\ (L \ T) \cap g.free = {} /\ (K \ Q) \cap g.free = {} /\ (K \ Q) \cap (L \ T) = {}
        /\ g.kernel \cap (g.free \cup (K \ Q)) = {}
    BY <1>1, <1>2, <1>4 DEF Forest
  <2>3. ASSUME NEW t \in g.free \cup (K \ Q) PROVE g.table[t] = NoEntries
    <3>1. t \in Page
      BY <1>3, <1>4 DEF Forest, Heap
    <3>2. t \notin S => t \in h.free \cup K
      BY <1>4
    <3> QED
      BY <1>4, <1>5, <3>1, <3>2 DEF Forest
  <2>4. ASSUME NEW t \in L \ T, NEW i \in Slot
        PROVE  g.table[t][i] \in ((L \ T) \ (R \ D)) \cup {0}
    <3>1. g.table[t][i] = h.table[t][i] /\ h.table[t][i] \notin T
      BY <1>1, <1>6
    <3>2. h.table[t][i] \in (L \ R) \cup {0}
      BY DEF Forest
    <3> QED
      BY <3>1, <3>2
  <2>5. ASSUME NEW t \in L \ T, NEW u \in L \ T, NEW i \in Slot, NEW j \in Slot,
               g.table[t][i] = g.table[u][j], g.table[t][i] # 0
        PROVE  t = u /\ i = j
    <3>1. h.table[t][i] = h.table[u][j] /\ h.table[t][i] # 0
      BY <1>6, <2>5
    <3> QED
      BY <3>1 DEF Forest
  <2> QED
    BY <2>1, <2>2, <2>3, <2>4, <2>5 DEF Forest
<1>8. ASSUME NEW e \in R \ D, NEW v \in VPage PROVE Pte(g, e, v) = Pte(h, e, v) /\ Pte(h, e, v) \notin T
  <2>0. v \in Nat
    BY VPageBelow
  <2>1. ASSUME NEW m \in 0 .. 3, Node(g, e, m, v) = Node(h, e, m, v), Node(h, e, m, v) \notin T
        PROVE  Node(g, e, m + 1, v) = Node(h, e, m + 1, v) /\ Node(h, e, m + 1, v) \notin T
    <3>1. Node(h, e, m, v) \in L \cup {0}
      <4>1. m \in 0 .. 4
        OBVIOUS
      <4> QED
        BY <2>0, <4>1, NodeIn
    <3>2. /\ Node(g, e, m + 1, v) = g.table[Node(h, e, m, v)][PTX(m, v)]
          /\ Node(h, e, m + 1, v) = h.table[Node(h, e, m, v)][PTX(m, v)]
          /\ PTX(m, v) \in Slot
      BY <2>0, <2>1, NodeStep, PTXType
    <3>3. CASE Node(h, e, m, v) = 0
      <4>1. Node(h, e, m + 1, v) = 0
        BY <3>2, <3>3 DEF Forest, NoEntries
      <4>2. 0 \notin T
        BY <1>1, <1>3
      <4> QED
        BY <1>6, <3>2, <3>3, <4>1, <4>2
    <3>4. CASE Node(h, e, m, v) \in L
      BY <1>1, <1>6, <2>1, <3>2, <3>4
    <3> QED
      BY <3>1, <3>3, <3>4
  <2>2. Node(g, e, 0, v) = Node(h, e, 0, v) /\ Node(h, e, 0, v) \notin T
    BY <1>1, NodeStep
  <2>3. Node(g, e, 1, v) = Node(h, e, 1, v) /\ Node(h, e, 1, v) \notin T
    BY <2>1, <2>2
  <2>4. Node(g, e, 2, v) = Node(h, e, 2, v) /\ Node(h, e, 2, v) \notin T
    BY <2>1, <2>3
  <2>5. Node(g, e, 3, v) = Node(h, e, 3, v) /\ Node(h, e, 3, v) \notin T
    BY <2>1, <2>4
  <2>6. Node(g, e, 4, v) = Node(h, e, 4, v) /\ Node(h, e, 4, v) \notin T
    BY <2>1, <2>5
  <2> QED
    BY <2>6, NodeStep
<1>9. ASSUME NEW e \in R \ D, NEW v \in VPage PROVE Pte(h, e, v) \notin S
  <2>0. v \in Nat /\ 4 \in 0 .. 4
    BY VPageBelow
  <2>1. Pte(h, e, v) \in L \cup {0}
    BY <2>0, NodeIn, NodeStep
  <2>2. Q \cap L = {}
    BY DEF Forest
  <2> QED
    BY <1>2, <1>3, <1>8, <2>1, <2>2
<1>10. \A e \in R \ D : SameView(h, g, e)
  BY <1>4, <1>8, <1>9 DEF SameView, Mapped, Closed
<1> QED
  BY <1>7, <1>10 DEF T

-----------------------------------------------------------------------------
(* deallocuvm.                                                             *)

(* The pages that deallocuvm comes to are given back, are no longer        *)
(* mapped, and everything else is as it was.                               *)
LEMMA DeallocUnmaps ==
    ASSUME NEW h, NEW R, NEW K, NEW L, Forest(h, R, K, L), NEW d \in R,
           NEW old, NEW new, Visited(h, d, old, new) \subseteq VPage,
           NEW g, g = Deallocuvm(h, d, old, new)
    PROVE  /\ Woods(g, R, K)
           /\ \A e \in R : e # d => SameView(h, g, e)
           /\ Mapped(g, d) = Mapped(h, d) \ Visited(h, d, old, new)
           /\ Closed(g, d) = Closed(h, d) \ Visited(h, d, old, new)
<1> DEFINE Off     == Visited(h, d, old, new)
           Gone    == {v \in Off : Pte(h, d, v) # 0}
           Cleared == {<<Pgdir_walk(h, d, v), PTX(3, v)>> : v \in Gone}
           Entry   == [t \in 0 .. NPAGE |->
                         [i \in Slot |-> IF <<t, i>> \in Cleared THEN 0 ELSE h.table[t][i]]]
           S       == {Pte(h, d, v) : v \in Gone}
           f       == [h EXCEPT !.table = Entry]
<1>0. g = Kfree(f, S)
  BY DEF Deallocuvm
<1>1. Page \subseteq 0 .. NPAGE /\ 0 \in 0 .. NPAGE /\ 0 \notin Page
  BY MemoryAssumption DEF MemoryAssumption, Page
<1>2. /\ h \in Heap /\ L \subseteq Page /\ R \subseteq L /\ K \subseteq Page
      /\ L \cap h.free = {} /\ K \cap h.free = {} /\ K \cap L = {} /\ h.kernel \cap (h.free \cup K) = {}
  BY DEF Forest
<1>3. ASSUME NEW v \in Gone
      PROVE  /\ v \in VPage /\ v \in Nat /\ v \in Off
             /\ Pte(h, d, v) \in L \ R /\ Pgdir_walk(h, d, v) \in L
             /\ Pte(h, d, v) = h.table[Pgdir_walk(h, d, v)][PTX(3, v)]
  <2>1. v \in VPage /\ v \in Nat /\ Pte(h, d, v) # 0 /\ v \in Off
    BY VPageBelow
  <2>2. 4 \in 0 .. 4 /\ 3 \in 0 .. 4 /\ 3 \in 0 .. 3 /\ 3 + 1 = 4
    OBVIOUS
  <2>3. Pte(h, d, v) \in (L \ R) \cup {0}
    BY <2>1, <2>2, NodeIn, NodeStep
  <2>4. Pte(h, d, v) = h.table[Pgdir_walk(h, d, v)][PTX(3, v)]
    BY <2>2, NodeStep
  <2>5. Pgdir_walk(h, d, v) \in L \cup {0}
    BY <2>1, <2>2, NodeIn, NodeStep
  <2>6. Pgdir_walk(h, d, v) # 0
    BY <2>1, <2>2, NodeNull, NodeStep DEF Forest
  <2> QED
    BY <2>1, <2>3, <2>4, <2>5, <2>6
<1>4. S \subseteq L \ R
  BY <1>3
<1>5. ASSUME NEW t \in 0 .. NPAGE, NEW i \in Slot
      PROVE  Entry[t][i] = IF <<t, i>> \in Cleared THEN 0 ELSE h.table[t][i]
  OBVIOUS
<1>6. Entry \in [0 .. NPAGE -> [Slot -> 0 .. NPAGE]]
  <2>1. h.table \in [0 .. NPAGE -> [Slot -> 0 .. NPAGE]]
    BY <1>2 DEF Heap
  <2> HIDE DEF Cleared
  <2>2. ASSUME NEW t \in 0 .. NPAGE
        PROVE  [i \in Slot |-> IF <<t, i>> \in Cleared THEN 0 ELSE h.table[t][i]] \in [Slot -> 0 .. NPAGE]
    BY <1>1, <2>1
  <2> QED
    BY <2>2
<1> HIDE DEF Gone
<1>7. \A c : c \in Cleared <=> \E v \in Gone : c = <<Pgdir_walk(h, d, v), PTX(3, v)>>
  OBVIOUS
<1>8. \A c : c \in S <=> \E v \in Gone : c = Pte(h, d, v)
  OBVIOUS
<1> HIDE DEF Cleared, Entry, S
<1>9. f \in Heap /\ f.free = h.free /\ f.kernel = h.kernel /\ f.table = Entry
  BY <1>2, <1>6 DEF Heap
<1> HIDE DEF f
<1>10. /\ g \in Heap /\ g.free = h.free \cup S /\ g.kernel = h.kernel \ S
       /\ \A t \in 0 .. NPAGE : g.table[t] = IF t \in S THEN NoEntries ELSE Entry[t]
  <2>1. S \subseteq Page /\ S \cap f.free = {}
    BY <1>2, <1>4, <1>9
  <2> QED
    BY <1>0, <1>9, <2>1, KfreeIs
<1>11. \A t \in 0 .. NPAGE, i \in Slot : <<t, i>> \in Cleared => t \in L /\ h.table[t][i] \in S
  <2> SUFFICES ASSUME NEW t, NEW i, <<t, i>> \in Cleared PROVE t \in L /\ h.table[t][i] \in S
    OBVIOUS
  <2>1. PICK v \in Gone : <<t, i>> = <<Pgdir_walk(h, d, v), PTX(3, v)>>
    BY <1>7
  <2>2. t = Pgdir_walk(h, d, v) /\ i = PTX(3, v)
    BY <2>1
  <2> QED
    BY <1>3, <1>8, <2>2
<1>12. ASSUME NEW t \in L, NEW i \in Slot, h.table[t][i] \in S PROVE <<t, i>> \in Cleared
  <2>1. PICK v \in Gone : h.table[t][i] = Pte(h, d, v)
    BY <1>8, <1>12
  <2>2. /\ Pgdir_walk(h, d, v) \in L /\ PTX(3, v) \in Slot
        /\ h.table[t][i] = h.table[Pgdir_walk(h, d, v)][PTX(3, v)] /\ h.table[t][i] # 0
    <3>1. 3 \in 0 .. 3
      OBVIOUS
    <3> QED
      BY <1>1, <1>2, <1>3, <2>1, <3>1, PTXType
  <2>3. t = Pgdir_walk(h, d, v) /\ i = PTX(3, v)
    BY <2>2 DEF Forest
  <2> QED
    BY <1>7, <2>3
<1>13. ASSUME NEW t \in L \ S, NEW i \in Slot
       PROVE  g.table[t][i] = IF h.table[t][i] \in S THEN 0 ELSE h.table[t][i]
  <2>1. t \in 0 .. NPAGE
    BY <1>1, <1>2
  <2>2. g.table[t] = Entry[t]
    BY <1>10, <2>1
  <2>3. Entry[t][i] = IF <<t, i>> \in Cleared THEN 0 ELSE h.table[t][i]
    BY <1>5, <2>1
  <2>4. <<t, i>> \in Cleared <=> h.table[t][i] \in S
    BY <1>11, <1>12, <2>1
  <2> QED
    BY <2>2, <2>3, <2>4
<1>14. g.table[0] = NoEntries
  <2>1. 0 \notin S /\ 0 \notin L
    BY <1>1, <1>2, <1>4
  <2>2. ASSUME NEW i \in Slot PROVE Entry[0][i] = 0
    <3>1. <<0, i>> \notin Cleared
      BY <1>1, <1>11, <2>1
    <3>2. Entry[0][i] = h.table[0][i]
      BY <1>1, <1>5, <3>1
    <3>3. h.table[0] = NoEntries
      BY DEF Forest
    <3> QED
      BY <3>2, <3>3 DEF NoEntries
  <2>3. Entry[0] \in [Slot -> 0 .. NPAGE]
    BY <1>1, <1>6
  <2> QED
    BY <1>1, <1>10, <2>1, <2>2, <2>3 DEF NoEntries
<1>15. Forest(g, R, K, L \ S)
  <2>1. /\ L \ S \subseteq Page /\ R \subseteq L \ S
        /\ (L \ S) \cap g.free = {} /\ K \cap g.free = {} /\ K \cap (L \ S) = {}
        /\ g.kernel \cap (g.free \cup K) = {}
    BY <1>2, <1>4, <1>10
  <2>2. ASSUME NEW t \in g.free \cup K PROVE g.table[t] = NoEntries
    <3>1. t \in 0 .. NPAGE
      BY <1>1, <1>2, <1>10 DEF Heap
    <3>2. CASE t \in S
      BY <1>10, <3>1, <3>2
    <3>3. CASE t \notin S
      <4>1. t \in h.free \cup K /\ t \notin L
        BY <1>2, <1>10, <3>3
      <4>2. h.table[t] = NoEntries
        BY <4>1 DEF Forest
      <4>3. \A i \in Slot : Entry[t][i] = 0
        BY <1>5, <1>11, <3>1, <4>1, <4>2 DEF NoEntries
      <4>4. Entry[t] \in [Slot -> 0 .. NPAGE]
        BY <1>6, <3>1
      <4> QED
        BY <1>10, <3>1, <3>3, <4>3, <4>4 DEF NoEntries
    <3> QED
      BY <3>2, <3>3
  <2>3. \A t \in L \ S, i \in Slot : g.table[t][i] \in ((L \ S) \ R) \cup {0}
    BY <1>13 DEF Forest
  <2>4. ASSUME NEW t \in L \ S, NEW u \in L \ S, NEW i \in Slot, NEW j \in Slot,
               g.table[t][i] = g.table[u][j], g.table[t][i] # 0
        PROVE  t = u /\ i = j
    <3>1. h.table[t][i] = h.table[u][j] /\ h.table[t][i] # 0
      BY <1>13, <2>4
    <3> QED
      BY <3>1 DEF Forest
  <2> QED
    BY <1>10, <1>14, <2>1, <2>2, <2>3, <2>4 DEF Forest
<1>16. ASSUME NEW e \in R, NEW w \in VPage, NEW m \in 1 .. 4, Node(h, e, m, w) \in S
       PROVE  m = 4 /\ e = d /\ w \in Gone
  <2>0. w \in Nat /\ 4 \in 0 .. 4 /\ m \in 0 .. 4
    BY VPageBelow
  <2>1. PICK v \in Gone : Node(h, e, m, w) = Pte(h, d, v)
    BY <1>8, <1>16
  <2>2. Pte(h, d, v) # 0 /\ v \in VPage /\ v \in Nat
    BY <1>1, <1>2, <1>3
  <2>3. Node(h, d, 4, v) = Node(h, e, m, w) /\ Node(h, d, 4, v) # 0
    BY <2>1, <2>2, NodeStep
  <2>4. Alike(h, R, 4)
    BY <2>0, WalksAlike
  <2>5. m = 4 /\ d = e
    BY <2>0, <2>2, <2>3, <2>4 DEF Alike
  <2>6. Pte(h, d, v) = Pte(h, e, w)
    BY <2>1, <2>5, NodeStep
  <2>7. v = w
    BY <2>2, <2>6, PteApart
  <2> QED
    BY <2>5, <2>7
<1>17. ASSUME NEW e \in R, NEW w \in VPage
       PROVE  Pte(g, e, w) = IF e = d /\ w \in Off THEN 0 ELSE Pte(h, e, w)
  <2>0. w \in Nat
    BY VPageBelow
  <2>1. ASSUME NEW m \in 0 .. 3, Node(g, e, m, w) = Node(h, e, m, w), Node(h, e, m, w) \notin S
        PROVE  Node(g, e, m + 1, w) = IF Node(h, e, m + 1, w) \in S THEN 0 ELSE Node(h, e, m + 1, w)
    <3>1. Node(h, e, m, w) \in L \cup {0}
      <4>1. m \in 0 .. 4
        OBVIOUS
      <4> QED
        BY <2>0, <4>1, NodeIn
    <3>2. /\ Node(g, e, m + 1, w) = g.table[Node(h, e, m, w)][PTX(m, w)]
          /\ Node(h, e, m + 1, w) = h.table[Node(h, e, m, w)][PTX(m, w)]
          /\ PTX(m, w) \in Slot
      BY <2>0, <2>1, NodeStep, PTXType
    <3>3. CASE Node(h, e, m, w) = 0
      <4>1. h.table[0] = NoEntries
        BY DEF Forest
      <4>2. NoEntries[PTX(m, w)] = 0
        BY <3>2 DEF NoEntries
      <4> QED
        BY <1>14, <3>2, <3>3, <4>1, <4>2
    <3>4. CASE Node(h, e, m, w) \in L
      BY <1>13, <2>1, <3>2, <3>4
    <3> QED
      BY <3>1, <3>3, <3>4
  <2>2. Node(g, e, 0, w) = Node(h, e, 0, w) /\ Node(h, e, 0, w) \notin S
    BY <1>4, NodeStep
  <2>3. \A m \in 1 .. 3 : Node(h, e, m, w) \notin S
    BY <1>16
  <2>4. Node(g, e, 1, w) = Node(h, e, 1, w)
    BY <2>1, <2>2, <2>3
  <2>5. Node(g, e, 2, w) = Node(h, e, 2, w)
    BY <2>1, <2>3, <2>4
  <2>6. Node(g, e, 3, w) = Node(h, e, 3, w)
    BY <2>1, <2>3, <2>5
  <2>7. Node(g, e, 4, w) = IF Node(h, e, 4, w) \in S THEN 0 ELSE Node(h, e, 4, w)
    BY <2>1, <2>3, <2>6
  <2>8. Pte(g, e, w) = IF Pte(h, e, w) \in S THEN 0 ELSE Pte(h, e, w)
    BY <2>7, NodeStep
  <2>9. Pte(h, e, w) \in S => e = d /\ w \in Off
    <3>1. 4 \in 1 .. 4
      OBVIOUS
    <3> QED
      BY <1>3, <1>16, <3>1, NodeStep
  <2>10. e = d /\ w \in Off => Pte(h, e, w) \in S \cup {0}
    BY <1>8 DEF Gone
  <2> QED
    BY <2>8, <2>9, <2>10
<1>18. ASSUME NEW e \in R, NEW w \in VPage, ~(e = d /\ w \in Off)
       PROVE  Pte(h, e, w) \notin S
  <2>1. 4 \in 1 .. 4
    OBVIOUS
  <2> QED
    BY <1>3, <1>16, <1>18, <2>1, NodeStep
<1>19. 0 \notin h.kernel
  BY <1>1, <1>2 DEF Heap
<1> HIDE DEF Off
<1>20. \A e \in R : e # d => SameView(h, g, e)
  BY <1>10, <1>17, <1>18 DEF SameView, Mapped, Closed
<1>21. Mapped(g, d) = Mapped(h, d) \ Off
  BY <1>17 DEF Mapped
<1>22. Closed(g, d) = Closed(h, d) \ Off
  BY <1>10, <1>17, <1>18, <1>19 DEF Closed
<1>23. Woods(g, R, K)
  BY <1>2, <1>15 DEF Woods
<1> QED
  BY <1>20, <1>21, <1>22, <1>23 DEF Off

-----------------------------------------------------------------------------
(* What the actions do with pages.                                         *)

(* The same tables and the same pages closed to the user: the same         *)
(* address spaces.                                                         *)
LEMMA SameTables ==
    ASSUME NEW h, NEW g, g.table = h.table, NEW d
    PROVE  /\ \A v : Pte(g, d, v) = Pte(h, d, v)
           /\ Mapped(g, d) = Mapped(h, d)
           /\ g.kernel = h.kernel => SameView(h, g, d)
<1>1. \A v : Pte(g, d, v) = Pte(h, d, v)
  BY DEF Pte, Pgdir_walk, Down
<1> QED
  BY <1>1 DEF SameView, Mapped, Closed

(* A page from kalloc, mapped with map_region.                             *)
LEMMA NewPageMaps ==
    ASSUME NEW h, NEW R, NEW K, Woods(h, R, K), NextPage(h) # 0,
           NEW d \in R, NEW v \in VPage, Pte(h, d, v) = 0,
           NEW n, n = NextPage(h), NEW g, g = Map_region(Kalloc(h), d, v, n)
    PROVE  /\ Woods(g, R, K) /\ g.kernel = h.kernel /\ n \notin h.kernel
           /\ \A e \in R : e # d => SameView(h, g, e)
           /\ Closed(g, d) = Closed(h, d)
           /\ Unmappable(Kalloc(h), d, v) => Mapped(g, d) = Mapped(h, d)
           /\ ~Unmappable(Kalloc(h), d, v) =>
                 Mapped(g, d) = Mapped(h, d) \cup {v} /\ Pte(g, d, v) = n
<1> DEFINE f == Kalloc(h)
<1>1. PICK L \in SUBSET Page : Forest(h, R, K, L)
  BY DEF Woods
<1>2. /\ n \notin K /\ n \notin h.kernel /\ f.table = h.table /\ f.kernel = h.kernel
      /\ Forest(f, R, K \cup {n}, L)
  BY <1>1, KallocTakes
<1>3. Woods(f, R, K \cup {n})
  BY <1>2 DEF Woods
<1> HIDE DEF f
<1>4. Pte(f, d, v) = 0
  BY <1>2, SameTables
<1>5. \A e : SameView(h, f, e)
  BY <1>2, SameTables
<1>6. g = Map_region(f, d, v, n)
  BY DEF f
<1>7. /\ Woods(g, R, K)
      /\ g.kernel = f.kernel
      /\ \A e \in R : e # d => SameView(f, g, e)
      /\ Closed(g, d) = Closed(f, d)
      /\ Unmappable(f, d, v) => Mapped(g, d) = Mapped(f, d)
      /\ ~Unmappable(f, d, v) => Mapped(g, d) = Mapped(f, d) \cup {v} /\ Pte(g, d, v) = n
  BY <1>2, <1>3, <1>4, <1>6, MapMaps
<1>8. \A e \in R : e # d => SameView(h, g, e)
  BY <1>5, <1>7 DEF SameView
<1> QED
  BY <1>2, <1>5, <1>7, <1>8 DEF f, SameView

(* Taking a page, for a kernel stack or one that is lost, changes no       *)
(* address space.                                                          *)
LEMMA KallocViews ==
    ASSUME NEW h, NEW R, NEW K, Woods(h, R, K), NextPage(h) # 0, NEW n, n = NextPage(h)
    PROVE  /\ Woods(Kalloc(h), R, K \cup {n}) /\ n \in Page /\ n \notin K /\ n \notin R
           /\ \A e : SameView(h, Kalloc(h), e)
<1>1. PICK L \in SUBSET Page : Forest(h, R, K, L)
  BY DEF Woods
<1>2. /\ n \in Page /\ n \notin K /\ n \notin L
      /\ Kalloc(h).table = h.table /\ Kalloc(h).kernel = h.kernel
      /\ Forest(Kalloc(h), R, K \cup {n}, L)
  BY <1>1, KallocTakes
<1>3. \A e : SameView(h, Kalloc(h), e)
  BY <1>2, SameTables
<1>4. n \notin R
  BY <1>1, <1>2 DEF Forest
<1> QED
  BY <1>2, <1>3, <1>4 DEF Woods

(* A page directory from kalloc.                                           *)
LEMMA KallocRoot ==
    ASSUME NEW h, NEW R, NEW K, Woods(h, R, K), NextPage(h) # 0, NEW n, n = NextPage(h),
           NEW g, g = Kalloc(h)
    PROVE  /\ Woods(g, R \cup {n}, K) /\ n \in Page /\ n \notin K /\ n \notin R
           /\ \A e : SameView(h, g, e)
           /\ Mapped(g, n) = {} /\ Closed(g, n) = {}
<1>1. /\ Woods(g, R, K \cup {n}) /\ n \in Page /\ n \notin K /\ n \notin R
      /\ \A e : SameView(h, g, e)
  BY KallocViews
<1>2. PICK L \in SUBSET Page : Forest(g, R, K \cup {n}, L)
  BY <1>1 DEF Woods
<1>3. Forest(g, R \cup {n}, K, L \cup {n}) /\ Mapped(g, n) = {} /\ Closed(g, n) = {}
  BY <1>1, <1>2, NewRoot
<1>4. L \cup {n} \in SUBSET Page
  BY <1>1
<1> QED
  BY <1>1, <1>3, <1>4 DEF Woods

(* Closing a mapped page to the user.                                      *)
LEMMA ClosePage ==
    ASSUME NEW h, NEW R, NEW K, Woods(h, R, K), NEW d \in R, NEW v \in VPage,
           NEW g, g = Clearpteu(h, d, v)
    PROVE  /\ Woods(g, R, K)
           /\ \A e \in R : e # d => SameView(h, g, e)
           /\ Mapped(g, d) = Mapped(h, d)
           /\ Closed(g, d) = Closed(h, d) \cup ({v} \cap Mapped(h, d))
<1> DEFINE X == {Pte(h, d, v)} \ {0}
<1>1. PICK L \in SUBSET Page : Forest(h, R, K, L)
  BY DEF Woods
<1>2. /\ h \in Heap /\ L \subseteq Page /\ L \cap h.free = {} /\ K \cap L = {}
      /\ h.kernel \cap (h.free \cup K) = {} /\ 0 \notin h.kernel
  <2>1. 0 \notin Page
    BY DEF Page
  <2>2. /\ h \in Heap /\ L \subseteq Page /\ L \cap h.free = {} /\ K \cap L = {}
        /\ h.kernel \cap (h.free \cup K) = {}
    BY <1>1 DEF Forest
  <2> QED
    BY <2>1, <2>2 DEF Heap
<1>3. X \subseteq L
  <2>1. v \in Nat /\ 4 \in 0 .. 4
    BY VPageBelow
  <2>2. Pte(h, d, v) \in L \cup {0}
    BY <1>1, <2>1, NodeIn, NodeStep
  <2> QED
    BY <2>2
<1>4. /\ g.free = h.free /\ g.kernel = h.kernel \cup X /\ g.ok = h.ok /\ g.table = h.table
      /\ g = [free |-> g.free, kernel |-> g.kernel, ok |-> g.ok, table |-> g.table]
  BY <1>2 DEF Clearpteu, Heap
<1> HIDE DEF X
<1>5. g \in Heap
  <2>1. /\ h.free \subseteq Page /\ h.kernel \subseteq Page /\ h.ok \in {TRUE}
        /\ h.table \in [0 .. NPAGE -> [Slot -> 0 .. NPAGE]]
    BY <1>2 DEF Heap
  <2>2. g.kernel \subseteq Page
    BY <1>2, <1>3, <1>4, <2>1
  <2> QED
    BY <1>4, <2>1, <2>2, HeapIs
<1>6. Forest(g, R, K, L)
  <2>1. g.kernel \cap (g.free \cup K) = {}
    BY <1>2, <1>3, <1>4
  <2> QED
    BY <1>1, <1>4, <1>5, <2>1 DEF Forest
<1>7. \A e, u : Pte(g, e, u) = Pte(h, e, u)
  BY <1>4, SameTables
<1>8. ASSUME NEW e \in R, NEW u \in VPage, Pte(h, e, u) \in X PROVE e = d /\ u = v
  <2>1. Pte(h, e, u) = Pte(h, d, v) /\ Pte(h, d, v) # 0
    BY <1>8 DEF X
  <2> QED
    BY <1>1, <2>1, PteApart
<1>9. \A e \in R : e # d => SameView(h, g, e)
  BY <1>4, <1>7, <1>8 DEF SameView, Mapped, Closed
<1>10. Mapped(g, d) = Mapped(h, d)
  BY <1>7 DEF Mapped
<1>11. Closed(g, d) = Closed(h, d) \cup ({v} \cap Mapped(h, d))
  <2>1. \A u \in VPage : Pte(h, d, u) \in X <=> u = v /\ Pte(h, d, u) # 0
    BY <1>8 DEF X
  <2> QED
    BY <1>4, <1>7, <2>1 DEF Closed, Mapped
<1> QED
  BY <1>6, <1>9, <1>10, <1>11 DEF Woods

(* Giving back pages of some trees, and some that are in use for other     *)
(* things.                                                                 *)
LEMMA FreeWoods ==
    ASSUME NEW h, NEW R, NEW K, Woods(h, R, K), NEW D \in SUBSET R, NEW Q \in SUBSET K,
           NEW S \in SUBSET (TreesOf(h, D) \cup Q), NEW g, g = Kfree(h, S)
    PROVE  Woods(g, R \ D, K \ Q) /\ \A e \in R \ D : SameView(h, g, e)
<1>1. PICK L \in SUBSET Page : Forest(h, R, K, L)
  BY DEF Woods
<1>2. Forest(g, R \ D, K \ Q, L \ TreesOf(h, D)) /\ \A e \in R \ D : SameView(h, g, e)
  BY <1>1, FreeTrees, ZenonT(60)
<1>3. L \ TreesOf(h, D) \in SUBSET Page
  OBVIOUS
<1> QED
  BY <1>2, <1>3 DEF Woods

(* Giving back a kernel stack.                                             *)
LEMMA FreeStack ==
    ASSUME NEW h, NEW R, NEW K, Woods(h, R, K), NEW k \in K, NEW g, g = Kfree(h, {k})
    PROVE  Woods(g, R, K \ {k}) /\ \A e \in R : SameView(h, g, e)
<1>1. {} \in SUBSET R /\ {k} \in SUBSET K /\ R \ {} = R /\ {k} \in SUBSET (TreesOf(h, {}) \cup {k})
  OBVIOUS
<1>2. Woods(g, R \ {}, K \ {k}) /\ \A e \in R \ {} : SameView(h, g, e)
  BY <1>1, FreeWoods, ZenonT(60)
<1> QED
  BY <1>1, <1>2

(* Giving back a kernel stack, and a page directory but not what is below. *)
LEMMA FreeChild ==
    ASSUME NEW h, NEW R, NEW K, Woods(h, R, K), NEW d \in R, NEW k \in K,
           NEW g, g = Kfree(h, {d, k})
    PROVE  Woods(g, R \ {d}, K \ {k}) /\ \A e \in R : e # d => SameView(h, g, e)
<1>1. d \in TreesOf(h, {d})
  <2>1. 0 \in 0 .. 4 /\ d \in Below(h, d, 0)
    BY BelowStep
  <2> QED
    BY <2>1 DEF TreesOf
<1>2. {d} \in SUBSET R /\ {k} \in SUBSET K /\ {d, k} \in SUBSET (TreesOf(h, {d}) \cup {k})
  BY <1>1
<1>3. Woods(g, R \ {d}, K \ {k}) /\ \A e \in R \ {d} : SameView(h, g, e)
  BY <1>2, FreeWoods, ZenonT(60)
<1> QED
  BY <1>3

(* vm_free, with either level.                                             *)
LEMMA VmFrees ==
    ASSUME NEW h, NEW R, NEW K, Woods(h, R, K), NEW d \in R, NEW level \in {0, 1},
           NEW g, g = Vm_free(h, d, level)
    PROVE  Woods(g, R \ {d}, K) /\ \A e \in R : e # d => SameView(h, g, e)
<1> DEFINE S == (UNION {Below(h, d, k) : k \in 0 .. 2 - level}) \cup Below(h, d, 4 - level)
<1>1. S \in SUBSET (TreesOf(h, {d}) \cup {})
  <2>1. \A k \in 0 .. 4 : Below(h, d, k) \subseteq TreesOf(h, {d})
    BY DEF TreesOf
  <2>2. 4 - level \in 0 .. 4 /\ \A k \in 0 .. 2 - level : k \in 0 .. 4
    OBVIOUS
  <2> QED
    BY <2>1, <2>2
<1>2. g = Kfree(h, S)
  BY DEF Vm_free
<1> HIDE DEF S
<1>3. {d} \in SUBSET R /\ {} \in SUBSET K /\ K \ {} = K
  OBVIOUS
<1>4. Woods(g, R \ {d}, K \ {}) /\ \A e \in R \ {d} : SameView(h, g, e)
  BY <1>1, <1>2, <1>3, FreeWoods, ZenonT(60)
<1> QED
  BY <1>3, <1>4

(* So do wait and execve, which give the level 1.                          *)
LEMMA VmFreesImage ==
    ASSUME NEW h, NEW R, NEW K, Woods(h, R, K), NEW d \in R, NEW g, g = Vm_free(h, d, 1)
    PROVE  Woods(g, R \ {d}, K) /\ \A e \in R : e # d => SameView(h, g, e)
<1>1. PICK level \in {0, 1} : level = 1
  OBVIOUS
<1>2. g = Vm_free(h, d, level)
  BY <1>1
<1> QED
  BY <1>2, VmFrees

-----------------------------------------------------------------------------
(* A page is in one place.                                                 *)

(* Sets of pages are finite.                                               *)
LEMMA FinitePages ==
    ASSUME NEW S \in SUBSET Page
    PROVE  IsFiniteSet(S)
<1>1. IsFiniteSet(Page)
  BY MemoryAssumption, FS_Interval DEF MemoryAssumption, Page
<1> QED
  BY <1>1, FS_Subset

(* The entries of their tables.                                            *)
TablesOf(h, D)  == UNION {Below(h, d, k) : d \in D, k \in 0 .. 3}
EntriesOf(h, D) == {e \in TablesOf(h, D) \X Slot : h.table[e[1]][e[2]] # 0}

(* The pages of the trees of all page directories are those and what the   *)
(* entries of the tables in the trees list, each by one entry.             *)
LEMMA EntriesCount ==
    ASSUME NEW h, NEW R, NEW K, NEW L, Forest(h, R, K, L)
    PROVE  Cardinality(TreesOf(h, R)) = Cardinality(R) + Cardinality(EntriesOf(h, R))
<1> DEFINE T == TreesOf(h, R)
           B == TablesOf(h, R)
           E == EntriesOf(h, R)
<1>a. T = TreesOf(h, R) /\ E = {e \in B \X Slot : h.table[e[1]][e[2]] # 0}
  BY DEF EntriesOf
<1>1. /\ \A c : c \in T <=> \E d \in R, k \in 0 .. 4 : c \in Below(h, d, k)
      /\ \A c : c \in B <=> \E d \in R, k \in 0 .. 3 : c \in Below(h, d, k)
  BY DEF TreesOf, TablesOf
<1> HIDE DEF T, B, E
<1>2. /\ T \subseteq L /\ R \subseteq T /\ R \subseteq L /\ L \subseteq Page
      /\ \A t \in L, i \in Slot : h.table[t][i] \in (L \ R) \cup {0}
  <2>1. R \in SUBSET R
    OBVIOUS
  <2>2. TreesOf(h, R) \subseteq L /\ R \subseteq TreesOf(h, R)
    BY <2>1, TreesApart
  <2> QED
    BY <1>a, <2>2 DEF Forest
<1>3. B \subseteq T
  <2>1. \A k \in 0 .. 3 : k \in 0 .. 4
    OBVIOUS
  <2> QED
    BY <1>1, <2>1
<1> DEFINE f == [e \in E |-> h.table[e[1]][e[2]]]
<1>4. ASSUME NEW e \in E
      PROVE  e[1] \in B /\ e[2] \in Slot /\ e = <<e[1], e[2]>> /\ h.table[e[1]][e[2]] # 0
  BY <1>a
<1>5. \A e \in E : h.table[e[1]][e[2]] \in T \ R
  <2> SUFFICES ASSUME NEW e \in E PROVE h.table[e[1]][e[2]] \in T \ R
    OBVIOUS
  <2>1. PICK d \in R, k \in 0 .. 3 : e[1] \in Below(h, d, k)
    BY <1>1, <1>4
  <2>2. h.table[e[1]][e[2]] \in Children(h, Below(h, d, k))
    BY <1>4, <2>1 DEF Children
  <2>3. h.table[e[1]][e[2]] \in Below(h, d, k + 1) /\ k + 1 \in 0 .. 4
    BY <2>2, BelowStep
  <2>4. h.table[e[1]][e[2]] \in T
    BY <1>1, <2>3
  <2> QED
    BY <1>2, <1>3, <1>4, <2>4
<1>6. f \in Injection(E, T \ R)
  <2>1. f \in [E -> T \ R]
    BY <1>5
  <2>2. ASSUME NEW x \in E, NEW y \in E, f[x] = f[y] PROVE x = y
    <3>1. h.table[x[1]][x[2]] = h.table[y[1]][y[2]]
      BY <2>2
    <3>2. x[1] \in L /\ y[1] \in L
      BY <1>2, <1>3, <1>4
    <3>3. x[1] = y[1] /\ x[2] = y[2]
      BY <1>4, <3>1, <3>2 DEF Forest
    <3> QED
      BY <1>4, <3>3
  <2> QED
    BY <2>1, <2>2 DEF Injection, IsInjective
<1>7. f \in Surjection(E, T \ R)
  <2>1. ASSUME NEW c \in T \ R PROVE \E e \in E : f[e] = c
    <3>1. PICK d \in R, k \in 0 .. 4 : c \in Below(h, d, k)
      BY <1>1
    <3>2. k # 0
      <4>1. Below(h, d, 0) = {d}
        BY BelowStep
      <4> QED
        BY <3>1, <4>1
    <3>3. k - 1 \in 0 .. 3 /\ (k - 1) + 1 = k
      BY <3>2
    <3>4. c \in Children(h, Below(h, d, k - 1))
      BY <3>1, <3>3, BelowStep
    <3>5. PICK t \in Below(h, d, k - 1), i \in Slot : c = h.table[t][i] /\ c # 0
      BY <3>4 DEF Children
    <3>6. t \in B
      BY <1>1, <3>3, <3>5
    <3>7. <<t, i>> \in E /\ f[<<t, i>>] = c
      BY <1>a, <3>5, <3>6
    <3> QED
      BY <3>7
  <2>2. f \in [E -> T \ R]
    BY <1>5
  <2> QED
    BY <2>1, <2>2 DEF Surjection
<1>8. T \in SUBSET Page /\ R \in SUBSET Page /\ T \ R \in SUBSET Page
  BY <1>2
<1>9. IsFiniteSet(T) /\ IsFiniteSet(R) /\ IsFiniteSet(T \ R)
  BY <1>8, FinitePages
<1> HIDE DEF f
<1>10. Cardinality(E) = Cardinality(T \ R)
  BY <1>6, <1>7, <1>9, FS_Injection
<1>11. T \cap R = R
  BY <1>2
<1>12. Cardinality(T \ R) = Cardinality(T) - Cardinality(R)
  <2>1. Cardinality(T \ R) = Cardinality(T) - Cardinality(T \cap R)
    BY <1>9, FS_Difference
  <2> QED
    BY <1>11, <2>1
<1>13. Cardinality(T) \in Nat /\ Cardinality(R) \in Nat
  BY <1>9, FS_CardinalityType
<1> QED
  BY <1>10, <1>12, <1>13 DEF T, E

(* No two processes have a kernel stack in common.                         *)
StacksApart == \A p, q \in Proc : kstack[p] = kstack[q] /\ kstack[p] # 0 => p = q

(* A page is in one place when the trees are a forest and the stacks are   *)
(* pages of one process each.                                              *)
LEMMA InOnePlace ==
    ASSUME Woods(heap, Roots, Stacks), kstack \in [Proc -> 0 .. NPAGE],
           StacksApart
    PROVE  OnePlace
<1>1. PICK L \in SUBSET Page : Forest(heap, Roots, Stacks, L)
  BY DEF Woods
<1>2. Trees = TreesOf(heap, Roots)
  BY DEF Trees, TreesOf
<1>3. Trees \subseteq L
  <2>1. Roots \in SUBSET Roots
    OBVIOUS
  <2> QED
    BY <1>1, <1>2, <2>1, TreesApart
<1>4. heap.free \cap (Trees \cup Stacks) = {} /\ Trees \cap Stacks = {}
  BY <1>1, <1>3 DEF Forest
<1>5. Cardinality(Trees) = Cardinality(Roots) + Cardinality(Entries)
  <2>1. Entries = EntriesOf(heap, Roots)
    BY DEF Entries, Tables, EntriesOf, TablesOf
  <2> QED
    BY <1>1, <1>2, <2>1, EntriesCount
<1>6. Cardinality(Stacks) = Cardinality({p \in Proc : kstack[p] # 0})
  <2> DEFINE P == {p \in Proc : kstack[p] # 0}
             f == [p \in P |-> kstack[p]]
  <2>1. f \in [P -> Stacks]
    BY DEF Stacks
  <2>2. f \in Injection(P, Stacks)
    BY <2>1 DEF Injection, IsInjective, StacksApart
  <2>3. f \in Surjection(P, Stacks)
    BY <2>1 DEF Surjection, Stacks
  <2>4. IsFiniteSet(Stacks)
    BY <1>1, FinitePages DEF Forest
  <2> HIDE DEF f, P
  <2>5. Cardinality(P) = Cardinality(Stacks)
    BY <2>2, <2>3, <2>4, FS_Injection
  <2> QED
    BY <2>5 DEF P
<1> QED
  BY <1>4, <1>5, <1>6 DEF OnePlace

-----------------------------------------------------------------------------
(* The invariant.                                                          *)

(* A brk that is growing its own page directory, and a fork or execve that *)
(* is making another.                                                      *)
Growing(p)  == loc[p].then = "brk"
Building(p) == loc[p].pd # 0 /\ ~Growing(p)

(* The pages that a growing brk has added.                                 *)
More(p) == PageUp(sz[p]) .. loc[p].a - 1

(* No two processes have a page directory in common, and what one is       *)
(* building is nobody's image.                                             *)
Apart ==
    \A p, q \in Proc :
       /\ pgdir[p] = pgdir[q] /\ pgdir[p] # 0 => p = q
       /\ Growing(p) => loc[p].pd = pgdir[p]
       /\ Building(p) => loc[p].pd # pgdir[q]
       /\ Building(p) /\ Building(q) /\ loc[p].pd = loc[q].pd => p = q

(* The slot that fork has taken is the child's alone and has its stack.    *)
Reserved ==
    \A p \in Proc : pc[p] = "copy" =>
       /\ pc[loc[p].child] = "unused" /\ kstack[loc[p].child] # 0
       /\ \A q \in Proc : pc[q] = "copy" /\ loc[q].child = loc[p].child => p = q

(* What each place in the code has.                                        *)
Living(p) ==
    /\ pc[p] \in {"unused", "user", "zombie"} => loc[p] = NoLocal
    /\ pc[p] = "unused" <=> pgdir[p] = 0
    /\ pc[p] # "unused" => kstack[p] # 0
    /\ pc[p] \in {"copy", "seg", "load", "args", "bad"} => Building(p)
    /\ pc[p] = "grow" => loc[p].then # "none" /\ loc[p].pd # 0
    /\ Growing(p) => pc[p] \in {"grow", "mapped"}

(* The image of a process, with what a growing brk has added to it.        *)
Imaged(p) ==
    pgdir[p] # 0 =>
       /\ Mapped(heap, pgdir[p]) = (Pages(sz[p]) \ holes[p]) \cup stale[p]
                                     \cup (IF Growing(p) THEN More(p) \ loc[p].holes ELSE {})
       /\ Pages(sz[p]) \cap stale[p] = {}
       /\ holes[p] \subseteq Pages(sz[p])
       /\ Closed(heap, pgdir[p]) = guard[p]

(* A growing brk is between the old size and the new one.                  *)
BrkGrows(p) ==
    pc[p] = "grow" /\ Growing(p) =>
       /\ loc[p].old = sz[p] /\ loc[p].new \in sz[p] .. UADDR_SZ - 1
       /\ PageUp(sz[p]) <= loc[p].a /\ loc[p].a <= PageUp(loc[p].new)
       /\ More(p) \cap stale[p] = {}
       /\ loc[p].holes \subseteq More(p)

(* A copy has the pages up to where it is, closed where the original is.   *)
Copies(p) ==
    pc[p] = "copy" =>
       /\ loc[p].a <= PageUp(sz[p])
       /\ (0 .. loc[p].a - 1) \cap holes[p] = {}
       /\ Mapped(heap, loc[p].pd) = 0 .. loc[p].a - 1
       /\ Closed(heap, loc[p].pd) = guard[p] \cap (0 .. loc[p].a - 1)

(* A new image has the pages of the segments loaded so far.                *)
Loads(p) ==
    /\ pc[p] \in {"seg", "load", "args"} =>
          /\ Mapped(heap, loc[p].pd) = Pages(loc[p].sz) \ loc[p].holes
          /\ loc[p].holes \subseteq Pages(loc[p].sz)
          /\ Closed(heap, loc[p].pd) = {}
    /\ pc[p] = "load" => loc[p].segs # <<>>
    /\ pc[p] = "args" => loc[p].sz >= 2 * PGSIZE

(* While it grows by one of them, or by the guard and the stack.           *)
ExecGrows(p) ==
    pc[p] = "grow" /\ ~Growing(p) =>
       /\ Mapped(heap, loc[p].pd) = (0 .. loc[p].a - 1) \ loc[p].holes
       /\ loc[p].holes \subseteq 0 .. loc[p].a - 1
       /\ Closed(heap, loc[p].pd) = {}
       /\ loc[p].old < UADDR_SZ /\ loc[p].new < UADDR_SZ
       /\ PageUp(loc[p].old) <= loc[p].a
       /\ loc[p].a > PageUp(loc[p].old) => loc[p].a <= PageUp(loc[p].new)
       /\ loc[p].then = "args" => loc[p].new >= 2 * PGSIZE /\ loc[p].new >= loc[p].old
       /\ loc[p].then = "load" => loc[p].segs # <<>>

Own(p) == Living(p) /\ Imaged(p) /\ BrkGrows(p) /\ Copies(p) /\ Loads(p) /\ ExecGrows(p)

IInv ==
    /\ StateOK /\ Woods(heap, Roots, Stacks)
    /\ Apart /\ StacksApart /\ Reserved
    /\ \A p \in Proc : Own(p)

(* What an action leaves to a process: all that is its own.                *)
Kept(q) ==
    /\ pc'[q] = pc[q] /\ loc'[q] = loc[q] /\ pgdir'[q] = pgdir[q] /\ sz'[q] = sz[q]
    /\ holes'[q] = holes[q] /\ stale'[q] = stale[q] /\ guard'[q] = guard[q]
    /\ kstack'[q] = kstack[q] \/ pc[q] = "unused"
    /\ \A d \in {pgdir[q], loc[q].pd} \ {0} : SameView(heap, heap', d)

(* Then the invariant has no more to say of it.                            *)
LEMMA KeptOwn ==
    ASSUME NEW q \in Proc, Own(q), Kept(q)
    PROVE  Own(q)'
<1>1. /\ Growing(q)' <=> Growing(q)
      /\ Building(q)' <=> Building(q)
      /\ More(q)' = More(q)
  BY DEF Kept, Growing, Building, More
<1>2. Living(q)'
  BY <1>1 DEF Own, Living, Kept
<1>3. Imaged(q)'
  BY <1>1 DEF Own, Imaged, Kept, SameView
<1>4. BrkGrows(q)'
  BY <1>1 DEF Own, BrkGrows, Kept
<1>5. pc[q] \in {"copy", "seg", "load", "args", "grow"} => loc[q].pd # 0
  BY DEF Own, Living, Building
<1>6. Copies(q)'
  BY <1>5 DEF Own, Copies, Kept, SameView
<1>7. Loads(q)'
  BY <1>5 DEF Own, Loads, Kept, SameView
<1>8. ExecGrows(q)'
  BY <1>1, <1>5 DEF Own, ExecGrows, Kept, SameView
<1> QED
  BY <1>2, <1>3, <1>4, <1>6, <1>7, <1>8 DEF Own

(* The page directories of one process are no other's.                     *)
LEMMA Others ==
    ASSUME Apart, NEW p \in Proc, NEW q \in Proc, p # q
    PROVE  /\ loc[p].pd # 0 => loc[p].pd \notin {pgdir[q], loc[q].pd}
           /\ pgdir[p] # 0 => pgdir[p] \notin {pgdir[q], loc[q].pd}
BY DEF Apart, Building

(* The page directories in use.                                            *)
LEMMA RootsAre ==
    ASSUME NEW p \in Proc
    PROVE  /\ pgdir[p] # 0 => pgdir[p] \in Roots
           /\ loc[p].pd # 0 => loc[p].pd \in Roots
           /\ kstack[p] # 0 => kstack[p] \in Stacks
BY DEF Roots, Stacks

(* A size rounds up to as many pages as a smaller one, or more.            *)
LEMMA PageUpGrows ==
    ASSUME NEW m \in Nat, NEW n \in Nat, m <= n
    PROVE  PageUp(m) <= PageUp(n) /\ Pages(m) \subseteq Pages(n)
<1>0. PGSIZE \in Nat
  BY MemoryAssumption DEF MemoryAssumption
<1> DEFINE k == PageUp(n)
<1>1. k \in Nat /\ n <= k * PGSIZE /\ PageUp(m) \in Nat
  BY PageUpIs
<1> HIDE DEF k
<1>2. k * PGSIZE \in Nat
  BY <1>0, <1>1
<1>3. m <= k * PGSIZE
  BY <1>1, <1>2
<1>4. PageUp(m) <= k
  BY <1>1, <1>3, PageUpIs
<1>5. 0 .. PageUp(m) - 1 \subseteq 0 .. k - 1
  BY <1>1, <1>4
<1> QED
  BY <1>4, <1>5 DEF k, Pages

(* A size of nothing has no pages, and one of whole pages has that many.   *)
LEMMA NoPages ==
    /\ Pages(0) = {} /\ PageUp(0) = 0
    /\ \A k \in Nat : k * PGSIZE \in Nat /\ PageUp(k * PGSIZE) = k
<1>0. PGSIZE \in Nat /\ PGSIZE > 0
  BY MemoryAssumption DEF MemoryAssumption
<1>1. ASSUME NEW k \in Nat PROVE k * PGSIZE \in Nat /\ PageUp(k * PGSIZE) = k
  <2>1. k * PGSIZE \in Nat
    BY <1>0
  <2>2. PICK n \in Nat : n = k * PGSIZE
    BY <2>1
  <2>3. PICK u \in Nat : u = PageUp(n) /\ n <= u * PGSIZE /\ u <= k
    BY <2>2, PageUpIs
  <2>4. CASE u < k
    <3>1. (u + 1) * PGSIZE <= k * PGSIZE
      BY <1>0, <2>4
    <3>2. (u + 1) * PGSIZE = u * PGSIZE + PGSIZE /\ u * PGSIZE \in Nat
      BY <1>0
    <3> QED
      BY <1>0, <2>1, <2>2, <2>3, <3>1, <3>2
  <2> QED
    BY <2>1, <2>2, <2>3, <2>4
<1>2. PageUp(0) = 0
  <2>1. PageUp(0 * PGSIZE) = 0
    BY <1>1
  <2> QED
    BY <1>0, <2>1
<1> QED
  BY <1>1, <1>2 DEF Pages

(* Sizes below the limit have pages that the limit allows.                 *)
LEMMA PagesBelow ==
    ASSUME NEW n \in 0 .. UADDR_SZ - 1
    PROVE  /\ Pages(n) \subseteq VPage
           /\ \A k \in Nat : k * PGSIZE < n => k \in Pages(n)
           /\ \A k \in Nat : k < PageUp(n) => k \in VPage
<1>1. n \in Nat /\ UADDR_SZ \in Nat /\ n <= UADDR_SZ
  BY MemoryAssumption DEF MemoryAssumption
<1>2. Pages(n) \subseteq VPage
  BY <1>1, PageUpGrows DEF VPage
<1>3. \A k \in Nat : k < PageUp(n) => k \in Pages(n)
  BY <1>1, PageUpIs DEF Pages
<1>4. ASSUME NEW k \in Nat, k * PGSIZE < n PROVE k < PageUp(n)
  <2>1. k * PGSIZE \in Nat
    BY MemoryAssumption DEF MemoryAssumption
  <2>2. ~(PageUp(n) <= k)
    BY <1>1, <1>4, <2>1, PageUpIs
  <2> QED
    BY <1>1, <2>2, PageUpIs
<1> QED
  BY <1>2, <1>3, <1>4

(* The types of a process's variables and of the constants.                *)
LEMMA Typed ==
    ASSUME StateOK, NEW p \in Proc
    PROVE  /\ heap \in Heap /\ pgdir[p] \in 0 .. NPAGE /\ kstack[p] \in 0 .. NPAGE
           /\ sz[p] \in 0 .. UADDR_SZ - 1 /\ sz[p] \in Nat /\ pc[p] \in PC
           /\ loc[p] \in Local /\ loc[p].a \in Nat /\ loc[p].old \in Nat /\ loc[p].new \in Nat
           /\ loc[p].sz \in 0 .. UADDR_SZ - 1 /\ loc[p].sz \in Nat /\ loc[p].pd \in 0 .. NPAGE
           /\ loc[p].then \in {"none", "brk", "load", "args"} /\ loc[p].child \in Proc
           /\ loc[p].segs \in Seq(Segment) /\ loc[p].holes \subseteq VPage
           /\ holes[p] \subseteq VPage /\ stale[p] \subseteq VPage /\ guard[p] \subseteq VPage
           /\ NPAGE \in Nat /\ UADDR_SZ \in Nat /\ PGSIZE \in Nat /\ PGSIZE > 0
<1>1. UADDR_SZ \in Nat /\ PGSIZE \in Nat /\ PGSIZE > 0 /\ NPAGE \in Nat
  BY MemoryAssumption DEF MemoryAssumption
<1>2. heap \in Heap
  BY DEF StateOK, Heap
<1>3. loc[p] \in Local
  BY DEF StateOK
<1>4. /\ sz[p] \in 0 .. UADDR_SZ - 1 /\ pgdir[p] \in 0 .. NPAGE /\ kstack[p] \in 0 .. NPAGE
      /\ pc[p] \in PC /\ holes[p] \subseteq VPage /\ stale[p] \subseteq VPage /\ guard[p] \subseteq VPage
  BY DEF StateOK
<1>5. /\ loc[p].a \in Nat /\ loc[p].old \in Nat /\ loc[p].new \in Nat
      /\ loc[p].sz \in 0 .. UADDR_SZ - 1 /\ loc[p].pd \in 0 .. NPAGE
      /\ loc[p].then \in {"none", "brk", "load", "args"} /\ loc[p].child \in Proc
      /\ loc[p].segs \in Seq(Segment) /\ loc[p].holes \subseteq VPage
  BY <1>3 DEF Local
<1> QED
  BY <1>1, <1>2, <1>3, <1>4, <1>5

(* The locals are their parts.                                             *)
LEMMA LocalIs ==
    ASSUME NEW r, r = [then |-> r.then, pd |-> r.pd, a |-> r.a, old |-> r.old, new |-> r.new,
                       sz |-> r.sz, segs |-> r.segs, child |-> r.child, holes |-> r.holes],
           r.then \in {"none", "brk", "load", "args"}, r.pd \in 0 .. NPAGE,
           r.a \in Nat, r.old \in Nat, r.new \in Nat, r.sz \in 0 .. UADDR_SZ - 1,
           r.segs \in Seq(Segment), r.child \in Proc, r.holes \subseteq VPage
    PROVE  r \in Local
BY DEF Local

(* The locals of a process that is in no call.                             *)
LEMMA NoLocalIs ==
    /\ NoLocal \in Local /\ NoLocal.then = "none" /\ NoLocal.pd = 0 /\ NoLocal.a = 0
    /\ NoLocal.sz = 0 /\ NoLocal.holes = {} /\ NoLocal.segs = <<>>
    /\ NoLocal = [then |-> "none", pd |-> 0, a |-> 0, old |-> 0, new |-> 0, sz |-> 0,
                  segs |-> <<>>, child |-> Initproc, holes |-> {}]
BY MemoryAssumption DEF MemoryAssumption, NoLocal, Local

(* Where a process goes next.                                              *)
LEMMA GotoIs ==
    ASSUME StateOK, NEW p \in Proc, NEW x \in PC, Goto(p, x)
    PROVE  /\ pc' \in [Proc -> PC] /\ pc'[p] = x
           /\ \A q \in Proc : q # p => pc'[q] = pc[q]
BY DEF StateOK, Goto

(* What its locals are then.                                               *)
LEMMA LocallyIs ==
    ASSUME StateOK, NEW p \in Proc, NEW r \in Local, Locally(p, r)
    PROVE  /\ loc' \in [Proc -> Local] /\ loc'[p] = r
           /\ \A q \in Proc : q # p => loc'[q] = loc[q]
BY DEF StateOK, Locally

(* What a process does when allocuvm begins.                               *)
LEMMA AllocBegins ==
    ASSUME StateOK, NEW p \in Proc, NEW l \in Local, NEW pd \in 0 .. NPAGE,
           NEW old \in Nat, NEW new \in Nat, NEW then \in {"brk", "load", "args"},
           Allocuvm(p, l, pd, old, new, then)
    PROVE  /\ loc' \in [Proc -> Local] /\ pc' \in [Proc -> PC] /\ pc'[p] = "grow"
           /\ loc'[p].then = then /\ loc'[p].pd = pd /\ loc'[p].a = PageUp(old)
           /\ loc'[p].old = old /\ loc'[p].new = new
           /\ loc'[p].sz = l.sz /\ loc'[p].segs = l.segs /\ loc'[p].holes = l.holes
           /\ \A q \in Proc : q # p => loc'[q] = loc[q] /\ pc'[q] = pc[q]
<1>1. PICK r : r = [l EXCEPT !.then = then, !.pd = pd, !.a = PageUp(old), !.old = old, !.new = new]
  OBVIOUS
<1>2. Locally(p, r) /\ Goto(p, "grow") /\ "grow" \in PC
  BY <1>1 DEF Allocuvm, PC
<1>3. /\ r = [then |-> r.then, pd |-> r.pd, a |-> r.a, old |-> r.old, new |-> r.new,
              sz |-> r.sz, segs |-> r.segs, child |-> r.child, holes |-> r.holes]
      /\ r.then = then /\ r.pd = pd /\ r.a = PageUp(old) /\ r.old = old /\ r.new = new
      /\ r.sz = l.sz /\ r.segs = l.segs /\ r.child = l.child /\ r.holes = l.holes
  BY <1>1 DEF Local
<1>4. /\ l.sz \in 0 .. UADDR_SZ - 1 /\ l.segs \in Seq(Segment)
      /\ l.child \in Proc /\ l.holes \subseteq VPage
  BY DEF Local
<1>5. PageUp(old) \in Nat
  BY PageUpIs
<1>6. r \in Local
  BY <1>3, <1>4, <1>5, LocalIs
<1> QED
  BY <1>2, <1>3, <1>6, GotoIs, LocallyIs

(* An action that changes the variables of one process.                    *)
Only(p) ==
    \A q \in Proc : q # p =>
       /\ pc'[q] = pc[q] /\ loc'[q] = loc[q] /\ pgdir'[q] = pgdir[q] /\ sz'[q] = sz[q]
       /\ holes'[q] = holes[q] /\ stale'[q] = stale[q] /\ guard'[q] = guard[q]

(* It keeps what the others have, when it changes its own address spaces.  *)
LEMMA OthersKept ==
    ASSUME Apart, \A q \in Proc : Own(q), NEW p \in Proc, Only(p),
           \A q \in Proc : q # p => kstack'[q] = kstack[q] \/ pc[q] = "unused",
           \A e \in Roots : e \notin {pgdir[p], loc[p].pd} => SameView(heap, heap', e)
    PROVE  \A q \in Proc : q # p => Own(q)'
<1> SUFFICES ASSUME NEW q \in Proc, q # p PROVE Own(q)'
  OBVIOUS
<1>1. \A d \in {pgdir[q], loc[q].pd} \ {0} : d \in Roots /\ d \notin {pgdir[p], loc[p].pd}
  BY Others, RootsAre
<1>2. Kept(q)
  BY <1>1 DEF Kept, Only
<1> QED
  BY <1>2, KeptOwn

(* What it has is still its own, when its page directories are from among  *)
(* those it had or are new.                                                *)
LEMMA ApartKept ==
    ASSUME Apart, NEW p \in Proc, Only(p),
           Growing(p)' => loc'[p].pd = pgdir'[p],
           Building(p)' => loc'[p].pd # pgdir'[p],
           \A d \in {pgdir'[p], loc'[p].pd} \ {0} : d \in {pgdir[p], loc[p].pd} \/ d \notin Roots
    PROVE  Apart'
<1>1. \A q \in Proc : q # p =>
         /\ Growing(q)' <=> Growing(q)
         /\ Building(q)' <=> Building(q)
  BY DEF Only, Growing, Building
<1>2. \A q \in Proc : q # p => \A d \in {pgdir'[p], loc'[p].pd} \ {0} : d \notin {pgdir[q], loc[q].pd}
  BY Others, RootsAre
<1> SUFFICES ASSUME NEW x \in Proc, NEW y \in Proc
             PROVE  /\ pgdir'[x] = pgdir'[y] /\ pgdir'[x] # 0 => x = y
                    /\ Growing(x)' => loc'[x].pd = pgdir'[x]
                    /\ Building(x)' => loc'[x].pd # pgdir'[y]
                    /\ Building(x)' /\ Building(y)' /\ loc'[x].pd = loc'[y].pd => x = y
  BY DEF Apart
<1>3. \A q \in Proc : Building(q)' => loc'[q].pd # 0
  BY DEF Building
<1>4. CASE x = p /\ y = p
  BY <1>4
<1>5. CASE x = p /\ y # p
  BY <1>2, <1>3, <1>5 DEF Only
<1>6. CASE x # p /\ y = p
  <2>1. pgdir'[x] = pgdir[x] /\ loc'[x] = loc[x]
    BY <1>6 DEF Only
  <2>2. \A d \in {pgdir'[p], loc'[p].pd} \ {0} : d \notin {pgdir'[x], loc'[x].pd}
    BY <1>2, <1>6, <2>1
  <2>3. Growing(x)' => loc'[x].pd = pgdir'[x]
    BY <1>1, <1>6, <2>1 DEF Apart
  <2> QED
    BY <1>3, <1>6, <2>2, <2>3
<1>7. CASE x # p /\ y # p
  BY <1>1, <1>7 DEF Only, Apart
<1> QED
  BY <1>4, <1>5, <1>6, <1>7

(* No other slot is reserved, when it does not begin to copy.              *)
LEMMA ReservedKept ==
    ASSUME StateOK, Reserved, NEW p \in Proc, Only(p), kstack' = kstack, pc[p] # "unused",
           pc'[p] = "copy" => pc[p] = "copy" /\ loc'[p].child = loc[p].child
    PROVE  Reserved'
<1>1. \A q \in Proc : loc[q].child \in Proc
  BY Typed
<1> QED
  BY <1>1 DEF Reserved, Only

(* The page directories that are in use after it.                          *)
LEMMA RootsKept ==
    ASSUME NEW p \in Proc, Only(p)
    PROVE  /\ Roots' \subseteq Roots \cup ({pgdir'[p], loc'[p].pd} \ {0})
           /\ Apart => \A x \in {pgdir[p], loc[p].pd} :
                 Roots' \subseteq (Roots \ {x}) \cup ({pgdir'[p], loc'[p].pd} \ {0})
<1>1. \A d \in Roots' : d # 0 /\ \E q \in Proc : d = pgdir'[q] \/ d = loc'[q].pd
  BY DEF Roots
<1>2. \A q \in Proc : \A d \in {pgdir[q], loc[q].pd} : d = 0 \/ d \in Roots
  BY RootsAre
<1>3. \A d \in Roots' : \/ d \in {pgdir'[p], loc'[p].pd} \ {0}
                        \/ d # 0 /\ d \in Roots /\ \E q \in Proc : q # p /\ d \in {pgdir[q], loc[q].pd}
  BY <1>1, <1>2 DEF Only
<1>4. ASSUME Apart, NEW x \in {pgdir[p], loc[p].pd}, NEW d \in Roots', d \notin {pgdir'[p], loc'[p].pd}
      PROVE  d \in Roots \ {x}
  <2>1. PICK q \in Proc : q # p /\ d \in {pgdir[q], loc[q].pd} /\ d # 0 /\ d \in Roots
    BY <1>3, <1>4
  <2> QED
    BY <1>4, <2>1, Others
<1> QED
  BY <1>1, <1>3, <1>4

-----------------------------------------------------------------------------
(* brk.                                                                    *)

(* What the invariant says of a process, and of the others.                *)
LEMMA InvParts ==
    ASSUME IInv, NEW p \in Proc
    PROVE  /\ StateOK /\ Woods(heap, Roots, Stacks) /\ Apart /\ StacksApart /\ Reserved
           /\ Living(p) /\ Imaged(p) /\ BrkGrows(p) /\ Copies(p) /\ Loads(p) /\ ExecGrows(p)
           /\ pc[p] # "unused" => pgdir[p] \in Roots /\ pgdir[p] # 0
           /\ loc[p].pd # 0 => loc[p].pd \in Roots
           /\ \A q \in Proc : Own(q)
<1>1. Own(p)
  BY DEF IInv
<1>2. pc[p] # "unused" => pgdir[p] # 0
  BY <1>1 DEF Own, Living
<1> QED
  BY <1>1, <1>2, RootsAre DEF IInv, Own

(* A brk that begins to grow. *)
LEMMA BrkGrowKeeps ==
    ASSUME IInv, NEW p \in Proc, BrkGrow(p)
    PROVE  IInv'
<1>0. /\ StateOK /\ Woods(heap, Roots, Stacks) /\ Apart /\ StacksApart /\ Reserved /\ Living(p) /\ Imaged(p)
      /\ \A q \in Proc : Own(q)
  BY InvParts
<1>1. PICK n \in Brk :
         /\ n > 0 /\ sz[p] + n < UADDR_SZ /\ pc[p] = "user"
         /\ Allocuvm(p, NoLocal, pgdir[p], sz[p], sz[p] + n, "brk") /\ ncalls' = ncalls + 1
         /\ UNCHANGED <<heap, kstack, pgdir, sz, holes, stale, guard>>
  BY DEF BrkGrow, Called
<1>2. /\ n \in Int /\ sz[p] \in 0 .. UADDR_SZ - 1 /\ UADDR_SZ \in Nat /\ PageUp(sz[p]) \in Nat
      /\ pgdir[p] \in 0 .. NPAGE /\ sz[p] + n \in Nat /\ sz[p] \in Nat
  <2>1. /\ sz[p] \in 0 .. UADDR_SZ - 1 /\ UADDR_SZ \in Nat /\ sz[p] \in Nat /\ pgdir[p] \in 0 .. NPAGE
    BY <1>0, Typed
  <2>2. n \in Int
    BY MemoryAssumption DEF MemoryAssumption
  <2> QED
    BY <1>1, <2>1, <2>2, PageUpIs
<1>3. /\ loc' \in [Proc -> Local] /\ pc' \in [Proc -> PC] /\ pc'[p] = "grow"
      /\ loc'[p].then = "brk" /\ loc'[p].pd = pgdir[p] /\ loc'[p].a = PageUp(sz[p])
      /\ loc'[p].old = sz[p] /\ loc'[p].new = sz[p] + n /\ loc'[p].holes = {}
      /\ \A q \in Proc : q # p => loc'[q] = loc[q] /\ pc'[q] = pc[q]
  BY <1>0, <1>1, <1>2, NoLocalIs, AllocBegins
<1>4. StateOK'
  <2>1. ncalls' \in Nat
    BY <1>0, <1>1 DEF StateOK
  <2> QED
    BY <1>0, <1>1, <1>3, <2>1 DEF StateOK
<1>a. Only(p)
  BY <1>1, <1>3 DEF Only
<1>5. Roots' \subseteq Roots /\ Stacks' = Stacks /\ pgdir'[p] = pgdir[p]
  BY <1>0, <1>1, <1>3, <1>a, RootsKept, RootsAre DEF Stacks
<1>6. Woods(heap', Roots', Stacks')
  BY <1>0, <1>1, <1>5, WoodsLess
<1>7. Apart' /\ StacksApart' /\ Reserved'
  <2>1. Growing(p)' /\ ~Building(p)'
    BY <1>3 DEF Growing, Building
  <2>2. Apart'
    BY <1>0, <1>3, <1>5, <1>a, <2>1, ApartKept
  <2> QED
    BY <1>0, <1>1, <1>3, <1>a, <2>2, ReservedKept DEF StacksApart
<1>8. Own(p)'
  <2>1. Growing(p)' /\ More(p)' = {} /\ ~Growing(p)
    BY <1>0, <1>1, <1>2, <1>3, NoLocalIs DEF Growing, More, Living
  <2>2. PageUp(sz[p]) <= PageUp(sz[p] + n)
    BY <1>1, <1>2, PageUpGrows
  <2>3. Living(p)'
    BY <1>0, <1>1, <1>3 DEF Living, Growing
  <2>4. Imaged(p)'
    BY <1>0, <1>1, <2>1 DEF Imaged
  <2>5. BrkGrows(p)'
    <3>1. sz[p] + n \in sz[p] .. UADDR_SZ - 1 /\ sz'[p] = sz[p]
      BY <1>1, <1>2
    <3> QED
      BY <1>2, <1>3, <2>1, <2>2, <3>1 DEF BrkGrows
  <2> QED
    BY <1>3, <2>1, <2>3, <2>4, <2>5 DEF Own, Copies, Loads, ExecGrows
<1>9. \A q \in Proc : q # p => Own(q)'
  <2>1. \A e : SameView(heap, heap', e)
    BY <1>1 DEF SameView
  <2> QED
    BY <1>0, <1>1, <1>a, <2>1, OthersKept
<1> QED
  BY <1>4, <1>6, <1>7, <1>8, <1>9 DEF IInv

(* Giving up pages of one address space.                                   *)
LEMMA DeallocWoods ==
    ASSUME NEW h, NEW R, NEW K, Woods(h, R, K), NEW d \in R,
           NEW old \in 0 .. UADDR_SZ - 1, NEW new, NEW g, g = Deallocuvm(h, d, old, new),
           NEW gone, gone = Visited(h, d, old, new)
    PROVE  /\ Woods(g, R, K)
           /\ \A e \in R : e # d => SameView(h, g, e)
           /\ Mapped(g, d) = Mapped(h, d) \ gone
           /\ Closed(g, d) = Closed(h, d) \ gone
           /\ gone \subseteq Pages(old) \ Pages(new)
<1>1. gone \subseteq Pages(old) \ Pages(new)
  BY DEF Visited
<1>2. Visited(h, d, old, new) \subseteq VPage
  BY <1>1, PagesBelow
<1>3. PICK L \in SUBSET Page : Forest(h, R, K, L)
  BY DEF Woods
<1> QED
  BY <1>1, <1>2, <1>3, DeallocUnmaps

(* A brk that shrinks.                                                     *)
LEMMA BrkShrinkKeeps ==
    ASSUME IInv, NEW p \in Proc, BrkShrink(p)
    PROVE  IInv'
<1>0. /\ StateOK /\ Woods(heap, Roots, Stacks) /\ Apart /\ StacksApart /\ Reserved /\ Living(p)
      /\ Imaged(p) /\ \A q \in Proc : Own(q)
  BY InvParts
<1>1. PICK n \in Brk :
         /\ n < 0 /\ sz[p] + n >= 0 /\ pc[p] = "user" /\ ncalls' = ncalls + 1
         /\ heap' = Deallocuvm(heap, pgdir[p], sz[p], sz[p] + n)
         /\ sz' = [sz EXCEPT ![p] = IF sz[p] + n = 0 THEN @ ELSE sz[p] + n]
         /\ LET gone == Visited(heap, pgdir[p], sz[p], sz[p] + n) IN
            IF sz[p] + n = 0
            THEN Lost(p, holes[p] \cup gone, stale[p], guard[p] \ gone)
            ELSE Lost(p, holes[p] \cap Pages(sz[p] + n),
                      (stale[p] \cup (Pages(sz[p]) \ (Pages(sz[p] + n) \cup holes[p]))) \ gone,
                      guard[p] \ gone)
         /\ UNCHANGED <<kstack, pgdir, pc, loc>>
  BY DEF BrkShrink, Called
<1>2. PICK new : new = sz[p] + n
  OBVIOUS
<1>3. PICK gone : gone = Visited(heap, pgdir[p], sz[p], new)
  OBVIOUS
<1>4. /\ new \in Nat /\ new <= sz[p] /\ new \in 0 .. UADDR_SZ - 1 /\ sz[p] \in 0 .. UADDR_SZ - 1 /\ sz[p] \in Nat
      /\ holes[p] \subseteq VPage /\ stale[p] \subseteq VPage /\ guard[p] \subseteq VPage
      /\ pgdir[p] \in Roots /\ pgdir[p] # 0 /\ loc[p] = NoLocal
  <2>1. n \in Int
    BY MemoryAssumption DEF MemoryAssumption
  <2>2. /\ sz[p] \in 0 .. UADDR_SZ - 1 /\ sz[p] \in Nat /\ UADDR_SZ \in Nat
        /\ holes[p] \subseteq VPage /\ stale[p] \subseteq VPage /\ guard[p] \subseteq VPage
    BY <1>0, Typed
  <2>3. pgdir[p] \in Roots /\ pgdir[p] # 0 /\ loc[p] = NoLocal
    BY <1>0, <1>1, InvParts DEF Living
  <2> QED
    BY <1>1, <1>2, <2>1, <2>2, <2>3
<1>5. /\ Woods(heap', Roots, Stacks)
      /\ \A e \in Roots : e # pgdir[p] => SameView(heap, heap', e)
      /\ Mapped(heap', pgdir[p]) = Mapped(heap, pgdir[p]) \ gone
      /\ Closed(heap', pgdir[p]) = Closed(heap, pgdir[p]) \ gone
      /\ gone \subseteq Pages(sz[p]) \ Pages(new)
  BY <1>0, <1>1, <1>2, <1>3, <1>4, DeallocWoods
<1>6. Pages(new) \subseteq Pages(sz[p]) /\ Pages(sz[p]) \subseteq VPage
  BY <1>4, PageUpGrows, PagesBelow
<1>7. /\ sz'[p] = (IF new = 0 THEN sz[p] ELSE new)
      /\ holes'[p] = (IF new = 0 THEN holes[p] \cup gone ELSE holes[p] \cap Pages(new))
      /\ stale'[p] = (IF new = 0 THEN stale[p]
                      ELSE (stale[p] \cup (Pages(sz[p]) \ (Pages(new) \cup holes[p]))) \ gone)
      /\ guard'[p] = guard[p] \ gone
      /\ Only(p)
  BY <1>0, <1>1, <1>2, <1>3 DEF Lost, StateOK, Only
<1>8. StateOK'
  <2>1. heap' \in Heap
    BY <1>5 DEF Woods, Forest
  <2>2. sz' \in [Proc -> 0 .. UADDR_SZ - 1] /\ ncalls' \in Nat
    BY <1>0, <1>1, <1>2, <1>4 DEF StateOK
  <2>3. holes'[p] \in SUBSET VPage /\ stale'[p] \in SUBSET VPage /\ guard'[p] \in SUBSET VPage
    BY <1>4, <1>5, <1>6, <1>7
  <2>4. /\ holes' \in [Proc -> SUBSET VPage] /\ stale' \in [Proc -> SUBSET VPage]
        /\ guard' \in [Proc -> SUBSET VPage]
    BY <1>0, <1>1, <2>3 DEF Lost, StateOK
  <2> QED
    BY <1>0, <1>1, <2>1, <2>2, <2>4 DEF StateOK, Heap
<1>9. Roots' = Roots /\ Stacks' = Stacks
  BY <1>1 DEF Roots, Stacks
<1>10. Apart' /\ StacksApart' /\ Reserved'
  BY <1>0, <1>1 DEF Apart, StacksApart, Reserved, Growing, Building
<1>11. Own(p)'
  <2>1. ~Growing(p) /\ ~Growing(p)'
    BY <1>1, <1>4, NoLocalIs DEF Growing
  <2>2. Living(p)'
    BY <1>0, <1>1 DEF Living, Growing, Building
  <2>3. Imaged(p)'
    <3>1. /\ Mapped(heap, pgdir[p]) = (Pages(sz[p]) \ holes[p]) \cup stale[p]
          /\ Pages(sz[p]) \cap stale[p] = {} /\ holes[p] \subseteq Pages(sz[p])
          /\ Closed(heap, pgdir[p]) = guard[p]
      BY <1>0, <1>4, <2>1 DEF Imaged
    <3>2. CASE new = 0
      <4>1. /\ Mapped(heap', pgdir[p]) = (Pages(sz[p]) \ (holes[p] \cup gone)) \cup stale[p]
            /\ holes[p] \cup gone \subseteq Pages(sz[p])
        BY <1>5, <3>1
      <4> QED
        BY <1>1, <1>5, <1>7, <2>1, <3>1, <3>2, <4>1 DEF Imaged
    <3>3. CASE new # 0
      <4> DEFINE st == (stale[p] \cup (Pages(sz[p]) \ (Pages(new) \cup holes[p]))) \ gone
      <4>1. /\ Mapped(heap', pgdir[p]) = (Pages(new) \ (holes[p] \cap Pages(new))) \cup st
            /\ Pages(new) \cap st = {}
        BY <1>5, <1>6, <3>1
      <4> QED
        BY <1>1, <1>5, <1>7, <2>1, <3>1, <3>3, <4>1 DEF Imaged
    <3> QED
      BY <3>2, <3>3
  <2> QED
    BY <1>1, <2>1, <2>2, <2>3 DEF Own, BrkGrows, Copies, Loads, ExecGrows
<1>12. \A q \in Proc : q # p => Own(q)'
  BY <1>0, <1>1, <1>5, <1>7, OthersKept
<1> QED
  BY <1>5, <1>8, <1>9, <1>10, <1>11, <1>12 DEF IInv

(* One page of a brk or an execve that grows.                              *)
LEMMA GrowPageKeeps ==
    ASSUME IInv, NEW p \in Proc, GrowPage(p)
    PROVE  IInv'
<1>0. /\ StateOK /\ Woods(heap, Roots, Stacks) /\ Apart /\ StacksApart /\ Reserved /\ Living(p)
      /\ Imaged(p) /\ BrkGrows(p) /\ ExecGrows(p) /\ \A q \in Proc : Own(q)
  BY InvParts
<1> DEFINE l == loc[p]
           a == l.a
           n == NextPage(heap)
<1>1. /\ pc[p] = "grow" /\ a * PGSIZE < l.new /\ n # 0
      /\ UNCHANGED <<kstack, pgdir, sz, holes, stale, guard, ncalls>>
  BY DEF GrowPage
<1>2. /\ a \in Nat /\ l.old \in Nat /\ l.new \in Nat /\ sz[p] \in Nat /\ sz[p] \in 0 .. UADDR_SZ - 1
      /\ UADDR_SZ \in Nat /\ l \in Local /\ l.holes \subseteq VPage
  BY <1>0, Typed
<1>3. /\ l.pd # 0 /\ l.pd \in Roots /\ l.then # "none" /\ pgdir[p] # 0 /\ pgdir[p] \in Roots
      /\ Growing(p) => l.pd = pgdir[p]
      /\ ~Growing(p) => l.pd # pgdir[p]
  BY <1>0, <1>1, RootsAre DEF Living, Apart, Building
<1>4. /\ l.new \in 0 .. UADDR_SZ - 1 /\ a < PageUp(l.new) /\ a \in VPage /\ PageUp(l.new) \in Nat
  <2>1. l.new < UADDR_SZ
    BY <1>0, <1>1, <1>2 DEF BrkGrows, ExecGrows
  <2>2. l.new \in 0 .. UADDR_SZ - 1
    BY <1>2, <2>1
  <2>3. a \in Pages(l.new)
    BY <1>1, <1>2, <2>2, PagesBelow
  <2>4. PageUp(l.new) \in Nat
    BY <1>2, PageUpIs
  <2>5. a < PageUp(l.new)
    BY <2>3, <2>4 DEF Pages
  <2> QED
    BY <1>2, <2>2, <2>4, <2>5, PagesBelow
<1>5. CASE Pte(heap, l.pd, a) # 0
  <2>1. heap' = Kalloc(heap) /\ Goto(p, "mapped") /\ UNCHANGED loc
    BY <1>1, <1>5 DEF GrowPage
  <2>2. pc' \in [Proc -> PC] /\ pc'[p] = "mapped" /\ Only(p)
    <3>1. "mapped" \in PC
      BY DEF PC
    <3> QED
      BY <1>0, <1>1, <2>1, <3>1, GotoIs DEF Only
  <2>3. /\ Woods(heap', Roots, Stacks \cup {n}) /\ \A e : SameView(heap, heap', e)
    BY <1>0, <1>1, <2>1, KallocViews
  <2>4. Roots' = Roots /\ Stacks' = Stacks
    BY <1>1, <2>1 DEF Roots, Stacks
  <2>5. Woods(heap', Roots', Stacks')
    BY <2>3, <2>4, WoodsLess
  <2>6. StateOK'
    <3>1. heap' \in Heap
      BY <2>5 DEF Woods, Forest
    <3> QED
      BY <1>0, <1>1, <2>1, <2>2, <3>1 DEF StateOK, Heap
  <2>7. Apart' /\ StacksApart' /\ Reserved'
    <3>1. Apart' /\ StacksApart'
      BY <1>0, <1>1, <2>1 DEF Apart, StacksApart, Growing, Building
    <3> QED
      BY <1>0, <1>1, <2>2, <3>1, ReservedKept
  <2>8. Own(p)'
    <3>1. (Growing(p)' <=> Growing(p)) /\ More(p)' = More(p)
      BY <1>1, <2>1 DEF Growing, More
    <3>2. Living(p)'
      BY <1>0, <1>1, <1>3, <2>1, <2>2 DEF Living, Growing
    <3>3. Imaged(p)'
      BY <1>0, <1>1, <2>1, <2>3, <3>1 DEF Imaged, SameView
    <3> QED
      BY <2>2, <3>2, <3>3 DEF Own, BrkGrows, Copies, Loads, ExecGrows
  <2>9. \A q \in Proc : q # p => Own(q)'
    BY <1>0, <1>1, <2>2, <2>3, OthersKept
  <2> QED
    BY <2>5, <2>6, <2>7, <2>8, <2>9 DEF IInv
<1>6. CASE Pte(heap, l.pd, a) = 0
  <2> DEFINE lost == Unmappable(Kalloc(heap), l.pd, a)
  <2>1. /\ heap' = Map_region(Kalloc(heap), l.pd, a, n)
        /\ Locally(p, [l EXCEPT !.a = @ + 1, !.holes = IF lost THEN @ \cup {a} ELSE @])
        /\ UNCHANGED pc
    BY <1>1, <1>6 DEF GrowPage
  <2>2. PICK r : r = [l EXCEPT !.a = @ + 1, !.holes = IF lost THEN @ \cup {a} ELSE @]
    OBVIOUS
  <2>3. /\ r = [then |-> r.then, pd |-> r.pd, a |-> r.a, old |-> r.old, new |-> r.new,
                sz |-> r.sz, segs |-> r.segs, child |-> r.child, holes |-> r.holes]
        /\ r.then = l.then /\ r.pd = l.pd /\ r.a = a + 1 /\ r.old = l.old /\ r.new = l.new
        /\ r.sz = l.sz /\ r.segs = l.segs /\ r.child = l.child
        /\ r.holes = IF lost THEN l.holes \cup {a} ELSE l.holes
    BY <1>2, <2>2 DEF Local
  <2>4. r \in Local
    <3>1. r.a \in Nat /\ r.holes \subseteq VPage
      BY <1>2, <1>4, <2>3
    <3>2. /\ l.then \in {"none", "brk", "load", "args"} /\ l.pd \in 0 .. NPAGE
          /\ l.sz \in 0 .. UADDR_SZ - 1 /\ l.segs \in Seq(Segment) /\ l.child \in Proc
      BY <1>0, Typed
    <3> QED
      BY <1>2, <2>3, <3>1, <3>2, LocalIs
  <2> HIDE DEF l, a, n
  <2>5. loc' \in [Proc -> Local] /\ loc'[p] = r /\ \A q \in Proc : q # p => loc'[q] = loc[q]
    BY <1>0, <2>1, <2>2, <2>4, LocallyIs
  <2>6. /\ Woods(heap', Roots, Stacks)
        /\ \A e \in Roots : e # l.pd => SameView(heap, heap', e)
        /\ Closed(heap', l.pd) = Closed(heap, l.pd)
        /\ lost => Mapped(heap', l.pd) = Mapped(heap, l.pd)
        /\ ~lost => Mapped(heap', l.pd) = Mapped(heap, l.pd) \cup {a}
    BY <1>0, <1>1, <1>3, <1>4, <1>6, <2>1, NewPageMaps DEF n
  <2> HIDE DEF lost
  <2>7. a \notin Mapped(heap, l.pd)
    BY <1>6 DEF Mapped
  <2>8. Only(p) /\ pc'[p] = "grow"
    BY <1>1, <2>1, <2>5 DEF Only
  <2>9. Roots' = Roots /\ Stacks' = Stacks
    <3>1. \A q \in Proc : loc'[q].pd = loc[q].pd
      BY <2>3, <2>5 DEF l
    <3> QED
      BY <1>1, <3>1 DEF Roots, Stacks
  <2>10. StateOK'
    <3>1. heap' \in Heap
      BY <2>6 DEF Woods, Forest
    <3> QED
      BY <1>0, <1>1, <2>1, <2>5, <3>1 DEF StateOK, Heap
  <2>11. (Growing(p)' <=> Growing(p)) /\ (Building(p)' <=> Building(p))
    BY <2>3, <2>5 DEF Growing, Building, l
  <2>12. Apart' /\ StacksApart' /\ Reserved'
    <3>1. Apart'
      BY <1>0, <1>1, <1>3, <2>3, <2>5, <2>8, <2>11, ApartKept DEF Building, l
    <3> QED
      BY <1>0, <1>1, <2>1, <2>8, <3>1, ReservedKept DEF StacksApart
  <2>13. Own(p)'
    <3>1. Living(p)'
      BY <1>0, <1>1, <1>3, <2>1, <2>3, <2>5, <2>11 DEF Living, Growing, l
    <3>2. CASE Growing(p)
      <4>1. /\ Mapped(heap, pgdir[p]) = (Pages(sz[p]) \ holes[p]) \cup stale[p] \cup (More(p) \ l.holes)
            /\ Pages(sz[p]) \cap stale[p] = {} /\ holes[p] \subseteq Pages(sz[p])
            /\ Closed(heap, pgdir[p]) = guard[p]
        BY <1>0, <1>3, <3>2 DEF Imaged, l
      <4>2. /\ l.old = sz[p] /\ l.new \in sz[p] .. UADDR_SZ - 1
            /\ PageUp(sz[p]) <= a /\ a <= PageUp(l.new)
            /\ More(p) \cap stale[p] = {}
            /\ l.holes \subseteq More(p)
        BY <1>0, <1>1, <3>2 DEF BrkGrows, l, a
      <4>3. PageUp(sz[p]) \in Nat
        BY <1>2, PageUpIs
      <4>4. More(p)' = More(p) \cup {a} /\ a \notin More(p)
        <5>1. PageUp(sz[p]) .. (a + 1) - 1 = (PageUp(sz[p]) .. a - 1) \cup {a}
          BY <1>2, <4>2, <4>3
        <5>2. More(p) = PageUp(sz[p]) .. a - 1 /\ More(p)' = PageUp(sz[p]) .. (a + 1) - 1
          BY <1>1, <2>3, <2>5 DEF More, l, a
        <5> QED
          BY <1>2, <5>1, <5>2
      <4>5. a \notin stale[p]
        BY <1>3, <2>7, <3>2, <4>1
      <4>6. Imaged(p)'
        <5>1. Mapped(heap', pgdir[p]) = (Pages(sz[p]) \ holes[p]) \cup stale[p] \cup (More(p)' \ r.holes)
          <6>1. CASE lost
            BY <1>3, <2>3, <2>6, <3>2, <4>1, <4>2, <4>4, <6>1
          <6>2. CASE ~lost
            BY <1>3, <2>3, <2>6, <3>2, <4>1, <4>2, <4>4, <6>2
          <6> QED
            BY <6>1, <6>2
        <5> QED
          BY <1>1, <1>3, <2>5, <2>6, <2>11, <3>2, <4>1, <5>1 DEF Imaged
      <4>7. BrkGrows(p)'
        <5>1. PageUp(sz[p]) <= a + 1 /\ a + 1 <= PageUp(l.new)
          BY <1>2, <1>4, <4>2, <4>3
        <5>2. More(p)' \cap stale[p] = {} /\ r.holes \subseteq More(p)'
          BY <2>3, <4>2, <4>4, <4>5
        <5> QED
          BY <1>1, <2>3, <2>5, <4>2, <5>1, <5>2 DEF BrkGrows
      <4> QED
        BY <2>8, <2>11, <3>1, <3>2, <4>6, <4>7 DEF Own, Copies, Loads, ExecGrows
    <3>3. CASE ~Growing(p)
      <4>1. Imaged(p)'
        BY <1>0, <1>1, <1>3, <2>6, <2>11, <3>3 DEF Imaged, SameView
      <4>2. /\ Mapped(heap, l.pd) = (0 .. a - 1) \ l.holes
            /\ l.holes \subseteq 0 .. a - 1
            /\ Closed(heap, l.pd) = {}
            /\ l.old < UADDR_SZ /\ l.new < UADDR_SZ
            /\ PageUp(l.old) <= a
            /\ l.then = "args" => l.new >= 2 * PGSIZE /\ l.new >= l.old
            /\ l.then = "load" => l.segs # <<>>
        BY <1>0, <1>1, <3>3 DEF ExecGrows, l, a
      <4>3. 0 .. (a + 1) - 1 = (0 .. a - 1) \cup {a} /\ a \notin 0 .. a - 1
        BY <1>2
      <4>4. /\ Mapped(heap', l.pd) = (0 .. (a + 1) - 1) \ r.holes
            /\ r.holes \subseteq 0 .. (a + 1) - 1
        <5> DEFINE A == 0 .. a - 1
                   B == 0 .. (a + 1) - 1
        <5>1. B = A \cup {a} /\ a \notin A /\ Mapped(heap, l.pd) = A \ l.holes /\ l.holes \subseteq A
          BY <4>2, <4>3
        <5> HIDE DEF A, B
        <5>2. Mapped(heap', l.pd) = B \ r.holes /\ r.holes \subseteq B
          <6>1. CASE lost
            BY <2>3, <2>6, <5>1, <6>1
          <6>2. CASE ~lost
            BY <2>3, <2>6, <5>1, <6>2
          <6> QED
            BY <6>1, <6>2
        <5> QED
          BY <5>2 DEF B
      <4>5. PageUp(l.old) \in Nat
        BY <1>2, PageUpIs
      <4>6. ExecGrows(p)'
        <5>1. PageUp(l.old) <= a + 1 /\ a + 1 <= PageUp(l.new)
          BY <1>2, <1>4, <4>2, <4>5
        <5> QED
          BY <2>3, <2>5, <2>6, <4>2, <4>4, <5>1 DEF ExecGrows
      <4> QED
        BY <2>8, <2>11, <3>1, <3>3, <4>1, <4>6 DEF Own, Copies, Loads, BrkGrows
    <3> QED
      BY <3>2, <3>3
  <2>14. \A q \in Proc : q # p => Own(q)'
    BY <1>0, <1>1, <2>6, <2>8, OthersKept DEF l
  <2> QED
    BY <2>6, <2>9, <2>10, <2>12, <2>13, <2>14 DEF IInv
<1> QED
  BY <1>5, <1>6

(* No page is left: what this call has added is given back.                *)
LEMMA GrowNoPageKeeps ==
    ASSUME IInv, NEW p \in Proc, GrowNoPage(p)
    PROVE  IInv'
<1>0. /\ StateOK /\ Woods(heap, Roots, Stacks) /\ Apart /\ StacksApart /\ Reserved /\ Living(p)
      /\ Imaged(p) /\ BrkGrows(p) /\ ExecGrows(p) /\ \A q \in Proc : Own(q)
  BY InvParts
<1> DEFINE l == loc[p]
<1>1. PICK gone : gone = Visited(heap, l.pd, l.new, l.old)
  OBVIOUS
<1>2. /\ pc[p] = "grow" /\ heap' = Deallocuvm(heap, l.pd, l.new, l.old)
      /\ UNCHANGED <<kstack, pgdir, sz, ncalls>>
  BY DEF GrowNoPage
<1>3. /\ l.a \in Nat /\ l.old \in Nat /\ l.new \in Nat /\ sz[p] \in Nat /\ sz[p] \in 0 .. UADDR_SZ - 1
      /\ UADDR_SZ \in Nat /\ l.holes \subseteq VPage
      /\ holes[p] \subseteq VPage /\ stale[p] \subseteq VPage /\ guard[p] \subseteq VPage
  BY <1>0, Typed
<1>4. /\ l.pd # 0 /\ l.pd \in Roots /\ l.then # "none" /\ pgdir[p] # 0 /\ pgdir[p] \in Roots
      /\ Growing(p) => l.pd = pgdir[p]
      /\ ~Growing(p) => l.pd # pgdir[p]
  BY <1>0, <1>2, RootsAre DEF Living, Apart, Building
<1>5. l.new \in 0 .. UADDR_SZ - 1
  <2>1. l.new < UADDR_SZ
    BY <1>0, <1>2, <1>3 DEF BrkGrows, ExecGrows
  <2> QED
    BY <1>3, <2>1
<1>6. /\ Woods(heap', Roots, Stacks)
      /\ \A e \in Roots : e # l.pd => SameView(heap, heap', e)
      /\ Mapped(heap', l.pd) = Mapped(heap, l.pd) \ gone
      /\ Closed(heap', l.pd) = Closed(heap, l.pd) \ gone
      /\ gone \subseteq Pages(l.new) \ Pages(l.old)
  <2> HIDE DEF l
  <2> QED
    BY <1>0, <1>1, <1>2, <1>4, <1>5, DeallocWoods
<1>7. heap' \in Heap
  BY <1>6 DEF Woods, Forest
<1>8. Stacks' = Stacks
  BY <1>2 DEF Stacks
<1>9. CASE Growing(p)
  <2>1. /\ Lost(p, holes[p], (stale[p] \cup ((PageUp(l.old) .. l.a - 1) \ l.holes)) \ gone, guard[p] \ gone)
        /\ Goto(p, "user") /\ Locally(p, NoLocal)
    BY <1>1, <1>9 DEF GrowNoPage, Growing
  <2>2. /\ pc' \in [Proc -> PC] /\ pc'[p] = "user" /\ loc' \in [Proc -> Local] /\ loc'[p] = NoLocal
        /\ \A q \in Proc : q # p => loc'[q] = loc[q] /\ pc'[q] = pc[q]
    <3>1. "user" \in PC
      BY DEF PC
    <3> QED
      BY <1>0, <2>1, <3>1, NoLocalIs, GotoIs, LocallyIs
  <2>3. /\ l.old = sz[p] /\ PageUp(sz[p]) <= l.a /\ l.a <= PageUp(l.new)
        /\ More(p) \cap stale[p] = {} /\ l.holes \subseteq More(p)
    BY <1>0, <1>2, <1>9 DEF BrkGrows
  <2>4. /\ holes'[p] = holes[p] /\ stale'[p] = (stale[p] \cup (More(p) \ l.holes)) \ gone
        /\ guard'[p] = guard[p] \ gone /\ Only(p)
    BY <1>0, <1>2, <2>1, <2>2, <2>3 DEF Lost, StateOK, Only, More
  <2>5. PageUp(sz[p]) \in Nat /\ PageUp(l.new) \in Nat
    BY <1>3, PageUpIs
  <2>6. More(p) \subseteq VPage /\ More(p) \cap Pages(sz[p]) = {}
    <3>1. \A k \in More(p) : k \in Nat /\ k < PageUp(l.new) /\ k \notin Pages(sz[p])
      BY <1>3, <2>3, <2>5 DEF More, Pages
    <3> QED
      BY <1>5, <3>1, PagesBelow
  <2>7. StateOK'
    <3>1. stale'[p] \in SUBSET VPage /\ guard'[p] \in SUBSET VPage
      BY <1>3, <2>4, <2>6
    <3>2. /\ holes' \in [Proc -> SUBSET VPage] /\ stale' \in [Proc -> SUBSET VPage]
          /\ guard' \in [Proc -> SUBSET VPage]
      BY <1>0, <2>1, <3>1 DEF Lost, StateOK
    <3> QED
      BY <1>0, <1>2, <1>7, <2>2, <3>2 DEF StateOK, Heap
  <2>8. Roots' \subseteq Roots /\ pgdir'[p] = pgdir[p]
    BY <1>2, <1>4, <2>2, <2>4, NoLocalIs, RootsKept
  <2>9. Woods(heap', Roots', Stacks')
    BY <1>6, <1>8, <2>8, WoodsLess
  <2>10. ~Growing(p)' /\ ~Building(p)'
    BY <2>2, NoLocalIs DEF Growing, Building
  <2>11. Apart' /\ StacksApart' /\ Reserved'
    <3>1. Apart'
      BY <1>0, <2>2, <2>4, <2>8, <2>10, NoLocalIs, ApartKept
    <3> QED
      BY <1>0, <1>2, <2>2, <2>4, <3>1, ReservedKept DEF StacksApart
  <2>12. Own(p)'
    <3>1. Living(p)'
      BY <1>0, <1>2, <1>4, <2>2, <2>10 DEF Living, Growing
    <3>2. Imaged(p)'
      <4>1. /\ Mapped(heap, pgdir[p]) = (Pages(sz[p]) \ holes[p]) \cup stale[p] \cup (More(p) \ l.holes)
            /\ Pages(sz[p]) \cap stale[p] = {} /\ holes[p] \subseteq Pages(sz[p])
            /\ Closed(heap, pgdir[p]) = guard[p]
        BY <1>0, <1>4, <1>9 DEF Imaged
      <4>2. gone \cap Pages(sz[p]) = {}
        BY <1>6, <2>3
      <4>3. /\ Mapped(heap', pgdir[p]) = (Pages(sz[p]) \ holes[p]) \cup stale'[p]
            /\ Pages(sz[p]) \cap stale'[p] = {}
        BY <1>4, <1>6, <1>9, <2>4, <2>6, <4>1, <4>2
      <4> QED
        BY <1>2, <1>4, <1>6, <1>9, <2>4, <2>10, <4>1, <4>3 DEF Imaged
    <3> QED
      BY <2>2, <2>10, <3>1, <3>2 DEF Own, BrkGrows, Copies, Loads, ExecGrows
  <2>13. \A q \in Proc : q # p => Own(q)'
    BY <1>0, <1>2, <1>6, <2>4, OthersKept
  <2> QED
    BY <2>7, <2>9, <2>11, <2>12, <2>13 DEF IInv
<1>10. CASE ~Growing(p)
  <2>1. Goto(p, "bad") /\ UNCHANGED <<loc, holes, stale, guard>>
    BY <1>10 DEF GrowNoPage, Growing
  <2>2. pc' \in [Proc -> PC] /\ pc'[p] = "bad" /\ Only(p)
    <3>1. "bad" \in PC
      BY DEF PC
    <3> QED
      BY <1>0, <1>2, <2>1, <3>1, GotoIs DEF Only
  <2>3. Roots' = Roots
    BY <1>2, <2>1 DEF Roots
  <2>4. StateOK'
    BY <1>0, <1>2, <1>7, <2>1, <2>2 DEF StateOK, Heap
  <2>5. Apart' /\ StacksApart' /\ Reserved'
    <3>1. Apart' /\ StacksApart'
      BY <1>0, <1>2, <2>1 DEF Apart, StacksApart, Growing, Building
    <3> QED
      BY <1>0, <1>2, <2>2, <3>1, ReservedKept
  <2>6. Own(p)'
    <3>1. ~Growing(p)' /\ Building(p)'
      BY <1>4, <1>10, <2>1 DEF Growing, Building
    <3>2. Living(p)'
      BY <1>0, <1>2, <1>4, <2>2, <3>1 DEF Living
    <3>3. Imaged(p)'
      BY <1>0, <1>2, <1>4, <1>6, <1>10, <2>1, <3>1 DEF Imaged, SameView
    <3> QED
      BY <2>2, <3>2, <3>3 DEF Own, BrkGrows, Copies, Loads, ExecGrows
  <2>7. \A q \in Proc : q # p => Own(q)'
    BY <1>0, <1>2, <1>6, <2>2, OthersKept
  <2> QED
    BY <1>6, <1>8, <2>3, <2>4, <2>5, <2>6, <2>7 DEF IInv
<1> QED
  BY <1>9, <1>10

(* The last page of a brk or an execve that grows.                         *)
LEMMA GrowDoneKeeps ==
    ASSUME IInv, NEW p \in Proc, GrowDone(p)
    PROVE  IInv'
<1>0. /\ StateOK /\ Woods(heap, Roots, Stacks) /\ Apart /\ StacksApart /\ Reserved /\ Living(p)
      /\ Imaged(p) /\ BrkGrows(p) /\ ExecGrows(p) /\ \A q \in Proc : Own(q)
  BY InvParts
<1> DEFINE l == loc[p]
<1>1. /\ pc[p] = "grow" /\ l.a * PGSIZE >= l.new
      /\ UNCHANGED <<heap, kstack, pgdir, stale, guard, ncalls>>
  BY DEF GrowDone
<1>2. /\ l.a \in Nat /\ l.old \in Nat /\ l.new \in Nat /\ sz[p] \in Nat /\ sz[p] \in 0 .. UADDR_SZ - 1
      /\ UADDR_SZ \in Nat /\ l.holes \subseteq VPage /\ l \in Local /\ PGSIZE \in Nat
      /\ holes[p] \subseteq VPage /\ PageUp(l.old) \in Nat /\ PageUp(l.new) \in Nat
  BY <1>0, Typed, PageUpIs
<1>3. /\ l.pd # 0 /\ l.then # "none" /\ pgdir[p] # 0
      /\ Growing(p) => l.pd = pgdir[p]
      /\ ~Growing(p) => l.pd # pgdir[p]
  BY <1>0, <1>1 DEF Living, Apart, Building
<1>4. PageUp(l.new) <= l.a
  <2>1. l.new <= l.a * PGSIZE
    <3>1. l.a * PGSIZE \in Nat
      BY <1>2
    <3> QED
      BY <1>1, <1>2, <3>1
  <2> QED
    BY <1>2, <2>1, PageUpIs
<1>5. Stacks' = Stacks
  BY <1>1 DEF Stacks
<1>6. \A e : SameView(heap, heap', e)
  BY <1>1 DEF SameView
<1>7. CASE Growing(p)
  <2>1. /\ sz' = [sz EXCEPT ![p] = Grown(p)]
        /\ holes' = [holes EXCEPT ![p] = @ \cup l.holes]
        /\ Goto(p, "user") /\ Locally(p, NoLocal)
    BY <1>7 DEF GrowDone, Growing
  <2>2. /\ pc' \in [Proc -> PC] /\ pc'[p] = "user" /\ loc' \in [Proc -> Local] /\ loc'[p] = NoLocal
        /\ \A q \in Proc : q # p => loc'[q] = loc[q] /\ pc'[q] = pc[q]
    <3>1. "user" \in PC
      BY DEF PC
    <3> QED
      BY <1>0, <2>1, <3>1, NoLocalIs, GotoIs, LocallyIs
  <2>3. /\ l.old = sz[p] /\ l.new \in sz[p] .. UADDR_SZ - 1 /\ PageUp(sz[p]) <= l.a /\ l.a = PageUp(l.new)
        /\ More(p) \cap stale[p] = {} /\ l.holes \subseteq More(p)
    BY <1>0, <1>1, <1>2, <1>4, <1>7 DEF BrkGrows
  <2>4. Grown(p) = l.new /\ l.new \in 0 .. UADDR_SZ - 1
    BY <1>2, <2>3 DEF Grown
  <2>5. /\ sz'[p] = l.new /\ holes'[p] = holes[p] \cup l.holes /\ Only(p)
        /\ stale'[p] = stale[p] /\ guard'[p] = guard[p] /\ pgdir'[p] = pgdir[p]
    BY <1>0, <1>1, <2>1, <2>2, <2>4 DEF StateOK, Only
  <2>6. StateOK'
    <3>1. /\ sz' \in [Proc -> 0 .. UADDR_SZ - 1] /\ holes' \in [Proc -> SUBSET VPage]
      BY <1>0, <1>2, <2>1, <2>4 DEF StateOK
    <3> QED
      BY <1>0, <1>1, <2>2, <3>1 DEF StateOK
  <2>7. Roots' \subseteq Roots
    BY <1>3, <2>2, <2>5, NoLocalIs, RootsKept, RootsAre
  <2>8. Woods(heap', Roots', Stacks')
    BY <1>0, <1>1, <1>5, <2>7, WoodsLess
  <2>9. ~Growing(p)' /\ ~Building(p)'
    BY <2>2, NoLocalIs DEF Growing, Building
  <2>10. Apart' /\ StacksApart' /\ Reserved'
    <3>1. Apart'
      BY <1>0, <2>2, <2>5, <2>9, NoLocalIs, ApartKept
    <3> QED
      BY <1>0, <1>1, <2>2, <2>5, <3>1, ReservedKept DEF StacksApart
  <2>11. Own(p)'
    <3>1. Living(p)'
      BY <1>0, <1>1, <1>3, <2>2, <2>9 DEF Living
    <3>2. Imaged(p)'
      <4>1. /\ Mapped(heap, pgdir[p]) = (Pages(sz[p]) \ holes[p]) \cup stale[p] \cup (More(p) \ l.holes)
            /\ Pages(sz[p]) \cap stale[p] = {} /\ holes[p] \subseteq Pages(sz[p])
            /\ Closed(heap, pgdir[p]) = guard[p]
        BY <1>0, <1>3, <1>7 DEF Imaged
      <4>2. Pages(l.new) = Pages(sz[p]) \cup More(p) /\ More(p) \cap Pages(sz[p]) = {}
        <5>1. PageUp(sz[p]) \in Nat
          BY <1>2, PageUpIs
        <5> QED
          BY <1>2, <2>3, <5>1 DEF More, Pages
      <4>3. /\ Mapped(heap, pgdir[p]) = (Pages(l.new) \ (holes[p] \cup l.holes)) \cup stale[p]
            /\ Pages(l.new) \cap stale[p] = {}
            /\ holes[p] \cup l.holes \subseteq Pages(l.new)
        BY <2>3, <4>1, <4>2
      <4> QED
        BY <1>1, <2>5, <2>9, <4>1, <4>3 DEF Imaged
    <3> QED
      BY <2>2, <2>9, <3>1, <3>2 DEF Own, BrkGrows, Copies, Loads, ExecGrows
  <2>12. \A q \in Proc : q # p => Own(q)'
    BY <1>0, <1>1, <1>6, <2>5, OthersKept
  <2> QED
    BY <2>6, <2>8, <2>10, <2>11, <2>12 DEF IInv
<1>8. CASE ~Growing(p)
  <2>1. Goto(p, l.then) /\ Locally(p, [l EXCEPT !.sz = Grown(p)]) /\ UNCHANGED <<sz, holes>>
    BY <1>8 DEF GrowDone, Growing
  <2>2. /\ Mapped(heap, l.pd) = (0 .. l.a - 1) \ l.holes
        /\ l.holes \subseteq 0 .. l.a - 1
        /\ Closed(heap, l.pd) = {}
        /\ l.old < UADDR_SZ /\ l.new < UADDR_SZ
        /\ PageUp(l.old) <= l.a
        /\ l.a > PageUp(l.old) => l.a <= PageUp(l.new)
        /\ l.then = "args" => l.new >= 2 * PGSIZE /\ l.new >= l.old
        /\ l.then = "load" => l.segs # <<>>
    BY <1>0, <1>1, <1>8 DEF ExecGrows
  <2>3. Grown(p) \in 0 .. UADDR_SZ - 1 /\ l.a = PageUp(Grown(p))
    <3>1. CASE l.new < l.old
      <4>1. Grown(p) = l.old
        BY <3>1 DEF Grown
      <4>2. PageUp(l.new) <= PageUp(l.old)
        BY <1>2, <3>1, PageUpGrows
      <4> QED
        BY <1>2, <1>4, <2>2, <4>1, <4>2
    <3>2. CASE ~(l.new < l.old)
      <4>1. Grown(p) = l.new
        BY <3>2 DEF Grown
      <4>2. PageUp(l.old) <= PageUp(l.new)
        BY <1>2, <3>2, PageUpGrows
      <4> QED
        BY <1>2, <1>4, <2>2, <4>1, <4>2
    <3> QED
      BY <3>1, <3>2
  <2>4. l.then = "args" => Grown(p) >= 2 * PGSIZE
    BY <1>2, <2>2 DEF Grown
  <2>5. PICK r : r = [l EXCEPT !.sz = Grown(p)]
    OBVIOUS
  <2>6. /\ r = [then |-> r.then, pd |-> r.pd, a |-> r.a, old |-> r.old, new |-> r.new,
                sz |-> r.sz, segs |-> r.segs, child |-> r.child, holes |-> r.holes]
        /\ r.then = l.then /\ r.pd = l.pd /\ r.a = l.a /\ r.old = l.old /\ r.new = l.new
        /\ r.sz = Grown(p) /\ r.segs = l.segs /\ r.child = l.child /\ r.holes = l.holes
    BY <1>2, <2>5 DEF Local
  <2>7. r \in Local
    <3>1. /\ l.then \in {"none", "brk", "load", "args"} /\ l.pd \in 0 .. NPAGE
          /\ l.segs \in Seq(Segment) /\ l.child \in Proc
      BY <1>0, Typed
    <3> QED
      BY <1>2, <2>3, <2>6, <3>1, LocalIs
  <2>8. /\ loc' \in [Proc -> Local] /\ loc'[p] = r /\ \A q \in Proc : q # p => loc'[q] = loc[q]
    BY <1>0, <2>1, <2>5, <2>7, LocallyIs
  <2>9. l.then \in {"load", "args"} /\ l.then \in PC
    BY <1>0, <1>3, <1>8, Typed DEF Growing, PC
  <2>10. pc' \in [Proc -> PC] /\ pc'[p] = l.then /\ Only(p)
    BY <1>0, <1>1, <2>1, <2>8, <2>9, GotoIs DEF Only
  <2>11. Roots' = Roots
    <3>1. \A q \in Proc : loc'[q].pd = loc[q].pd
      BY <2>6, <2>8
    <3> QED
      BY <1>1, <3>1 DEF Roots
  <2>12. StateOK'
    BY <1>0, <1>1, <2>1, <2>8, <2>10 DEF StateOK
  <2>13. ~Growing(p)' /\ Building(p)'
    BY <1>3, <1>8, <2>6, <2>8 DEF Growing, Building
  <2>14. Apart' /\ StacksApart' /\ Reserved'
    <3>1. Apart'
      BY <1>0, <1>1, <1>3, <1>8, <2>6, <2>8, <2>10, <2>13, ApartKept
    <3> QED
      BY <1>0, <1>1, <2>9, <2>10, <3>1, ReservedKept DEF StacksApart
  <2>15. Own(p)'
    <3>1. Living(p)'
      BY <1>0, <1>1, <1>3, <2>9, <2>10, <2>13 DEF Living
    <3>2. Imaged(p)'
      BY <1>0, <1>1, <1>8, <2>1, <2>13 DEF Imaged
    <3>3. Loads(p)'
      <4>1. 0 .. l.a - 1 = Pages(r.sz)
        BY <2>3, <2>6 DEF Pages
      <4> QED
        BY <1>1, <2>2, <2>4, <2>6, <2>8, <2>10, <4>1 DEF Loads
    <3> QED
      BY <2>9, <2>10, <3>1, <3>2, <3>3 DEF Own, BrkGrows, Copies, ExecGrows
  <2>16. \A q \in Proc : q # p => Own(q)'
    BY <1>0, <1>1, <1>6, <2>10, OthersKept
  <2> QED
    BY <1>0, <1>1, <1>5, <2>11, <2>12, <2>14, <2>15, <2>16 DEF IInv
<1> QED
  BY <1>7, <1>8

-----------------------------------------------------------------------------
(* fork.                                                                   *)

(* A step that only goes elsewhere: to a place of which little is said.    *)
LEMMA GotoKeeps ==
    ASSUME IInv, NEW p \in Proc, pc[p] # "unused", ~Growing(p), ncalls' \in Nat,
           NEW x \in {"nomem", "nopage", "bad", "zombie"}, Goto(p, x),
           x = "bad" => Building(p), x = "zombie" => loc[p] = NoLocal,
           UNCHANGED <<heap, kstack, pgdir, sz, loc, holes, stale, guard>>
    PROVE  IInv'
<1>0. /\ StateOK /\ Woods(heap, Roots, Stacks) /\ Apart /\ StacksApart /\ Reserved /\ Living(p)
      /\ Imaged(p) /\ pgdir[p] # 0 /\ \A q \in Proc : Own(q)
  BY InvParts
<1>1. pc' \in [Proc -> PC] /\ pc'[p] = x /\ Only(p)
  <2>1. x \in PC
    BY DEF PC
  <2> QED
    BY <1>0, <2>1, GotoIs DEF Only
<1>2. Roots' = Roots /\ Stacks' = Stacks
  BY DEF Roots, Stacks
<1>3. StateOK'
  BY <1>0, <1>1 DEF StateOK
<1>4. Apart' /\ StacksApart' /\ Reserved'
  <2>1. Apart' /\ StacksApart'
    BY <1>0 DEF Apart, StacksApart, Growing, Building
  <2> QED
    BY <1>0, <1>1, <2>1, ReservedKept
<1>5. Own(p)'
  <2>1. ~Growing(p)' /\ (Building(p)' <=> Building(p))
    BY DEF Growing, Building
  <2>2. Living(p)'
    BY <1>0, <1>1, <2>1 DEF Living
  <2>3. Imaged(p)'
    BY <1>0, <2>1 DEF Imaged
  <2> QED
    BY <1>1, <2>1, <2>2, <2>3 DEF Own, BrkGrows, Copies, Loads, ExecGrows
<1>6. \A q \in Proc : q # p => Own(q)'
  <2>1. \A e : SameView(heap, heap', e)
    BY DEF SameView
  <2> QED
    BY <1>0, <1>1, <2>1, OthersKept
<1> QED
  BY <1>0, <1>2, <1>3, <1>4, <1>5, <1>6 DEF IInv

(* A fork that begins: the child's stack and page directory.               *)
LEMMA ForkKeeps ==
    ASSUME IInv, NEW p \in Proc, Fork(p)
    PROVE  IInv'
<1>0. /\ StateOK /\ Woods(heap, Roots, Stacks) /\ Apart /\ StacksApart /\ Reserved /\ Living(p)
      /\ Imaged(p) /\ \A q \in Proc : Own(q)
  BY InvParts
<1> DEFINE stack == NextPage(heap)
           h     == Kalloc(heap)
           d     == NextPage(h)
<1>1. PICK q \in Proc :
         /\ pc[q] = "unused" /\ \A r \in Proc : pc[r] = "copy" => loc[r].child # q
         /\ IF d = 0 THEN Goto(p, "nomem") /\ UNCHANGED <<heap, kstack, loc>>
            ELSE /\ heap' = Kalloc(h)
                 /\ kstack' = [kstack EXCEPT ![q] = stack]
                 /\ Goto(p, "copy")
                 /\ Locally(p, [NoLocal EXCEPT !.pd = d, !.child = q])
  BY DEF Fork
<1>2. pc[p] = "user" /\ ncalls' = ncalls + 1 /\ UNCHANGED <<pgdir, sz, holes, stale, guard>>
  BY DEF Fork, Called
<1>3. /\ pgdir[p] # 0 /\ pgdir[p] \in Roots /\ loc[p] = NoLocal /\ kstack[p] # 0 /\ p # q
      /\ ~Growing(p)
  BY <1>0, <1>1, <1>2, RootsAre, NoLocalIs DEF Living, Growing
<1>4. ncalls' \in Nat
  BY <1>0, <1>2 DEF StateOK
<1>5. CASE d = 0
  BY <1>1, <1>2, <1>3, <1>4, <1>5, GotoKeeps
<1>6. CASE d # 0
  <2>1. /\ heap' = Kalloc(h) /\ kstack' = [kstack EXCEPT ![q] = stack]
        /\ Goto(p, "copy") /\ Locally(p, [NoLocal EXCEPT !.pd = d, !.child = q])
    BY <1>1, <1>6
  <2>2. stack # 0
    <3>1. SUFFICES ASSUME stack = 0 PROVE d = 0
      BY <1>6
    <3>2. heap \in Heap
      BY <1>0, Typed
    <3>3. h = heap
      BY <3>1, <3>2, KallocFails
    <3> QED
      BY <3>1, <3>3
  <2>3. /\ Woods(h, Roots, Stacks \cup {stack}) /\ stack \in Page /\ stack \notin Stacks
        /\ \A e : SameView(heap, h, e)
    BY <1>0, <2>2, KallocViews
  <2> HIDE DEF h
  <2>4. /\ Woods(heap', Roots \cup {d}, Stacks \cup {stack}) /\ d \in Page /\ d \notin Roots
        /\ \A e : SameView(h, heap', e)
        /\ Mapped(heap', d) = {} /\ Closed(heap', d) = {}
    BY <1>6, <2>1, <2>3, KallocRoot
  <2>5. \A e : SameView(heap, heap', e)
    BY <2>3, <2>4 DEF SameView
  <2>6. d \in 0 .. NPAGE /\ stack \in 0 .. NPAGE
    BY <2>3, <2>4, MemoryAssumption DEF MemoryAssumption, Page
  <2> HIDE DEF d, stack
  <2>7. PICK r : r = [NoLocal EXCEPT !.pd = d, !.child = q]
    OBVIOUS
  <2>8. /\ r = [then |-> r.then, pd |-> r.pd, a |-> r.a, old |-> r.old, new |-> r.new,
                sz |-> r.sz, segs |-> r.segs, child |-> r.child, holes |-> r.holes]
        /\ r.then = "none" /\ r.pd = d /\ r.a = 0 /\ r.old = 0 /\ r.new = 0
        /\ r.sz = 0 /\ r.segs = <<>> /\ r.child = q /\ r.holes = {}
    BY <2>7 DEF NoLocal
  <2>9. r \in Local
    <3>1. 0 \in 0 .. UADDR_SZ - 1 /\ <<>> \in Seq(Segment)
      BY MemoryAssumption DEF MemoryAssumption
    <3>2. /\ r.then \in {"none", "brk", "load", "args"} /\ r.pd \in 0 .. NPAGE
          /\ r.a \in Nat /\ r.old \in Nat /\ r.new \in Nat /\ r.sz \in 0 .. UADDR_SZ - 1
          /\ r.segs \in Seq(Segment) /\ r.child \in Proc /\ r.holes \subseteq VPage
      BY <2>6, <2>8, <3>1
    <3> QED
      BY <2>8, <3>2, LocalIs
  <2>10. /\ loc' \in [Proc -> Local] /\ loc'[p] = r /\ \A x \in Proc : x # p => loc'[x] = loc[x]
    BY <1>0, <2>1, <2>7, <2>9, LocallyIs
  <2>11. pc' \in [Proc -> PC] /\ pc'[p] = "copy" /\ Only(p)
    <3>1. "copy" \in PC
      BY DEF PC
    <3> QED
      BY <1>0, <1>2, <2>1, <2>10, <3>1, GotoIs DEF Only
  <2>12. kstack' \in [Proc -> 0 .. NPAGE] /\ kstack'[q] = stack /\ \A x \in Proc : x # q => kstack'[x] = kstack[x]
    BY <1>0, <2>1, <2>6 DEF StateOK
  <2>13. StateOK'
    <3>1. heap' \in Heap
      BY <2>4 DEF Woods, Forest
    <3> QED
      BY <1>0, <1>2, <1>4, <2>10, <2>11, <2>12, <3>1 DEF StateOK, Heap
  <2>14. Roots' \subseteq Roots \cup {d} /\ Stacks' \subseteq Stacks \cup {stack}
    <3>1. Stacks' \subseteq Stacks \cup {stack}
      BY <2>12 DEF Stacks
    <3> QED
      BY <1>2, <1>3, <2>8, <2>10, <2>11, <3>1, RootsKept
  <2>15. Woods(heap', Roots', Stacks')
    BY <2>4, <2>14, WoodsLess
  <2>16. ~Growing(p)' /\ Building(p)'
    BY <1>6, <2>8, <2>10 DEF Growing, Building
  <2>17. Apart'
    BY <1>0, <1>2, <1>3, <2>4, <2>8, <2>10, <2>11, <2>16, ApartKept
  <2>18. StacksApart'
    <3>1. \A x \in Proc : x # q => kstack'[x] # stack
      BY <2>2, <2>3, <2>12, RootsAre
    <3> QED
      BY <1>0, <2>12, <3>1 DEF StacksApart
  <2>19. Reserved'
    <3>1. ASSUME NEW x \in Proc, pc'[x] = "copy"
          PROVE  /\ loc'[x].child = q => x = p
                 /\ pc'[loc'[x].child] = "unused" /\ kstack'[loc'[x].child] # 0
                 /\ x # p => pc[x] = "copy" /\ loc'[x] = loc[x]
      <4>1. CASE x = p
        BY <1>1, <1>3, <2>2, <2>8, <2>10, <2>11, <2>12, <4>1 DEF Only
      <4>2. CASE x # p
        <5>1. pc[x] = "copy" /\ loc'[x] = loc[x] /\ loc[x].child # q /\ loc[x].child \in Proc
          BY <1>0, <1>1, <2>11, <3>1, <4>2, Typed DEF Only
        <5>2. pc[loc[x].child] = "unused" /\ kstack[loc[x].child] # 0 /\ loc[x].child # p
          BY <1>0, <1>2, <5>1 DEF Reserved
        <5> QED
          BY <2>11, <2>12, <4>2, <5>1, <5>2 DEF Only
      <4> QED
        BY <4>1, <4>2
    <3>2. ASSUME NEW x \in Proc, NEW y \in Proc, pc'[x] = "copy", pc'[y] = "copy",
                 loc'[y].child = loc'[x].child
          PROVE  x = y
      <4>1. CASE x = p \/ y = p
        BY <2>8, <2>10, <3>1, <3>2, <4>1
      <4>2. CASE x # p /\ y # p
        BY <1>0, <3>1, <3>2, <4>2 DEF Reserved
      <4> QED
        BY <4>1, <4>2
    <3> QED
      BY <3>1, <3>2 DEF Reserved
  <2>20. Own(p)'
    <3>1. Living(p)'
      BY <1>2, <1>3, <2>11, <2>12, <2>16 DEF Living
    <3>2. Imaged(p)'
      BY <1>0, <1>2, <1>3, <2>5, <2>16 DEF Imaged, SameView
    <3>3. Copies(p)'
      <4>1. sz[p] \in Nat
        BY <1>0, Typed
      <4>2. PageUp(sz[p]) \in Nat
        BY <4>1, PageUpIs
      <4>3. /\ loc'[p].a <= PageUp(sz'[p]) /\ 0 .. loc'[p].a - 1 = {}
            /\ Mapped(heap', loc'[p].pd) = {} /\ Closed(heap', loc'[p].pd) = {}
        BY <1>2, <2>4, <2>8, <2>10, <4>2
      <4> QED
        BY <4>3 DEF Copies
    <3> QED
      BY <2>11, <3>1, <3>2, <3>3 DEF Own, BrkGrows, Loads, ExecGrows
  <2>21. \A x \in Proc : x # p => Own(x)'
    BY <1>0, <1>1, <2>5, <2>11, <2>12, OthersKept
  <2> QED
    BY <2>13, <2>15, <2>17, <2>18, <2>19, <2>20, <2>21 DEF IInv
<1> QED
  BY <1>5, <1>6

(* The whole image is copied: the child has it.                            *)
LEMMA CopyDoneKeeps ==
    ASSUME IInv, NEW p \in Proc, CopyDone(p)
    PROVE  IInv'
<1>0. /\ StateOK /\ Woods(heap, Roots, Stacks) /\ Apart /\ StacksApart /\ Reserved /\ Living(p)
      /\ Imaged(p) /\ Copies(p) /\ \A q \in Proc : Own(q)
  BY InvParts
<1> DEFINE l == loc[p]
<1>a. l.child \in Proc
  BY <1>0, Typed
<1>b. PICK q \in Proc : q = l.child
  BY <1>a
<1>1. /\ pc[p] = "copy" /\ l.a * PGSIZE >= sz[p]
      /\ pgdir' = [pgdir EXCEPT ![q] = l.pd]
      /\ sz' = [sz EXCEPT ![q] = sz[p]]
      /\ Lost(q, holes[p], {}, guard[p] \cap Pages(sz[p]))
      /\ pc' = [pc EXCEPT ![p] = "user", ![q] = "user"]
      /\ Locally(p, NoLocal)
      /\ UNCHANGED <<heap, kstack, ncalls>>
  BY <1>b DEF CopyDone
<1>2. /\ q \in Proc /\ l.a \in Nat /\ sz[p] \in Nat /\ sz[p] \in 0 .. UADDR_SZ - 1 /\ PageUp(sz[p]) \in Nat
      /\ l.pd \in 0 .. NPAGE /\ PGSIZE \in Nat
      /\ holes[p] \subseteq VPage /\ guard[p] \subseteq VPage
  BY <1>0, Typed, PageUpIs
<1>3. /\ pc[q] = "unused" /\ kstack[q] # 0
      /\ \A x \in Proc : pc[x] = "copy" /\ loc[x].child = q => p = x
  BY <1>0, <1>1, <1>b DEF Reserved
<1>4. /\ Building(p) /\ l.pd # 0 /\ pgdir[p] # 0 /\ kstack[p] # 0 /\ p # q /\ ~Growing(p)
      /\ pgdir[q] = 0 /\ loc[q] = NoLocal
  <2>1. Living(q)
    BY <1>0, <1>2 DEF Own
  <2> QED
    BY <1>0, <1>1, <1>3, <2>1 DEF Living, Building
<1>5. l.a = PageUp(sz[p])
  <2>1. sz[p] <= l.a * PGSIZE
    <3>1. l.a * PGSIZE \in Nat
      BY <1>2
    <3> QED
      BY <1>1, <1>2, <3>1
  <2>2. PageUp(sz[p]) <= l.a
    BY <1>2, <2>1, PageUpIs
  <2> QED
    BY <1>0, <1>1, <1>2, <2>2 DEF Copies
<1>6. /\ Mapped(heap, l.pd) = Pages(sz[p]) /\ Closed(heap, l.pd) = guard[p] \cap Pages(sz[p])
      /\ holes[p] = {}
  <2>1. Pages(sz[p]) = 0 .. l.a - 1
    BY <1>5 DEF Pages
  <2>2. holes[p] \subseteq Pages(sz[p])
    BY <1>0, <1>4 DEF Imaged
  <2> QED
    BY <1>0, <1>1, <2>1, <2>2 DEF Copies
<1>7. /\ pc' \in [Proc -> PC] /\ pc'[p] = "user" /\ pc'[q] = "user"
      /\ \A x \in Proc : x # p /\ x # q => pc'[x] = pc[x]
  BY <1>0, <1>1, <1>2, <1>4 DEF StateOK, PC
<1>8. /\ loc' \in [Proc -> Local] /\ loc'[p] = NoLocal /\ \A x \in Proc : x # p => loc'[x] = loc[x]
  BY <1>0, <1>1, NoLocalIs, LocallyIs
<1>9. /\ pgdir' \in [Proc -> 0 .. NPAGE] /\ sz' \in [Proc -> 0 .. UADDR_SZ - 1]
      /\ holes' \in [Proc -> SUBSET VPage] /\ stale' \in [Proc -> SUBSET VPage]
      /\ guard' \in [Proc -> SUBSET VPage]
      /\ pgdir'[q] = l.pd /\ sz'[q] = sz[p] /\ holes'[q] = {} /\ stale'[q] = {}
      /\ guard'[q] = guard[p] \cap Pages(sz[p])
      /\ \A x \in Proc : x # q => /\ pgdir'[x] = pgdir[x] /\ sz'[x] = sz[x] /\ holes'[x] = holes[x]
                                  /\ stale'[x] = stale[x] /\ guard'[x] = guard[x]
  BY <1>0, <1>1, <1>2, <1>6 DEF StateOK, Lost
<1>10. StateOK'
  BY <1>0, <1>1, <1>7, <1>8, <1>9 DEF StateOK
<1>11. Roots' \subseteq Roots /\ Stacks' = Stacks
  <2>1. \A x \in Proc : \A d \in {pgdir'[x], loc'[x].pd} : d = 0 \/ d \in Roots
    <3>1. \A x \in Proc : pgdir'[x] \in {pgdir[x], l.pd} /\ loc'[x].pd \in {loc[x].pd, 0}
      BY <1>8, <1>9, NoLocalIs
    <3> QED
      BY <3>1, RootsAre
  <2>2. \A d \in Roots' : d # 0 /\ \E x \in Proc : d \in {pgdir'[x], loc'[x].pd}
    BY DEF Roots
  <2> QED
    BY <1>1, <2>1, <2>2 DEF Stacks
<1>12. Woods(heap', Roots', Stacks')
  BY <1>0, <1>1, <1>11, WoodsLess
<1>13. /\ \A x \in Proc : Growing(x)' => Growing(x) /\ x # p
       /\ \A x \in Proc : Building(x)' => Building(x) /\ x # p /\ x # q
       /\ ~Growing(q)
  BY <1>4, <1>8, NoLocalIs DEF Growing, Building
<1>14. Apart'
  <2> SUFFICES ASSUME NEW x \in Proc, NEW y \in Proc
               PROVE  /\ pgdir'[x] = pgdir'[y] /\ pgdir'[x] # 0 => x = y
                      /\ Growing(x)' => loc'[x].pd = pgdir'[x]
                      /\ Building(x)' => loc'[x].pd # pgdir'[y]
                      /\ Building(x)' /\ Building(y)' /\ loc'[x].pd = loc'[y].pd => x = y
    BY DEF Apart
  <2>1. \A z \in Proc : pgdir[z] # l.pd
    BY <1>0, <1>4 DEF Apart
  <2>2. pgdir'[x] = pgdir'[y] /\ pgdir'[x] # 0 => x = y
    BY <1>0, <1>9, <2>1 DEF Apart
  <2>3. Growing(x)' => loc'[x].pd = pgdir'[x]
    BY <1>0, <1>8, <1>9, <1>13 DEF Apart
  <2>4. Building(x)' => loc'[x].pd # pgdir'[y]
    <3>1. CASE y = q
      BY <1>0, <1>4, <1>8, <1>9, <1>13, <3>1 DEF Apart
    <3>2. CASE y # q
      BY <1>0, <1>8, <1>9, <1>13, <3>2 DEF Apart
    <3> QED
      BY <3>1, <3>2
  <2>5. Building(x)' /\ Building(y)' /\ loc'[x].pd = loc'[y].pd => x = y
    BY <1>0, <1>8, <1>13 DEF Apart
  <2> QED
    BY <2>2, <2>3, <2>4, <2>5
<1>15. StacksApart'
  BY <1>0, <1>1 DEF StacksApart
<1>16. Reserved'
  <2>1. ASSUME NEW x \in Proc, pc'[x] = "copy"
        PROVE  /\ pc[x] = "copy" /\ loc'[x] = loc[x]
               /\ pc'[loc[x].child] = "unused" /\ kstack'[loc[x].child] # 0
    <3>1. x # p /\ x # q /\ pc[x] = "copy" /\ loc'[x] = loc[x] /\ loc[x].child \in Proc
      BY <1>0, <1>7, <1>8, <2>1, Typed
    <3>2. /\ pc[loc[x].child] = "unused" /\ kstack[loc[x].child] # 0
          /\ loc[x].child # q /\ loc[x].child # p
      BY <1>0, <1>1, <1>3, <3>1 DEF Reserved
    <3> QED
      BY <1>1, <1>7, <3>1, <3>2
  <2> QED
    BY <1>0, <2>1 DEF Reserved
<1>17. Own(p)'
  <2>1. ~Growing(p)'
    BY <1>13
  <2>2. Living(p)'
    BY <1>1, <1>4, <1>7, <1>8, <1>9, <2>1 DEF Living
  <2>3. Imaged(p)'
    BY <1>0, <1>1, <1>4, <1>9, <2>1 DEF Imaged
  <2> QED
    BY <1>7, <2>1, <2>2, <2>3 DEF Own, BrkGrows, Copies, Loads, ExecGrows
<1>18. Own(q)'
  <2>1. ~Growing(q)'
    BY <1>2, <1>13
  <2>2. Living(q)'
    BY <1>1, <1>3, <1>4, <1>7, <1>8, <1>9, <2>1 DEF Living
  <2>3. Imaged(q)'
    BY <1>1, <1>6, <1>9, <2>1 DEF Imaged
  <2> QED
    BY <1>7, <2>1, <2>2, <2>3 DEF Own, BrkGrows, Copies, Loads, ExecGrows
<1>19. ASSUME NEW x \in Proc, x # p, x # q PROVE Own(x)'
  <2>1. Kept(x)
    BY <1>1, <1>7, <1>8, <1>9, <1>19 DEF Kept, SameView
  <2> QED
    BY <1>0, <2>1, KeptOwn
<1> QED
  BY <1>10, <1>12, <1>14, <1>15, <1>16, <1>17, <1>18, <1>19 DEF IInv

(* One page of a copy, or the panic at a hole, or the retreat without a    *)
(* page: the child's stack and page directory are given back.              *)
LEMMA CopyPageKeeps ==
    ASSUME IInv, NEW p \in Proc, CopyPage(p)
    PROVE  IInv'
<1>0. /\ StateOK /\ Woods(heap, Roots, Stacks) /\ Apart /\ StacksApart /\ Reserved /\ Living(p)
      /\ Imaged(p) /\ Copies(p) /\ \A q \in Proc : Own(q)
  BY InvParts
<1> DEFINE l == loc[p]
           a == l.a
           src == Pte(heap, pgdir[p], a)
           n == NextPage(heap)
           lost == Unmappable(Kalloc(heap), l.pd, a)
           map == Map_region(Kalloc(heap), l.pd, a, n)
<1>1. /\ pc[p] = "copy" /\ a * PGSIZE < sz[p]
      /\ UNCHANGED <<pgdir, sz, holes, stale, guard, ncalls>>
  BY DEF CopyPage
<1>2. /\ l.child \in Proc /\ a \in Nat /\ sz[p] \in Nat /\ sz[p] \in 0 .. UADDR_SZ - 1
      /\ PageUp(sz[p]) \in Nat /\ l \in Local
  <2>1. sz[p] \in Nat /\ sz[p] \in 0 .. UADDR_SZ - 1 /\ l.child \in Proc /\ a \in Nat /\ l \in Local
    BY <1>0, Typed
  <2> QED
    BY <2>1, PageUpIs
<1>3. PICK q \in Proc : q = l.child
  BY <1>2
<1>4. /\ pc[q] = "unused" /\ kstack[q] # 0 /\ kstack[q] \in Stacks
      /\ \A x \in Proc : pc[x] = "copy" /\ loc[x].child = q => p = x
  BY <1>0, <1>1, <1>3, RootsAre DEF Reserved
<1>5. /\ Building(p) /\ l.pd # 0 /\ pgdir[p] # 0 /\ kstack[p] # 0 /\ p # q /\ ~Growing(p)
      /\ l.pd \in Roots /\ pgdir[p] \in Roots /\ l.pd # pgdir[p] /\ kstack[p] # kstack[q]
  <2>1. /\ Building(p) /\ l.pd # 0 /\ pgdir[p] # 0 /\ kstack[p] # 0 /\ ~Growing(p) /\ p # q
    BY <1>0, <1>1, <1>4 DEF Living, Building
  <2> QED
    BY <1>0, <2>1, RootsAre DEF Apart, StacksApart
<1>6. /\ a \in Pages(sz[p]) /\ a \in VPage
  BY <1>1, <1>2, PagesBelow
<1>7. /\ (0 .. a - 1) \cap holes[p] = {}
      /\ Mapped(heap, l.pd) = 0 .. a - 1
      /\ Closed(heap, l.pd) = guard[p] \cap (0 .. a - 1)
  BY <1>0, <1>1 DEF Copies
<1>8. Pte(heap, l.pd, a) = 0
  <2>1. a \notin 0 .. a - 1
    BY <1>2
  <2> QED
    BY <1>6, <1>7, <2>1 DEF Mapped
<1>9. ncalls' \in Nat
  BY <1>0, <1>1 DEF StateOK
<1>10. CASE src = 0
  <2>1. Goto(p, "nopage") /\ UNCHANGED <<heap, kstack, loc>>
    BY <1>10 DEF CopyPage
  <2> QED
    BY <1>1, <1>5, <1>9, <2>1, GotoKeeps
<1> DEFINE fail == n = 0 \/ lost
<1>11. CASE src # 0 /\ fail
  <2>1. /\ heap' = Kfree(IF n = 0 THEN heap ELSE map, {l.pd, kstack[q]})
        /\ kstack' = [kstack EXCEPT ![q] = 0]
        /\ Goto(p, "user") /\ Locally(p, NoLocal)
    BY <1>3, <1>11 DEF CopyPage
  <2>2. PICK h : h = (IF n = 0 THEN heap ELSE map)
    OBVIOUS
  <2>3. Woods(h, Roots, Stacks) /\ \A e \in Roots : SameView(heap, h, e)
    <3>1. CASE n = 0
      BY <1>0, <2>2, <3>1 DEF SameView
    <3>2. CASE n # 0
      <4>1. h = map /\ lost
        BY <1>11, <2>2, <3>2
      <4>2. /\ Woods(h, Roots, Stacks)
            /\ \A e \in Roots : e # l.pd => SameView(heap, h, e)
            /\ Closed(h, l.pd) = Closed(heap, l.pd)
            /\ lost => Mapped(h, l.pd) = Mapped(heap, l.pd)
        <5> HIDE DEF l, a
        <5> QED
          BY <1>0, <1>5, <1>6, <1>8, <3>2, <4>1, NewPageMaps
      <4> QED
        BY <4>1, <4>2 DEF SameView
    <3> QED
      BY <3>1, <3>2
  <2> HIDE DEF map, lost, n
  <2>4. /\ Woods(heap', Roots \ {l.pd}, Stacks \ {kstack[q]})
        /\ \A e \in Roots : e # l.pd => SameView(h, heap', e)
    <3>1. heap' = Kfree(h, {l.pd, kstack[q]})
      BY <2>1, <2>2
    <3>2. PICK d \in Roots, k \in Stacks : d = l.pd /\ k = kstack[q]
      BY <1>4, <1>5
    <3>3. PICK g : g = Kfree(h, {d, k})
      OBVIOUS
    <3>4. Woods(g, Roots \ {d}, Stacks \ {k}) /\ \A e \in Roots : e # d => SameView(h, g, e)
      BY <2>3, <3>3, FreeChild, ZenonT(60)
    <3> QED
      BY <3>1, <3>2, <3>3, <3>4
  <2>5. \A e \in Roots : e # l.pd => SameView(heap, heap', e)
    BY <2>3, <2>4 DEF SameView
  <2>6. /\ pc' \in [Proc -> PC] /\ pc'[p] = "user" /\ loc' \in [Proc -> Local] /\ loc'[p] = NoLocal
        /\ Only(p)
    <3>1. "user" \in PC
      BY DEF PC
    <3> QED
      BY <1>0, <1>1, <2>1, <3>1, NoLocalIs, GotoIs, LocallyIs DEF Only
  <2>7. kstack' \in [Proc -> 0 .. NPAGE] /\ kstack'[q] = 0 /\ \A x \in Proc : x # q => kstack'[x] = kstack[x]
    BY <1>0, <2>1, MemoryAssumption DEF StateOK, MemoryAssumption
  <2>8. StateOK'
    <3>1. heap' \in Heap
      BY <2>4 DEF Woods, Forest
    <3> QED
      BY <1>0, <1>1, <2>6, <2>7, <3>1 DEF StateOK, Heap
  <2>9. Roots' \subseteq Roots \ {l.pd} /\ Stacks' \subseteq Stacks \ {kstack[q]}
    <3>1. Stacks' \subseteq Stacks \ {kstack[q]}
      BY <1>0, <2>7 DEF Stacks, StacksApart
    <3>2. Roots' \subseteq (Roots \ {l.pd}) \cup ({pgdir'[p], loc'[p].pd} \ {0})
      BY <1>0, <2>6, RootsKept
    <3> QED
      BY <1>1, <1>5, <2>6, <3>1, <3>2, NoLocalIs
  <2>10. Woods(heap', Roots', Stacks')
    BY <2>4, <2>9, WoodsLess
  <2>11. ~Growing(p)' /\ ~Building(p)'
    BY <2>6, NoLocalIs DEF Growing, Building
  <2>12. Apart' /\ StacksApart'
    <3>1. Apart'
      BY <1>0, <1>1, <2>6, <2>11, NoLocalIs, ApartKept
    <3> QED
      BY <1>0, <2>7, <3>1 DEF StacksApart
  <2>13. Reserved'
    <3>1. ASSUME NEW x \in Proc, pc'[x] = "copy"
          PROVE  /\ pc[x] = "copy" /\ loc'[x] = loc[x]
                 /\ pc'[loc[x].child] = "unused" /\ kstack'[loc[x].child] # 0
      <4>1. x # p /\ pc[x] = "copy" /\ loc'[x] = loc[x] /\ loc[x].child \in Proc
        BY <1>0, <2>6, <3>1, Typed DEF Only
      <4>2. /\ pc[loc[x].child] = "unused" /\ kstack[loc[x].child] # 0
            /\ loc[x].child # q /\ loc[x].child # p
        BY <1>0, <1>1, <1>4, <4>1 DEF Reserved
      <4> QED
        BY <2>6, <2>7, <4>1, <4>2 DEF Only
    <3> QED
      BY <1>0, <3>1 DEF Reserved
  <2>14. Own(p)'
    <3>1. Living(p)'
      BY <1>1, <1>5, <2>6, <2>7, <2>11 DEF Living
    <3>2. Imaged(p)'
      BY <1>0, <1>1, <1>5, <2>5, <2>11 DEF Imaged, SameView
    <3> QED
      BY <2>6, <2>11, <3>1, <3>2 DEF Own, BrkGrows, Copies, Loads, ExecGrows
  <2>15. \A x \in Proc : x # p => Own(x)'
    <3>1. \A x \in Proc : x # p => kstack'[x] = kstack[x] \/ pc[x] = "unused"
      BY <1>4, <2>7
    <3> QED
      BY <1>0, <2>5, <2>6, <3>1, OthersKept
  <2> QED
    BY <2>8, <2>10, <2>12, <2>13, <2>14, <2>15 DEF IInv
<1>12. CASE src # 0 /\ ~fail
  <2>1. /\ heap' = Copied(map, src, n) /\ Locally(p, [l EXCEPT !.a = @ + 1])
        /\ UNCHANGED <<kstack, pc>>
    BY <1>12 DEF CopyPage
  <2>2. PICK h : h = map
    OBVIOUS
  <2>3. /\ Woods(h, Roots, Stacks) /\ h.kernel = heap.kernel
        /\ \A e \in Roots : e # l.pd => SameView(heap, h, e)
        /\ Closed(h, l.pd) = Closed(heap, l.pd)
        /\ Mapped(h, l.pd) = Mapped(heap, l.pd) \cup {a} /\ Pte(h, l.pd, a) = n /\ n # 0
    <3>1. n # 0 /\ ~lost
      BY <1>12
    <3>2. /\ Woods(h, Roots, Stacks) /\ h.kernel = heap.kernel
          /\ \A e \in Roots : e # l.pd => SameView(heap, h, e)
          /\ Closed(h, l.pd) = Closed(heap, l.pd)
          /\ ~lost => Mapped(h, l.pd) = Mapped(heap, l.pd) \cup {a} /\ Pte(h, l.pd, a) = n
      <4> HIDE DEF l, a
      <4> QED
        BY <1>0, <1>5, <1>6, <1>8, <2>2, <3>1, NewPageMaps
    <3> QED
      BY <3>1, <3>2
  <2> HIDE DEF map, lost, n
  <2>4. a \notin holes[p] /\ a \in Mapped(heap, pgdir[p])
    <3>1. a \in Mapped(heap, pgdir[p])
      BY <1>6, <1>12 DEF Mapped
    <3> QED
      BY <1>0, <1>5, <1>6, <3>1 DEF Imaged
  <2>5. src \in heap.kernel <=> a \in guard[p]
    <3>1. guard[p] = Closed(heap, pgdir[p])
      BY <1>0, <1>5 DEF Imaged
    <3> QED
      BY <1>6, <3>1 DEF Closed
  <2>6. /\ Woods(heap', Roots, Stacks)
        /\ \A e \in Roots : e # l.pd => SameView(h, heap', e)
        /\ Mapped(heap', l.pd) = Mapped(h, l.pd)
        /\ Closed(heap', l.pd) = Closed(h, l.pd) \cup ({a} \cap guard[p])
    <3>1. CASE src \in h.kernel
      <4>1. heap' = Clearpteu(h, l.pd, a)
        <5>1. {n} \ {0} = {n}
          BY <2>3
        <5>2. heap' = [h EXCEPT !.kernel = @ \cup {n}]
          BY <2>1, <2>2, <3>1 DEF Copied
        <5> QED
          BY <2>3, <5>1, <5>2 DEF Clearpteu
      <4>2. /\ Woods(heap', Roots, Stacks)
            /\ \A e \in Roots : e # l.pd => SameView(h, heap', e)
            /\ Mapped(heap', l.pd) = Mapped(h, l.pd)
            /\ Closed(heap', l.pd) = Closed(h, l.pd) \cup ({a} \cap Mapped(h, l.pd))
        <5> HIDE DEF l, a
        <5> QED
          BY <1>5, <1>6, <2>3, <4>1, ClosePage
      <4>3. a \in guard[p] /\ a \in Mapped(h, l.pd)
        BY <2>3, <2>5, <3>1
      <4> QED
        BY <4>2, <4>3
    <3>2. CASE src \notin h.kernel
      <4>1. heap' = h /\ a \notin guard[p]
        BY <2>1, <2>2, <2>3, <2>5, <3>2 DEF Copied
      <4> QED
        BY <2>3, <4>1 DEF SameView
    <3> QED
      BY <3>1, <3>2
  <2>7. \A e \in Roots : e # l.pd => SameView(heap, heap', e)
    BY <2>3, <2>6 DEF SameView
  <2>8. PICK r : r = [l EXCEPT !.a = @ + 1]
    OBVIOUS
  <2>9. /\ r = [then |-> r.then, pd |-> r.pd, a |-> r.a, old |-> r.old, new |-> r.new,
                sz |-> r.sz, segs |-> r.segs, child |-> r.child, holes |-> r.holes]
        /\ r.then = l.then /\ r.pd = l.pd /\ r.a = a + 1 /\ r.old = l.old /\ r.new = l.new
        /\ r.sz = l.sz /\ r.segs = l.segs /\ r.child = l.child /\ r.holes = l.holes
    BY <1>2, <2>8 DEF Local
  <2>10. r \in Local
    <3>1. /\ l.then \in {"none", "brk", "load", "args"} /\ l.pd \in 0 .. NPAGE
          /\ l.old \in Nat /\ l.new \in Nat /\ l.sz \in 0 .. UADDR_SZ - 1
          /\ l.segs \in Seq(Segment) /\ l.child \in Proc /\ l.holes \subseteq VPage
      BY <1>0, Typed
    <3>2. r.a \in Nat
      BY <1>2, <2>9
    <3> QED
      BY <2>9, <3>1, <3>2, LocalIs
  <2>11. /\ loc' \in [Proc -> Local] /\ loc'[p] = r /\ \A x \in Proc : x # p => loc'[x] = loc[x]
    BY <1>0, <2>1, <2>8, <2>10, LocallyIs
  <2>12. Only(p) /\ pc'[p] = "copy"
    BY <1>1, <2>1, <2>11 DEF Only
  <2>13. Roots' = Roots /\ Stacks' = Stacks
    <3>1. \A x \in Proc : loc'[x].pd = loc[x].pd
      BY <2>9, <2>11
    <3> QED
      BY <1>1, <2>1, <3>1 DEF Roots, Stacks
  <2>14. StateOK'
    <3>1. heap' \in Heap
      BY <2>6 DEF Woods, Forest
    <3> QED
      BY <1>0, <1>1, <2>1, <2>11, <3>1 DEF StateOK, Heap
  <2>15. ~Growing(p)' /\ Building(p)'
    BY <1>5, <2>9, <2>11 DEF Growing, Building
  <2>16. Apart' /\ StacksApart' /\ Reserved'
    <3>1. Apart'
      BY <1>0, <1>1, <1>5, <2>9, <2>11, <2>12, <2>15, ApartKept
    <3> QED
      BY <1>0, <1>1, <2>1, <2>9, <2>11, <2>12, <3>1, ReservedKept DEF StacksApart
  <2>17. Own(p)'
    <3>1. Living(p)'
      BY <1>1, <1>5, <2>1, <2>12, <2>15 DEF Living
    <3>2. Imaged(p)'
      BY <1>0, <1>1, <1>5, <2>7, <2>15 DEF Imaged, SameView
    <3>3. Copies(p)'
      <4>1. a + 1 <= PageUp(sz[p])
        BY <1>2, <1>6 DEF Pages
      <4>2. 0 .. (a + 1) - 1 = (0 .. a - 1) \cup {a}
        BY <1>2
      <4> DEFINE B == 0 .. (a + 1) - 1
                 A == 0 .. a - 1
      <4>3. B = A \cup {a}
        BY <4>2
      <4>4. /\ A \cap holes[p] = {} /\ Mapped(heap, l.pd) = A /\ Closed(heap, l.pd) = guard[p] \cap A
        BY <1>7
      <4> HIDE DEF A, B
      <4>5. /\ B \cap holes[p] = {} /\ Mapped(heap', l.pd) = B /\ Closed(heap', l.pd) = guard[p] \cap B
        BY <2>3, <2>4, <2>6, <4>3, <4>4
      <4>6. /\ loc'[p].a = a + 1 /\ loc'[p].pd = l.pd /\ B = 0 .. loc'[p].a - 1
        BY <2>9, <2>11 DEF B
      <4> QED
        BY <1>1, <4>1, <4>5, <4>6 DEF Copies
    <3> QED
      BY <2>12, <2>15, <3>1, <3>2, <3>3 DEF Own, BrkGrows, Loads, ExecGrows
  <2>18. \A x \in Proc : x # p => Own(x)'
    BY <1>0, <2>1, <2>7, <2>12, OthersKept
  <2> QED
    BY <2>6, <2>13, <2>14, <2>16, <2>17, <2>18 DEF IInv
<1> QED
  BY <1>10, <1>11, <1>12
-----------------------------------------------------------------------------
(* execve.                                                                 *)

(* A call that begins: a page directory with nothing in it.                *)
LEMMA ExecKeeps ==
    ASSUME IInv, NEW p \in Proc, Exec(p)
    PROVE  IInv'
<1>0. /\ StateOK /\ Woods(heap, Roots, Stacks) /\ Apart /\ StacksApart /\ Reserved /\ Living(p)
      /\ Imaged(p) /\ \A q \in Proc : Own(q)
  BY InvParts
<1> DEFINE d == NextPage(heap)
<1>1. PICK image \in Image :
         IF d = 0 THEN Goto(p, "nomem") /\ UNCHANGED <<heap, loc>>
         ELSE /\ heap' = Kalloc(heap)
              /\ Goto(p, "seg")
              /\ Locally(p, [NoLocal EXCEPT !.pd = d, !.segs = image])
  BY DEF Exec
<1>2. /\ pc[p] = "user" /\ ncalls' = ncalls + 1
      /\ UNCHANGED <<kstack, pgdir, sz, holes, stale, guard>>
  BY DEF Exec, Called
<1>3. /\ pgdir[p] # 0 /\ pgdir[p] \in Roots /\ loc[p] = NoLocal /\ kstack[p] # 0 /\ ~Growing(p)
  BY <1>0, <1>2, RootsAre, NoLocalIs DEF Living, Growing
<1>4. ncalls' \in Nat
  BY <1>0, <1>2 DEF StateOK
<1>5. CASE d = 0
  BY <1>1, <1>2, <1>3, <1>4, <1>5, GotoKeeps
<1>6. CASE d # 0
  <2>1. /\ heap' = Kalloc(heap) /\ Goto(p, "seg")
        /\ Locally(p, [NoLocal EXCEPT !.pd = d, !.segs = image])
    BY <1>1, <1>6
  <2>2. /\ Woods(heap', Roots \cup {d}, Stacks) /\ d \in Page /\ d \notin Roots
        /\ \A e : SameView(heap, heap', e)
        /\ Mapped(heap', d) = {} /\ Closed(heap', d) = {}
    BY <1>0, <1>6, <2>1, KallocRoot
  <2>3. d \in 0 .. NPAGE
    BY <2>2, MemoryAssumption DEF MemoryAssumption, Page
  <2> HIDE DEF d
  <2>4. PICK r : r = [NoLocal EXCEPT !.pd = d, !.segs = image]
    OBVIOUS
  <2>5. /\ r = [then |-> r.then, pd |-> r.pd, a |-> r.a, old |-> r.old, new |-> r.new,
                sz |-> r.sz, segs |-> r.segs, child |-> r.child, holes |-> r.holes]
        /\ r.then = "none" /\ r.pd = d /\ r.a = 0 /\ r.old = 0 /\ r.new = 0
        /\ r.sz = 0 /\ r.segs = image /\ r.child = Initproc /\ r.holes = {}
    BY <2>4 DEF NoLocal
  <2>6. r \in Local
    <3>1. 0 \in 0 .. UADDR_SZ - 1 /\ image \in Seq(Segment) /\ Initproc \in Proc
      BY MemoryAssumption DEF MemoryAssumption
    <3>2. /\ r.then \in {"none", "brk", "load", "args"} /\ r.pd \in 0 .. NPAGE
          /\ r.a \in Nat /\ r.old \in Nat /\ r.new \in Nat /\ r.sz \in 0 .. UADDR_SZ - 1
          /\ r.segs \in Seq(Segment) /\ r.child \in Proc /\ r.holes \subseteq VPage
      BY <2>3, <2>5, <3>1
    <3> QED
      BY <2>5, <3>2, LocalIs
  <2>7. /\ loc' \in [Proc -> Local] /\ loc'[p] = r /\ \A x \in Proc : x # p => loc'[x] = loc[x]
    BY <1>0, <2>1, <2>4, <2>6, LocallyIs
  <2>8. pc' \in [Proc -> PC] /\ pc'[p] = "seg" /\ Only(p)
    <3>1. "seg" \in PC
      BY DEF PC
    <3> QED
      BY <1>0, <1>2, <2>1, <2>7, <3>1, GotoIs DEF Only
  <2>9. StateOK'
    <3>1. heap' \in Heap
      BY <2>2 DEF Woods, Forest
    <3> QED
      BY <1>0, <1>2, <1>4, <2>7, <2>8, <3>1 DEF StateOK, Heap
  <2>10. Roots' \subseteq Roots \cup {d} /\ Stacks' = Stacks
    <3>1. Stacks' = Stacks
      BY <1>2 DEF Stacks
    <3> QED
      BY <1>2, <1>3, <2>5, <2>7, <2>8, <3>1, RootsKept
  <2>11. Woods(heap', Roots', Stacks')
    BY <2>2, <2>10, WoodsLess
  <2>12. ~Growing(p)' /\ Building(p)'
    BY <1>6, <2>5, <2>7 DEF Growing, Building, d
  <2>13. Apart' /\ StacksApart' /\ Reserved'
    <3>1. Apart'
      BY <1>0, <1>2, <1>3, <2>2, <2>5, <2>7, <2>8, <2>12, ApartKept
    <3> QED
      BY <1>0, <1>2, <2>8, <3>1, ReservedKept DEF StacksApart
  <2>14. Own(p)'
    <3>1. Living(p)'
      BY <1>2, <1>3, <2>8, <2>12 DEF Living
    <3>2. Imaged(p)'
      BY <1>0, <1>2, <1>3, <2>2, <2>12 DEF Imaged, SameView
    <3>3. Loads(p)'
      <4>1. Pages(0) = {}
        BY NoPages
      <4> QED
        BY <2>2, <2>5, <2>7, <2>8, <4>1 DEF Loads
    <3> QED
      BY <2>8, <3>1, <3>2, <3>3 DEF Own, BrkGrows, Copies, ExecGrows
  <2>15. \A x \in Proc : x # p => Own(x)'
    BY <1>0, <1>2, <2>2, <2>8, OthersKept
  <2> QED
    BY <2>9, <2>11, <2>13, <2>14, <2>15 DEF IInv
<1> QED
  BY <1>5, <1>6

(* A segment is loaded, or the kernel stops at a table that is missing.    *)
LEMMA ExecLoadKeeps ==
    ASSUME IInv, NEW p \in Proc, ExecLoad(p)
    PROVE  IInv'
<1>0. /\ StateOK /\ Woods(heap, Roots, Stacks) /\ Apart /\ StacksApart /\ Reserved /\ Living(p)
      /\ Imaged(p) /\ Loads(p) /\ \A q \in Proc : Own(q)
  BY InvParts
<1>1. /\ pc[p] = "load" /\ UNCHANGED <<heap, kstack, pgdir, sz, holes, stale, guard, ncalls>>
      /\ \/ \E x \in {"nopage", "bad"} : Goto(p, x) /\ UNCHANGED loc
         \/ Goto(p, "seg") /\ Locally(p, [loc[p] EXCEPT !.segs = Tail(@)])
  BY DEF ExecLoad
<1>2. /\ Building(p) /\ ~Growing(p) /\ loc[p].pd # 0 /\ loc[p].pd # pgdir[p] /\ ncalls' \in Nat
  BY <1>0, <1>1 DEF Living, Building, Apart, StateOK
<1>3. CASE \E x \in {"nopage", "bad"} : Goto(p, x) /\ UNCHANGED loc
  BY <1>1, <1>2, <1>3, GotoKeeps
<1>4. CASE Goto(p, "seg") /\ Locally(p, [loc[p] EXCEPT !.segs = Tail(@)])
  <2> DEFINE l == loc[p]
  <2>1. PICK r : r = [l EXCEPT !.segs = Tail(@)]
    OBVIOUS
  <2>2. /\ r = [then |-> r.then, pd |-> r.pd, a |-> r.a, old |-> r.old, new |-> r.new,
                sz |-> r.sz, segs |-> r.segs, child |-> r.child, holes |-> r.holes]
        /\ r.then = l.then /\ r.pd = l.pd /\ r.a = l.a /\ r.old = l.old /\ r.new = l.new
        /\ r.sz = l.sz /\ r.segs = Tail(l.segs) /\ r.child = l.child /\ r.holes = l.holes
    <3>1. l \in Local
      BY <1>0, Typed
    <3> QED
      BY <2>1, <3>1 DEF Local
  <2>3. r \in Local
    <3>1. /\ l.then \in {"none", "brk", "load", "args"} /\ l.pd \in 0 .. NPAGE /\ l.a \in Nat
          /\ l.old \in Nat /\ l.new \in Nat /\ l.sz \in 0 .. UADDR_SZ - 1
          /\ l.segs \in Seq(Segment) /\ l.child \in Proc /\ l.holes \subseteq VPage
      BY <1>0, Typed
    <3>2. Tail(l.segs) \in Seq(Segment)
      BY <1>0, <1>1, <3>1 DEF Loads
    <3> QED
      BY <2>2, <3>1, <3>2, LocalIs
  <2>4. /\ loc' \in [Proc -> Local] /\ loc'[p] = r /\ \A x \in Proc : x # p => loc'[x] = loc[x]
    BY <1>0, <1>4, <2>1, <2>3, LocallyIs
  <2>5. pc' \in [Proc -> PC] /\ pc'[p] = "seg" /\ Only(p)
    <3>1. "seg" \in PC
      BY DEF PC
    <3> QED
      BY <1>0, <1>1, <1>4, <2>4, <3>1, GotoIs DEF Only
  <2>6. StateOK'
    BY <1>0, <1>1, <2>4, <2>5 DEF StateOK
  <2>7. Roots' = Roots /\ Stacks' = Stacks
    <3>1. \A x \in Proc : loc'[x].pd = loc[x].pd
      BY <2>2, <2>4
    <3> QED
      BY <1>1, <3>1 DEF Roots, Stacks
  <2>8. ~Growing(p)' /\ Building(p)'
    BY <1>2, <2>2, <2>4 DEF Growing, Building
  <2>9. Apart' /\ StacksApart' /\ Reserved'
    <3>1. Apart'
      BY <1>0, <1>1, <1>2, <2>2, <2>4, <2>5, <2>8, ApartKept
    <3> QED
      BY <1>0, <1>1, <2>5, <3>1, ReservedKept DEF StacksApart
  <2>10. Own(p)'
    <3>1. Living(p)'
      BY <1>0, <1>1, <2>5, <2>8 DEF Living
    <3>2. Imaged(p)'
      BY <1>0, <1>1, <1>2, <2>8 DEF Imaged
    <3>3. Loads(p)'
      BY <1>0, <1>1, <2>2, <2>4, <2>5 DEF Loads
    <3> QED
      BY <2>5, <3>1, <3>2, <3>3 DEF Own, BrkGrows, Copies, ExecGrows
  <2>11. \A x \in Proc : x # p => Own(x)'
    <3>1. \A e : SameView(heap, heap', e)
      BY <1>1 DEF SameView
    <3> QED
      BY <1>0, <1>1, <2>5, <3>1, OthersKept
  <2> QED
    BY <1>0, <1>1, <2>6, <2>7, <2>9, <2>10, <2>11 DEF IInv
<1> QED
  BY <1>1, <1>3, <1>4

(* The next segment, or the guard and the stack, begins to grow.           *)
LEMMA ExecSegKeeps ==
    ASSUME IInv, NEW p \in Proc, ExecSeg(p)
    PROVE  IInv'
<1>0. /\ StateOK /\ Woods(heap, Roots, Stacks) /\ Apart /\ StacksApart /\ Reserved /\ Living(p)
      /\ Imaged(p) /\ Loads(p) /\ \A q \in Proc : Own(q)
  BY InvParts
<1> DEFINE l == loc[p]
<1>1. /\ pc[p] = "seg" /\ UNCHANGED <<heap, kstack, pgdir, sz, holes, stale, guard, ncalls>>
  BY DEF ExecSeg
<1>2. /\ Building(p) /\ ~Growing(p) /\ l.pd # 0 /\ l.pd # pgdir[p] /\ ncalls' \in Nat
  BY <1>0, <1>1 DEF Living, Building, Apart, StateOK
<1>3. /\ l \in Local /\ l.pd \in 0 .. NPAGE /\ l.sz \in Nat /\ l.sz < UADDR_SZ
      /\ UADDR_SZ \in Nat /\ PGSIZE \in Nat /\ PGSIZE > 0
      /\ l.segs \in Seq(Segment) /\ PageUp(l.sz) \in Nat
  <2>1. /\ l \in Local /\ l.pd \in 0 .. NPAGE /\ l.sz \in 0 .. UADDR_SZ - 1 /\ l.sz \in Nat
        /\ UADDR_SZ \in Nat /\ PGSIZE \in Nat /\ PGSIZE > 0
        /\ l.segs \in Seq(Segment)
    BY <1>0, Typed
  <2>2. PICK s \in Nat : s = l.sz
    BY <2>1
  <2>3. PageUp(s) \in Nat
    BY PageUpIs
  <2>4. l.sz < UADDR_SZ
    BY <2>1
  <2> HIDE DEF l
  <2> QED
    BY <2>1, <2>2, <2>3, <2>4
<1>4. PICK old \in Nat, new \in Nat, then \in {"load", "args"} :
         /\ \/ Goto(p, "bad") /\ UNCHANGED loc
            \/ new < UADDR_SZ /\ Allocuvm(p, l, l.pd, old, new, then)
         /\ PageUp(old) = PageUp(l.sz)
         /\ then = "load" => l.segs # <<>> /\ old = l.sz
         /\ then = "args" => new >= old /\ new >= 2 * PGSIZE
  <2>1. CASE l.segs = <<>>
    <3>1. PICK old \in Nat, new \in Nat, then \in {"args"} :
             old = PageUp(l.sz) * PGSIZE /\ new = old + 2 * PGSIZE
      BY <1>3
    <3>2. \/ Goto(p, "bad") /\ UNCHANGED loc
          \/ ~(new >= UADDR_SZ) /\ Allocuvm(p, l, l.pd, old, new, then)
      BY <2>1, <3>1 DEF ExecSeg
    <3>3. PageUp(old) = PageUp(l.sz)
      BY <1>3, <3>1, NoPages
    <3>4. new >= old /\ new >= 2 * PGSIZE
      BY <1>3, <3>1
    <3>5. ~(new >= UADDR_SZ) => new < UADDR_SZ
      BY <1>3
    <3> QED
      BY <3>2, <3>3, <3>4, <3>5
  <2>2. CASE l.segs # <<>>
    <3>1. Head(l.segs) \in Segment
      <4>1. \A S : \A segs \in Seq(S) : segs # <<>> => Head(segs) \in S
        OBVIOUS
      <4> HIDE DEF l
      <4> QED
        BY <1>3, <2>2, <4>1
    <3>2. Head(l.segs).end \in Nat
      BY <3>1 DEF Segment
    <3>3. PICK old \in Nat, new \in Nat, then \in {"load"} : old = l.sz /\ new = Head(l.segs).end
      BY <1>3, <3>2
    <3>4. \/ Goto(p, "bad") /\ UNCHANGED loc
          \/ ~(new >= UADDR_SZ) /\ Allocuvm(p, l, l.pd, old, new, then)
      BY <2>2, <3>3 DEF ExecSeg
    <3>5. ~(new >= UADDR_SZ) => new < UADDR_SZ
      BY <1>3
    <3> QED
      BY <2>2, <3>3, <3>4, <3>5
  <2> QED
    BY <2>1, <2>2
<1>5. CASE Goto(p, "bad") /\ UNCHANGED loc
  BY <1>1, <1>2, <1>4, <1>5, GotoKeeps
<1>6. CASE new < UADDR_SZ /\ Allocuvm(p, l, l.pd, old, new, then)
  <2>0. Allocuvm(p, l, l.pd, old, new, then) /\ new < UADDR_SZ
    BY <1>6
  <2>1. /\ loc' \in [Proc -> Local] /\ pc' \in [Proc -> PC] /\ pc'[p] = "grow"
        /\ loc'[p].then = then /\ loc'[p].pd = l.pd /\ loc'[p].a = PageUp(l.sz)
        /\ loc'[p].old = old /\ loc'[p].new = new
        /\ loc'[p].sz = l.sz /\ loc'[p].segs = l.segs /\ loc'[p].holes = l.holes
        /\ \A x \in Proc : x # p => loc'[x] = loc[x] /\ pc'[x] = pc[x]
    <3> HIDE DEF l
    <3>1. then \in {"brk", "load", "args"}
      OBVIOUS
    <3> QED
      BY <1>0, <1>3, <1>4, <2>0, <3>1, AllocBegins
  <2>2. Only(p)
    BY <1>1, <2>1 DEF Only
  <2>3. StateOK'
    BY <1>0, <1>1, <2>1 DEF StateOK
  <2>4. Roots' = Roots /\ Stacks' = Stacks
    <3>1. \A x \in Proc : loc'[x].pd = loc[x].pd
      BY <2>1
    <3> QED
      BY <1>1, <3>1 DEF Roots, Stacks
  <2>5. ~Growing(p)' /\ Building(p)'
    BY <1>2, <2>1 DEF Growing, Building
  <2>6. Apart' /\ StacksApart' /\ Reserved'
    <3>1. Apart'
      BY <1>0, <1>1, <1>2, <2>1, <2>2, <2>5, ApartKept
    <3> QED
      BY <1>0, <1>1, <2>1, <2>2, <3>1, ReservedKept DEF StacksApart
  <2>7. Own(p)'
    <3>1. Living(p)'
      BY <1>0, <1>1, <1>2, <2>1, <2>5 DEF Living
    <3>2. Imaged(p)'
      BY <1>0, <1>1, <1>2, <2>5 DEF Imaged
    <3>3. ExecGrows(p)'
      <4>1. /\ Mapped(heap', l.pd) = (0 .. PageUp(l.sz) - 1) \ l.holes
            /\ l.holes \subseteq 0 .. PageUp(l.sz) - 1 /\ Closed(heap', l.pd) = {}
        BY <1>0, <1>1 DEF Loads, Pages
      <4>2. /\ old < UADDR_SZ /\ PageUp(old) <= PageUp(l.sz) /\ ~(PageUp(l.sz) > PageUp(old))
        BY <1>3, <1>4, <2>0
      <4> QED
        BY <1>4, <2>0, <2>1, <4>1, <4>2 DEF ExecGrows
    <3> QED
      BY <2>1, <2>5, <3>1, <3>2, <3>3 DEF Own, BrkGrows, Copies, Loads
  <2>8. \A x \in Proc : x # p => Own(x)'
    <3>1. \A e : SameView(heap, heap', e)
      BY <1>1 DEF SameView
    <3> QED
      BY <1>0, <1>1, <2>2, <3>1, OthersKept
  <2> QED
    BY <1>0, <1>1, <2>3, <2>4, <2>6, <2>7, <2>8 DEF IInv
<1> QED
  BY <1>4, <1>5, <1>6

(* A call that has failed gives back what it has built.                    *)
LEMMA ExecBadKeeps ==
    ASSUME IInv, NEW p \in Proc, ExecBad(p)
    PROVE  IInv'
<1>0. /\ StateOK /\ Woods(heap, Roots, Stacks) /\ Apart /\ StacksApart /\ Reserved /\ Living(p)
      /\ Imaged(p) /\ pgdir[p] # 0 /\ \A q \in Proc : Own(q)
  BY InvParts DEF ExecBad
<1>1. /\ pc[p] = "bad" /\ heap' = Vm_free(heap, loc[p].pd, 0)
      /\ Goto(p, "user") /\ Locally(p, NoLocal)
      /\ UNCHANGED <<kstack, pgdir, sz, holes, stale, guard, ncalls>>
  BY DEF ExecBad
<1>2. /\ Building(p) /\ ~Growing(p) /\ loc[p].pd \in Roots /\ loc[p].pd # pgdir[p] /\ kstack[p] # 0
  <2>1. Building(p) /\ ~Growing(p) /\ loc[p].pd # 0 /\ kstack[p] # 0
    BY <1>0, <1>1 DEF Living, Building
  <2> QED
    BY <1>0, <2>1, RootsAre DEF Apart
<1>3. PICK d \in Roots : d = loc[p].pd
  BY <1>2
<1>4. /\ Woods(heap', Roots \ {d}, Stacks)
      /\ \A e \in Roots : e # d => SameView(heap, heap', e)
  BY <1>0, <1>1, <1>3, VmFrees
<1>5. /\ pc' \in [Proc -> PC] /\ pc'[p] = "user" /\ loc' \in [Proc -> Local] /\ loc'[p] = NoLocal
      /\ Only(p)
  <2>1. "user" \in PC
    BY DEF PC
  <2> QED
    BY <1>0, <1>1, <2>1, NoLocalIs, GotoIs, LocallyIs DEF Only
<1>6. StateOK'
  <2>1. heap' \in Heap
    BY <1>4 DEF Woods, Forest
  <2> QED
    BY <1>0, <1>1, <1>5, <2>1 DEF StateOK, Heap
<1>7. Roots' \subseteq Roots \ {d} /\ Stacks' = Stacks
  <2>1. Roots' \subseteq (Roots \ {d}) \cup ({pgdir'[p], loc'[p].pd} \ {0})
    BY <1>0, <1>3, <1>5, RootsKept
  <2>2. pgdir[p] \in Roots
    BY <1>0, RootsAre
  <2> QED
    BY <1>1, <1>2, <1>3, <1>5, <2>1, <2>2, NoLocalIs DEF Stacks
<1>8. Woods(heap', Roots', Stacks')
  BY <1>4, <1>7, WoodsLess
<1>9. ~Growing(p)' /\ ~Building(p)'
  BY <1>5, NoLocalIs DEF Growing, Building
<1>10. Apart' /\ StacksApart' /\ Reserved'
  <2>1. Apart'
    BY <1>0, <1>1, <1>5, <1>9, NoLocalIs, ApartKept
  <2> QED
    BY <1>0, <1>1, <1>5, <2>1, ReservedKept DEF StacksApart
<1>11. Own(p)'
  <2>1. Living(p)'
    BY <1>0, <1>1, <1>2, <1>5, <1>9 DEF Living
  <2>2. Imaged(p)'
    <3>1. SameView(heap, heap', pgdir[p])
      BY <1>0, <1>2, <1>3, <1>4, RootsAre
    <3> QED
      BY <1>0, <1>1, <1>2, <1>9, <3>1 DEF Imaged, SameView
  <2> QED
    BY <1>5, <1>9, <2>1, <2>2 DEF Own, BrkGrows, Copies, Loads, ExecGrows
<1>12. \A x \in Proc : x # p => Own(x)'
  BY <1>0, <1>1, <1>3, <1>4, <1>5, OthersKept
<1> QED
  BY <1>6, <1>8, <1>10, <1>11, <1>12 DEF IInv

(* The guard is closed and the arguments are copied: the new image is in   *)
(* place of the old one, or is given up.                                   *)
LEMMA ExecArgsKeeps ==
    ASSUME IInv, NEW p \in Proc, ExecArgs(p)
    PROVE  IInv'
<1>0. /\ StateOK /\ Woods(heap, Roots, Stacks) /\ Apart /\ StacksApart /\ Reserved /\ Living(p)
      /\ Imaged(p) /\ Loads(p) /\ \A q \in Proc : Own(q)
  BY InvParts
<1> DEFINE l == loc[p]
<1>1. PICK g, h : g = PageUp(l.sz) - 2 /\ h = Clearpteu(heap, l.pd, g)
  OBVIOUS
<1>2. /\ pc[p] = "args" /\ UNCHANGED <<kstack, ncalls>>
      /\ \/ Goto(p, "nopage") /\ UNCHANGED <<heap, pgdir, sz, holes, stale, guard, loc>>
         \/ Goto(p, "bad") /\ heap' = h /\ UNCHANGED <<pgdir, sz, holes, stale, guard, loc>>
         \/ /\ heap' = Vm_free(h, pgdir[p], 1)
            /\ pgdir' = [pgdir EXCEPT ![p] = l.pd]
            /\ sz' = [sz EXCEPT ![p] = l.sz]
            /\ Lost(p, l.holes, {}, {g} \ l.holes)
            /\ Goto(p, "user") /\ Locally(p, NoLocal)
  BY <1>1 DEF ExecArgs
<1>3. /\ Building(p) /\ ~Growing(p) /\ l.pd # 0 /\ l.pd # pgdir[p] /\ ncalls' \in Nat /\ kstack[p] # 0
      /\ l.pd \in Roots /\ pgdir[p] # 0 /\ pgdir[p] \in Roots
  <2>1. /\ Building(p) /\ ~Growing(p) /\ l.pd # 0 /\ ncalls' \in Nat /\ pgdir[p] # 0 /\ kstack[p] # 0
    BY <1>0, <1>2 DEF Living, Building, StateOK
  <2> QED
    BY <1>0, <2>1, RootsAre DEF Apart
<1>4. /\ l.pd \in 0 .. NPAGE /\ l.sz \in Nat /\ l.sz \in 0 .. UADDR_SZ - 1 /\ l.holes \subseteq VPage
      /\ g \in Pages(l.sz) /\ g \in VPage
  <2>1. /\ l.pd \in 0 .. NPAGE /\ l.sz \in 0 .. UADDR_SZ - 1 /\ l.sz \in Nat /\ l.holes \subseteq VPage
        /\ PGSIZE \in Nat /\ PGSIZE > 0
    BY <1>0, Typed
  <2>2. l.sz >= 2 * PGSIZE /\ PageUp(l.sz) \in Nat
    BY <1>0, <1>2, <2>1, PageUpIs DEF Loads
  <2>3. PageUp(2 * PGSIZE) = 2 /\ 2 * PGSIZE \in Nat
    BY NoPages
  <2>4. PageUp(l.sz) >= 2
    BY <2>1, <2>2, <2>3, PageUpGrows
  <2>5. g \in Nat /\ g < PageUp(l.sz)
    BY <1>1, <2>2, <2>4
  <2> QED
    BY <2>1, <2>2, <2>5, PagesBelow DEF Pages
<1>5. /\ Mapped(heap, l.pd) = Pages(l.sz) \ l.holes
      /\ l.holes \subseteq Pages(l.sz) /\ Closed(heap, l.pd) = {}
  BY <1>0, <1>2 DEF Loads
<1>6. /\ Woods(h, Roots, Stacks)
      /\ \A e \in Roots : e # l.pd => SameView(heap, h, e)
      /\ Mapped(h, l.pd) = Pages(l.sz) \ l.holes
      /\ Closed(h, l.pd) = {g} \ l.holes
  <2>1. /\ Woods(h, Roots, Stacks)
        /\ \A e \in Roots : e # l.pd => SameView(heap, h, e)
        /\ Mapped(h, l.pd) = Mapped(heap, l.pd)
        /\ Closed(h, l.pd) = Closed(heap, l.pd) \cup ({g} \cap Mapped(heap, l.pd))
    <3> HIDE DEF l
    <3> QED
      BY <1>0, <1>1, <1>3, <1>4, ClosePage
  <2>2. {} \cup ({g} \cap (Pages(l.sz) \ l.holes)) = {g} \ l.holes
    BY <1>4
  <2> QED
    BY <1>5, <2>1, <2>2
<1>7. CASE Goto(p, "nopage") /\ UNCHANGED <<heap, pgdir, sz, holes, stale, guard, loc>>
  BY <1>2, <1>3, <1>7, GotoKeeps
<1>8. CASE Goto(p, "bad") /\ heap' = h /\ UNCHANGED <<pgdir, sz, holes, stale, guard, loc>>
  <2>1. pc' \in [Proc -> PC] /\ pc'[p] = "bad" /\ Only(p)
    <3>1. "bad" \in PC
      BY DEF PC
    <3> QED
      BY <1>0, <1>2, <1>8, <3>1, GotoIs DEF Only
  <2>2. Roots' = Roots /\ Stacks' = Stacks
    BY <1>2, <1>8 DEF Roots, Stacks
  <2>3. StateOK'
    <3>1. heap' \in Heap
      BY <1>6, <1>8 DEF Woods, Forest
    <3> QED
      BY <1>0, <1>2, <1>8, <2>1, <3>1 DEF StateOK, Heap
  <2>4. ~Growing(p)' /\ Building(p)'
    BY <1>3, <1>8 DEF Growing, Building
  <2>5. Apart' /\ StacksApart' /\ Reserved'
    <3>1. Apart'
      BY <1>0, <1>3, <1>8, <2>1, <2>4, ApartKept
    <3> QED
      BY <1>0, <1>2, <1>8, <2>1, <3>1, ReservedKept DEF StacksApart
  <2>6. Own(p)'
    <3>1. Living(p)'
      BY <1>2, <1>3, <1>8, <2>1, <2>4 DEF Living
    <3>2. Imaged(p)'
      BY <1>0, <1>3, <1>6, <1>8, <2>4 DEF Imaged, SameView
    <3> QED
      BY <2>1, <2>4, <3>1, <3>2 DEF Own, BrkGrows, Copies, Loads, ExecGrows
  <2>7. \A x \in Proc : x # p => Own(x)'
    BY <1>0, <1>2, <1>6, <1>8, <2>1, OthersKept
  <2> QED
    BY <1>6, <1>8, <2>2, <2>3, <2>5, <2>6, <2>7 DEF IInv
<1>9. CASE /\ heap' = Vm_free(h, pgdir[p], 1)
           /\ pgdir' = [pgdir EXCEPT ![p] = l.pd]
           /\ sz' = [sz EXCEPT ![p] = l.sz]
           /\ Lost(p, l.holes, {}, {g} \ l.holes)
           /\ Goto(p, "user") /\ Locally(p, NoLocal)
  <2>1. /\ Woods(heap', Roots \ {pgdir[p]}, Stacks)
        /\ \A e \in Roots : e # pgdir[p] => SameView(h, heap', e)
    <3>1. PICK d \in Roots : d = pgdir[p]
      BY <1>3
    <3>2. PICK f : f = heap' /\ f = Vm_free(h, d, 1)
      BY <1>9, <3>1
    <3>3. Woods(f, Roots \ {d}, Stacks) /\ \A e \in Roots : e # d => SameView(h, f, e)
      BY <1>6, <3>2, VmFreesImage
    <3> QED
      BY <3>1, <3>2, <3>3
  <2>2. \A e \in Roots : e \notin {pgdir[p], l.pd} => SameView(heap, heap', e)
    BY <1>6, <2>1 DEF SameView
  <2>3. /\ pc' \in [Proc -> PC] /\ pc'[p] = "user" /\ loc' \in [Proc -> Local] /\ loc'[p] = NoLocal
        /\ \A x \in Proc : x # p => pc'[x] = pc[x] /\ loc'[x] = loc[x]
    <3>1. "user" \in PC
      BY DEF PC
    <3> QED
      BY <1>0, <1>9, <3>1, NoLocalIs, GotoIs, LocallyIs
  <2>4. /\ pgdir' \in [Proc -> 0 .. NPAGE] /\ pgdir'[p] = l.pd /\ sz' \in [Proc -> 0 .. UADDR_SZ - 1]
        /\ sz'[p] = l.sz /\ \A x \in Proc : x # p => pgdir'[x] = pgdir[x] /\ sz'[x] = sz[x]
    BY <1>0, <1>4, <1>9 DEF StateOK
  <2>5. /\ holes' \in [Proc -> SUBSET VPage] /\ stale' \in [Proc -> SUBSET VPage]
        /\ guard' \in [Proc -> SUBSET VPage]
        /\ holes'[p] = l.holes /\ stale'[p] = {} /\ guard'[p] = {g} \ l.holes
        /\ \A x \in Proc : x # p => holes'[x] = holes[x] /\ stale'[x] = stale[x] /\ guard'[x] = guard[x]
    <3>1. l.holes \in SUBSET VPage /\ {} \in SUBSET VPage /\ {g} \ l.holes \in SUBSET VPage
      BY <1>4
    <3> QED
      BY <1>0, <1>9, <3>1 DEF StateOK, Lost
  <2>6. Only(p)
    BY <2>3, <2>4, <2>5 DEF Only
  <2>7. StateOK'
    <3>1. heap' \in Heap
      BY <2>1 DEF Woods, Forest
    <3> QED
      BY <1>0, <1>2, <2>3, <2>4, <2>5, <3>1 DEF StateOK, Heap
  <2>8. Roots' \subseteq Roots \ {pgdir[p]} /\ Stacks' = Stacks
    <3>1. Roots' \subseteq (Roots \ {pgdir[p]}) \cup ({pgdir'[p], loc'[p].pd} \ {0})
      BY <1>0, <2>6, RootsKept
    <3> QED
      BY <1>2, <1>3, <2>3, <2>4, <3>1, NoLocalIs DEF Stacks
  <2>9. Woods(heap', Roots', Stacks')
    BY <2>1, <2>8, WoodsLess
  <2>10. ~Growing(p)' /\ ~Building(p)'
    BY <2>3, NoLocalIs DEF Growing, Building
  <2>11. Apart' /\ StacksApart' /\ Reserved'
    <3>1. Apart'
      BY <1>0, <2>3, <2>4, <2>6, <2>10, NoLocalIs, ApartKept
    <3> QED
      BY <1>0, <1>2, <2>3, <2>6, <3>1, ReservedKept DEF StacksApart
  <2>12. Own(p)'
    <3>1. Living(p)'
      BY <1>2, <1>3, <2>3, <2>4, <2>10 DEF Living
    <3>2. Imaged(p)'
      <4>1. Mapped(heap', l.pd) = Pages(l.sz) \ l.holes /\ Closed(heap', l.pd) = {g} \ l.holes
        BY <1>3, <1>6, <2>1 DEF SameView
      <4> QED
        BY <1>5, <2>4, <2>5, <2>10, <4>1 DEF Imaged
    <3> QED
      BY <2>3, <2>10, <3>1, <3>2 DEF Own, BrkGrows, Copies, Loads, ExecGrows
  <2>13. \A x \in Proc : x # p => Own(x)'
    BY <1>0, <1>2, <2>2, <2>6, OthersKept
  <2> QED
    BY <2>7, <2>9, <2>11, <2>12, <2>13 DEF IInv
<1> QED
  BY <1>2, <1>7, <1>8, <1>9

-----------------------------------------------------------------------------
(* wait.                                                                   *)

(* A zombie's stack and image are given back.                              *)
LEMMA WaitKeeps ==
    ASSUME IInv, NEW p \in Proc, Wait(p)
    PROVE  IInv'
<1>1. PICK q \in Proc :
         /\ pc[q] = "zombie"
         /\ heap' = Vm_free(Kfree(heap, {kstack[q]}), pgdir[q], 1)
         /\ kstack' = [kstack EXCEPT ![q] = 0]
         /\ pgdir' = [pgdir EXCEPT ![q] = 0]
         /\ sz' = [sz EXCEPT ![q] = 0]
         /\ Lost(q, {}, {}, {})
         /\ Goto(q, "unused")
         /\ UNCHANGED <<loc, ncalls>>
  BY DEF Wait
<1>0. /\ StateOK /\ Woods(heap, Roots, Stacks) /\ Apart /\ StacksApart /\ Reserved /\ Living(q)
      /\ \A x \in Proc : Own(x)
  BY InvParts
<1>2. /\ loc[q] = NoLocal /\ kstack[q] \in Stacks /\ kstack[q] # 0 /\ pgdir[q] \in Roots /\ pgdir[q] # 0
      /\ ~Growing(q) /\ ~Building(q)
  BY <1>0, <1>1, RootsAre, NoLocalIs DEF Living, Growing, Building
<1>a. PICK k \in Stacks : k = kstack[q]
  BY <1>2
<1>3. PICK h : k = kstack[q] /\ h = Kfree(heap, {k})
  BY <1>a
<1>4. Woods(h, Roots, Stacks \ {k}) /\ \A e \in Roots : SameView(heap, h, e)
  BY <1>0, <1>3, FreeStack, ZenonT(60)
<1>5. /\ Woods(heap', Roots \ {pgdir[q]}, Stacks \ {k})
      /\ \A e \in Roots : e # pgdir[q] => SameView(heap, heap', e)
  <2>1. heap' = Vm_free(h, pgdir[q], 1)
    BY <1>1, <1>3
  <2>2. /\ Woods(heap', Roots \ {pgdir[q]}, Stacks \ {k})
        /\ \A e \in Roots : e # pgdir[q] => SameView(h, heap', e)
    <3>1. PICK d \in Roots : d = pgdir[q]
      BY <1>2
    <3>2. PICK f, L : f = heap' /\ f = Vm_free(h, d, 1) /\ L = Stacks \ {k}
      BY <2>1, <3>1
    <3>3. Woods(h, Roots, L)
      BY <1>4, <3>2
    <3>4. Woods(f, Roots \ {d}, L) /\ \A e \in Roots : e # d => SameView(h, f, e)
      BY <3>2, <3>3, VmFreesImage
    <3> QED
      BY <3>1, <3>2, <3>4
  <2> QED
    BY <1>4, <2>2 DEF SameView
<1>6. pc' \in [Proc -> PC] /\ pc'[q] = "unused" /\ \A x \in Proc : x # q => pc'[x] = pc[x]
  <2>1. "unused" \in PC
    BY DEF PC
  <2> QED
    BY <1>0, <1>1, <2>1, GotoIs
<1>7. /\ kstack' \in [Proc -> 0 .. NPAGE] /\ kstack'[q] = 0
      /\ \A x \in Proc : x # q => kstack'[x] = kstack[x]
      /\ pgdir' \in [Proc -> 0 .. NPAGE] /\ pgdir'[q] = 0
      /\ sz' \in [Proc -> 0 .. UADDR_SZ - 1]
      /\ \A x \in Proc : x # q => pgdir'[x] = pgdir[x] /\ sz'[x] = sz[x]
  <2>1. 0 \in 0 .. NPAGE /\ 0 \in 0 .. UADDR_SZ - 1
    BY MemoryAssumption DEF MemoryAssumption
  <2> QED
    BY <1>0, <1>1, <2>1 DEF StateOK
<1>8. /\ holes' \in [Proc -> SUBSET VPage] /\ stale' \in [Proc -> SUBSET VPage]
      /\ guard' \in [Proc -> SUBSET VPage]
      /\ \A x \in Proc : x # q => holes'[x] = holes[x] /\ stale'[x] = stale[x] /\ guard'[x] = guard[x]
  <2>1. {} \in SUBSET VPage
    OBVIOUS
  <2> QED
    BY <1>0, <1>1, <2>1 DEF StateOK, Lost
<1>9. Only(q)
  BY <1>1, <1>6, <1>7, <1>8 DEF Only
<1>10. StateOK'
  <2>1. heap' \in Heap
    BY <1>5 DEF Woods, Forest
  <2> QED
    BY <1>0, <1>1, <1>6, <1>7, <1>8, <2>1 DEF StateOK, Heap
<1>11. Roots' \subseteq Roots \ {pgdir[q]} /\ Stacks' \subseteq Stacks \ {k}
  <2>1. Roots' \subseteq (Roots \ {pgdir[q]}) \cup ({pgdir'[q], loc'[q].pd} \ {0})
    BY <1>0, <1>9, RootsKept
  <2>2. Stacks' \subseteq Stacks \ {k}
    BY <1>0, <1>3, <1>7 DEF Stacks, StacksApart
  <2> QED
    BY <1>1, <1>2, <1>7, <2>1, <2>2, NoLocalIs
<1>12. Woods(heap', Roots', Stacks')
  BY <1>5, <1>11, WoodsLess
<1>13. ~Growing(q)' /\ ~Building(q)' /\ loc'[q] = NoLocal
  BY <1>1, <1>2, NoLocalIs DEF Growing, Building
<1>14. Apart' /\ StacksApart'
  <2>1. Apart'
    BY <1>0, <1>7, <1>9, <1>13, NoLocalIs, ApartKept
  <2> QED
    BY <1>0, <1>7, <2>1 DEF StacksApart
<1>15. Reserved'
  <2>1. ASSUME NEW x \in Proc, pc'[x] = "copy"
        PROVE  /\ pc[x] = "copy" /\ loc'[x] = loc[x]
               /\ pc'[loc[x].child] = "unused" /\ kstack'[loc[x].child] # 0
    <3>1. x # q /\ pc[x] = "copy" /\ loc'[x] = loc[x] /\ loc[x].child \in Proc
      BY <1>0, <1>1, <1>6, <2>1, Typed
    <3>2. pc[loc[x].child] = "unused" /\ kstack[loc[x].child] # 0 /\ loc[x].child # q
      BY <1>0, <1>1, <3>1 DEF Reserved
    <3> QED
      BY <1>6, <1>7, <3>1, <3>2
  <2> QED
    BY <1>0, <2>1 DEF Reserved
<1>16. Own(q)'
  <2>1. Living(q)'
    BY <1>6, <1>7, <1>13 DEF Living
  <2> QED
    BY <1>6, <1>7, <1>13, <2>1 DEF Own, Imaged, BrkGrows, Copies, Loads, ExecGrows
<1>17. \A x \in Proc : x # q => Own(x)'
  BY <1>0, <1>5, <1>7, <1>9, OthersKept
<1> QED
  BY <1>10, <1>12, <1>14, <1>15, <1>16, <1>17 DEF IInv

-----------------------------------------------------------------------------
(* user_init.                                                              *)

(* One page fewer is free, at most.                                        *)
Loses(w, x) == \E n : w.h.free \ {n} \subseteq x.h.free

(* A walk that has a table to enter and a page for another.                *)
Roomy(w) == w.at # 0 /\ w.h.free # {}

(* With a free page, a level of the walk does not fail, and takes at most  *)
(* one.                                                                    *)
LEMMA EnterSucceeds ==
    ASSUME NEW h, NEW R, NEW K, NEW d \in R, NEW v \in VPage, NEW k \in 0 .. 2,
           NEW w, Walked(h, w, R, K, d, v, k), NEW x, x = Enter(w, k, v),
           Roomy(w)
    PROVE  x.at # 0 /\ Loses(w, x)
<1> DEFINE g == w.h
           t == w.at
           i == PTX(k, v)
           n == NextPage(g)
           f == Kalloc(g)
<1>0. v \in Nat /\ k \in 0 .. 3 /\ k \in 0 .. 4 /\ i \in Slot
  BY VPageBelow, PTXType
<1>1. PICK L \in SUBSET Page : Forest(g, R, K, L)
  BY DEF Walked, Woods
<1>2. n \in g.free /\ n # 0 /\ n \in Page
  <2>1. n \in g.free
    BY DEF NextPage, Roomy
  <2>2. g.free \subseteq Page
    BY <1>1 DEF Forest, Heap
  <2>3. 0 \notin Page
    BY DEF Page
  <2> HIDE DEF n
  <2> QED
    BY <2>1, <2>2, <2>3
<1>3. CASE g.table[t][i] # 0
  <2>1. x = [w EXCEPT !.at = g.table[t][i]]
    BY <1>3 DEF Enter
  <2>2. x = [h |-> g, at |-> g.table[t][i]]
    BY <2>1 DEF Walked
  <2> QED
    BY <1>3, <2>2 DEF Loses
<1>4. CASE g.table[t][i] = 0
  <2>1. x = [h |-> Link(f, t, i, n), at |-> n]
    BY <1>2, <1>4 DEF Enter, Roomy
  <2>2. f.free = g.free \ {n} /\ f \in Heap
    <3>1. Forest(f, R, K \cup {n}, L)
      BY <1>1, <1>2, KallocTakes
    <3>2. g \in Heap
      BY <1>1 DEF Forest
    <3> QED
      BY <3>1, <3>2 DEF Forest, Kalloc, Heap
  <2>3. t \in Page
    <3>1. Node(g, d, k, v) = t /\ t \in L \cup {0}
      BY <1>0, <1>1, NodeIn DEF Walked
    <3> QED
      BY <1>1, <3>1 DEF Forest, Roomy
  <2>4. PICK b : b = Link(f, t, i, n)
    OBVIOUS
  <2>5. b.free = f.free
    <3> HIDE DEF f, n, i, t
    <3> QED
      BY <1>0, <1>2, <2>2, <2>3, <2>4, LinkIs
  <2>6. x.at = n /\ x.h = b
    BY <2>1, <2>4
  <2> QED
    BY <1>2, <2>2, <2>5, <2>6 DEF Loses
<1> QED
  BY <1>3, <1>4

(* With three, the walk succeeds.                                          *)
LEMMA AllocSucceeds ==
    ASSUME NEW h, NEW R, NEW K, Woods(h, R, K), NEW d \in R, NEW v \in VPage,
           {4, 5, 6} \subseteq h.free, d # 0
    PROVE  ~Unmappable(h, d, v)
<1>1. PICK w0 : w0 = [h |-> h, at |-> d]
  OBVIOUS
<1>2. Walked(h, w0, R, K, d, v, 0) /\ w0.at # 0 /\ w0.h = h
  BY <1>1, NodeStep DEF Walked, SamePtes
<1>3. PICK w1 : w1 = Enter(w0, 0, v)
  OBVIOUS
<1>4. Walked(h, w1, R, K, d, v, 0 + 1)
  BY <1>2, <1>3, EnterWalks
<1>5. w1.at # 0 /\ Loses(w0, w1)
  <2>1. Roomy(w0)
    BY <1>2 DEF Roomy
  <2>2. PICK k \in 0 .. 2 : k = 0
    OBVIOUS
  <2>3. Walked(h, w0, R, K, d, v, k) /\ w1 = Enter(w0, k, v)
    BY <1>2, <1>3, <2>2
  <2> QED
    BY <2>1, <2>3, EnterSucceeds
<1>6. PICK w2 : w2 = Enter(w1, 1, v)
  OBVIOUS
<1>7. Walked(h, w2, R, K, d, v, 1 + 1)
  BY <1>4, <1>6, EnterWalks
<1>8. w2.at # 0 /\ \E n, m : h.free \ {n, m} \subseteq w2.h.free
  <2>1. PICK n : h.free \ {n} \subseteq w1.h.free
    BY <1>2, <1>5 DEF Loses
  <2>2. Roomy(w1)
    BY <1>5, <2>1 DEF Roomy
  <2>a. PICK k \in 0 .. 2 : k = 1
    OBVIOUS
  <2>3. Walked(h, w1, R, K, d, v, k) /\ w2 = Enter(w1, k, v)
    BY <1>4, <1>6, <2>a
  <2>4. w2.at # 0 /\ Loses(w1, w2)
    BY <2>2, <2>3, EnterSucceeds
  <2> QED
    BY <2>1, <2>4 DEF Loses
<1>9. PICK w3 : w3 = Enter(w2, 2, v)
  OBVIOUS
<1>10. w3.at # 0
  <2>1. PICK n, m : h.free \ {n, m} \subseteq w2.h.free
    BY <1>8
  <2>2. Roomy(w2)
    BY <1>8, <2>1 DEF Roomy
  <2>a. PICK k \in 0 .. 2 : k = 2
    OBVIOUS
  <2>3. Walked(h, w2, R, K, d, v, k) /\ w3 = Enter(w2, k, v)
    BY <1>7, <1>9, <2>a
  <2>4. w3.at # 0 /\ Loses(w2, w3)
    BY <2>2, <2>3, EnterSucceeds
  <2> QED
    BY <2>4
<1>11. w3 = Pgdir_alloc(h, d, v)
  BY <1>1, <1>3, <1>6, <1>9 DEF Pgdir_alloc
<1> QED
  BY <1>10, <1>11 DEF Unmappable

(* The first process has its page and nothing else.                        *)
LEMMA BootMaps ==
    /\ Woods(Boot, {2}, {1}) /\ Mapped(Boot, 2) = {0} /\ Closed(Boot, 2) = {}
<1>1. PICK h : h = [free |-> Page \ {1, 2, 3}, kernel |-> {}, ok |-> TRUE,
                    table |-> [t \in 0 .. NPAGE |-> NoEntries]]
  OBVIOUS
<1>2. /\ h.free = Page \ {1, 2, 3} /\ h.kernel = {} /\ h.ok = TRUE
      /\ h.table = [t \in 0 .. NPAGE |-> NoEntries] /\ Boot = Map_region(h, 2, 0, 3)
      /\ h = [free |-> h.free, kernel |-> h.kernel, ok |-> h.ok, table |-> h.table]
  BY <1>1 DEF Boot
<1>3. /\ NPAGE \in Nat /\ NPAGE > 5 /\ 0 \notin Page
      /\ {1, 2, 3, 4, 5, 6} \subseteq Page
      /\ \A n \in Page \cup {0} : n \in 0 .. NPAGE
  BY MemoryAssumption DEF MemoryAssumption, Page
<1>4. Forest(h, {}, {1, 3} \cup {2}, {})
  <2>1. NoEntries \in [Slot -> 0 .. NPAGE]
    BY <1>3 DEF NoEntries
  <2>2. h.table \in [0 .. NPAGE -> [Slot -> 0 .. NPAGE]]
    BY <1>2, <2>1
  <2>3. h \in Heap
    BY <1>2, <2>2, HeapIs
  <2>4. \A t \in Page \cup {0} : h.table[t] = NoEntries
    BY <1>2, <1>3
  <2> QED
    BY <1>2, <1>3, <2>3, <2>4 DEF Forest
<1>5. 2 \notin {1, 3}
  OBVIOUS
<1>6. /\ Forest(h, {} \cup {2}, {1, 3}, {} \cup {2})
      /\ Mapped(h, 2) = {} /\ Closed(h, 2) = {}
  BY <1>4, <1>5, NewRoot
<1>7. Woods(h, {2}, {1} \cup {3})
  <2>1. {2} \in SUBSET Page /\ {} \cup {2} = {2} /\ {1, 3} = {1} \cup {3}
    BY <1>3
  <2> QED
    BY <1>6, <2>1 DEF Woods
<1>8. 0 \in VPage
  <2>1. PGSIZE \in Nat /\ UADDR_SZ \in Nat /\ UADDR_SZ > PGSIZE /\ PGSIZE > 0
    BY MemoryAssumption DEF MemoryAssumption
  <2>2. ~(UADDR_SZ <= 0 * PGSIZE)
    BY <2>1
  <2>3. PageUp(UADDR_SZ) \in Nat /\ ~(PageUp(UADDR_SZ) <= 0)
    BY <2>1, <2>2, PageUpIs
  <2> QED
    BY <2>3 DEF VPage, Pages
<1>9. Pte(h, 2, 0) = 0
  BY <1>6, <1>8 DEF Mapped
<1>10. ~Unmappable(h, 2, 0)
  <2>1. {4, 5, 6} \subseteq h.free
    BY <1>2, <1>3
  <2> QED
    BY <1>7, <1>8, <2>1, AllocSucceeds
<1>11. PICK g : g = Map_region(h, 2, 0, 3)
  OBVIOUS
<1>a. PICK R, K, page : R = {2} /\ K = {1} /\ page = 3
  OBVIOUS
<1>b. PICK v \in VPage : v = 0
  BY <1>8
<1>12. PICK d \in R : d = 2
  BY <1>a
<1>13. /\ Woods(g, {2}, {1}) /\ Closed(g, 2) = Closed(h, 2)
       /\ ~Unmappable(h, 2, 0) => Mapped(g, 2) = Mapped(h, 2) \cup {0}
  <2>1. /\ Woods(h, R, K \cup {page}) /\ Pte(h, d, v) = 0 /\ g = Map_region(h, d, v, page)
        /\ page \notin K
    BY <1>b, <1>7, <1>9, <1>11, <1>12, <1>a
  <2>2. /\ Woods(g, R, K) /\ Closed(g, d) = Closed(h, d)
        /\ ~Unmappable(h, d, v) => Mapped(g, d) = Mapped(h, d) \cup {v}
    BY <1>b, <2>1, MapMaps
  <2> QED
    BY <1>12, <1>a, <1>b, <2>2
<1> QED
  BY <1>2, <1>6, <1>10, <1>11, <1>13

(* It starts in the invariant.                                             *)
LEMMA InitKeeps ==
    ASSUME Init
    PROVE  IInv
<1>0. /\ Initproc \in Proc /\ NPAGE \in Nat /\ NPAGE > 5 /\ UADDR_SZ \in Nat /\ PGSIZE \in Nat
      /\ UADDR_SZ > PGSIZE /\ PGSIZE > 0
  BY MemoryAssumption DEF MemoryAssumption
<1>1. /\ heap = Boot /\ \A p \in Proc :
            /\ kstack[p] = (IF p = Initproc THEN 1 ELSE 0) /\ pgdir[p] = (IF p = Initproc THEN 2 ELSE 0)
            /\ sz[p] = (IF p = Initproc THEN PGSIZE ELSE 0)
            /\ pc[p] = (IF p = Initproc THEN "user" ELSE "unused")
            /\ loc[p] = NoLocal /\ holes[p] = {} /\ stale[p] = {} /\ guard[p] = {}
  BY DEF Init
<1>2. Woods(heap, {2}, {1}) /\ Mapped(heap, 2) = {0} /\ Closed(heap, 2) = {}
  BY <1>1, BootMaps
<1>3. StateOK
  <2>1. heap \in Heap
    BY <1>2 DEF Woods, Forest
  <2>2. kstack \in [Proc -> 0 .. NPAGE] /\ pgdir \in [Proc -> 0 .. NPAGE]
    BY <1>0 DEF Init
  <2>3. sz \in [Proc -> 0 .. UADDR_SZ - 1]
    BY <1>0 DEF Init
  <2>4. pc \in [Proc -> PC] /\ loc \in [Proc -> Local] /\ ncalls \in Nat
    BY NoLocalIs DEF Init, PC
  <2>5. holes \in [Proc -> SUBSET VPage] /\ stale \in [Proc -> SUBSET VPage] /\ guard \in [Proc -> SUBSET VPage]
    BY DEF Init
  <2> QED
    BY <2>1, <2>2, <2>3, <2>4, <2>5 DEF StateOK, Heap
<1>4. Roots \subseteq {2} /\ Stacks \subseteq {1}
  BY <1>1, NoLocalIs DEF Roots, Stacks
<1>5. Woods(heap, Roots, Stacks)
  BY <1>2, <1>4, WoodsLess
<1>6. \A p \in Proc : ~Growing(p) /\ ~Building(p)
  BY <1>1, NoLocalIs DEF Growing, Building
<1>7. Apart /\ StacksApart /\ Reserved
  BY <1>1, <1>6 DEF Apart, StacksApart, Reserved
<1>8. ASSUME NEW p \in Proc PROVE Own(p)
  <2>1. Living(p)
    BY <1>1, <1>6 DEF Living
  <2>2. Imaged(p)
    <3>1. Pages(PGSIZE) = {0}
      <4>1. PageUp(1 * PGSIZE) = 1
        BY NoPages
      <4>2. PageUp(PGSIZE) = 1
        BY <1>0, <4>1
      <4> QED
        BY <4>2 DEF Pages
    <3> QED
      BY <1>1, <1>2, <1>6, <3>1 DEF Imaged
  <2> QED
    BY <1>1, <2>1, <2>2 DEF Own, BrkGrows, Copies, Loads, ExecGrows
<1> QED
  BY <1>3, <1>5, <1>7, <1>8 DEF IInv

-----------------------------------------------------------------------------
(* The theorems.                                                           *)

(* Every step keeps the invariant.                                         *)
LEMMA NextKeeps ==
    ASSUME IInv, [Next]_vars
    PROVE  IInv'
<1>1. ASSUME NEW p \in Proc, Step(p) PROVE IInv'
  <2>1. CASE BrkGrow(p)
    BY <2>1, BrkGrowKeeps
  <2>2. CASE BrkShrink(p)
    BY <2>2, BrkShrinkKeeps
  <2>3. CASE GrowPage(p)
    BY <2>3, GrowPageKeeps
  <2>4. CASE GrowNoPage(p)
    BY <2>4, GrowNoPageKeeps
  <2>5. CASE GrowDone(p)
    BY <2>5, GrowDoneKeeps
  <2>6. CASE Fork(p)
    BY <2>6, ForkKeeps
  <2>7. CASE CopyPage(p)
    BY <2>7, CopyPageKeeps
  <2>8. CASE CopyDone(p)
    BY <2>8, CopyDoneKeeps
  <2>9. CASE Exec(p)
    BY <2>9, ExecKeeps
  <2>10. CASE ExecSeg(p)
    BY <2>10, ExecSegKeeps
  <2>11. CASE ExecLoad(p)
    BY <2>11, ExecLoadKeeps
  <2>12. CASE ExecArgs(p)
    BY <2>12, ExecArgsKeeps
  <2>13. CASE ExecBad(p)
    BY <2>13, ExecBadKeeps
  <2>14. CASE Exit(p)
    <3>1. StateOK /\ Living(p)
      BY InvParts
    <3>2. pc[p] # "unused" /\ ~Growing(p) /\ loc[p] = NoLocal /\ ncalls' \in Nat
      BY <2>14, <3>1 DEF Exit, Living, StateOK
    <3> QED
      BY <2>14, <3>2, GotoKeeps DEF Exit
  <2>15. CASE Wait(p)
    BY <2>15, WaitKeeps
  <2> QED
    BY <1>1, <2>1, <2>2, <2>3, <2>4, <2>5, <2>6, <2>7, <2>8, <2>9, <2>10, <2>11, <2>12, <2>13,
       <2>14, <2>15 DEF Step
<1>2. CASE UNCHANGED vars
  <2>1. Roots' = Roots /\ Stacks' = Stacks
    BY <1>2 DEF vars, Roots, Stacks
  <2>2. StateOK' /\ Apart' /\ StacksApart' /\ Reserved' /\ Woods(heap', Roots', Stacks')
    BY <1>2, <2>1 DEF vars, IInv, StateOK, Apart, StacksApart, Reserved, Growing, Building
  <2>3. ASSUME NEW q \in Proc PROVE Own(q)'
    <3>1. Own(q) /\ Kept(q)
      BY <1>2 DEF vars, IInv, Kept, SameView
    <3> QED
      BY <3>1, KeptOwn
  <2> QED
    BY <2>2, <2>3 DEF IInv
<1> QED
  BY <1>1, <1>2 DEF Next

(* The invariant holds in every state.                                     *)
THEOREM MemoryInvariant == Spec => []IInv
<1>1. Init => IInv
  BY InitKeeps
<1>2. IInv /\ [Next]_vars => IInv'
  BY NextKeeps
<1> QED
  BY <1>1, <1>2, PTL DEF Spec

-----------------------------------------------------------------------------
(* What has been lost of an image, and left behind, has a cause.           *)

(* When a level of a walk fails, it leaves no free page.                   *)
LEMMA EnterFails ==
    ASSUME NEW h, NEW R, NEW K, NEW d \in R, NEW v \in VPage, NEW k \in 0 .. 2,
           NEW w, Walked(h, w, R, K, d, v, k), NEW x, x = Enter(w, k, v),
           w.at = 0 => w.h.free = {}
    PROVE  x.at = 0 => x.h.free = {}
<1> DEFINE g == w.h
           next == g.table[w.at][PTX(k, v)]
           n == NextPage(g)
<1>1. w = [h |-> g, at |-> w.at] /\ g.free \subseteq Page /\ 0 \notin Page
  BY DEF Walked, Woods, Forest, Heap, Page
<1>2. CASE w.at = 0 \/ next # 0
  <2>1. x = [w EXCEPT !.at = next]
    BY <1>2 DEF Enter
  <2>2. x = [h |-> g, at |-> next]
    BY <1>1, <2>1
  <2> QED
    BY <1>2, <2>2
<1>3. CASE ~(w.at = 0 \/ next # 0)
  <2>1. x = [h |-> IF n = 0 THEN g ELSE Link(Kalloc(g), w.at, PTX(k, v), n), at |-> n]
    BY <1>3 DEF Enter
  <2>2. n = 0 => g.free = {}
    BY <1>1 DEF NextPage
  <2> QED
    BY <2>1, <2>2
<1> QED
  BY <1>2, <1>3

(* So does map_region.                                                     *)
LEMMA MapFails ==
    ASSUME NEW h, NEW R, NEW K, Woods(h, R, K), NEW d \in R, NEW v \in VPage, d # 0,
           NEW n, Unmappable(h, d, v)
    PROVE  Map_region(h, d, v, n).free = {}
<1>1. PICK w0 : w0 = [h |-> h, at |-> d]
  OBVIOUS
<1>2. Walked(h, w0, R, K, d, v, 0) /\ w0.at # 0
  BY <1>1, NodeStep DEF Walked, SamePtes
<1>3. PICK w1 : w1 = Enter(w0, 0, v)
  OBVIOUS
<1>4. Walked(h, w1, R, K, d, v, 0 + 1)
  BY <1>2, <1>3, EnterWalks
<1>5. w1.at = 0 => w1.h.free = {}
  <2>1. PICK k \in 0 .. 2 : k = 0
    OBVIOUS
  <2>2. Walked(h, w0, R, K, d, v, k) /\ w1 = Enter(w0, k, v)
    BY <1>2, <1>3, <2>1
  <2> QED
    BY <1>2, <2>2, EnterFails
<1>6. PICK w2 : w2 = Enter(w1, 1, v)
  OBVIOUS
<1>7. Walked(h, w2, R, K, d, v, 1 + 1)
  BY <1>4, <1>6, EnterWalks
<1>8. w2.at = 0 => w2.h.free = {}
  <2>1. PICK k \in 0 .. 2 : k = 1
    OBVIOUS
  <2>2. Walked(h, w1, R, K, d, v, k) /\ w2 = Enter(w1, k, v)
    BY <1>4, <1>6, <2>1
  <2> QED
    BY <1>5, <2>2, EnterFails
<1>9. PICK w3 : w3 = Enter(w2, 2, v)
  OBVIOUS
<1>10. w3.at = 0 => w3.h.free = {}
  <2>1. PICK k \in 0 .. 2 : k = 2
    OBVIOUS
  <2>2. Walked(h, w2, R, K, d, v, k) /\ w3 = Enter(w2, k, v)
    BY <1>7, <1>9, <2>1
  <2> QED
    BY <1>8, <2>2, EnterFails
<1>11. w3 = Pgdir_alloc(h, d, v)
  BY <1>1, <1>3, <1>6, <1>9 DEF Pgdir_alloc
<1> QED
  BY <1>10, <1>11 DEF Unmappable, Map_region

(* Over pages that are mapped, deallocuvm misses none.                     *)
LEMMA VisitsMapped ==
    ASSUME NEW h, NEW R, NEW K, Woods(h, R, K), NEW d, NEW old, NEW new,
           Pages(old) \ Pages(new) \subseteq Mapped(h, d)
    PROVE  Visited(h, d, old, new) = Pages(old) \ Pages(new)
<1>1. PICK L \in SUBSET Page : Forest(h, R, K, L)
  BY DEF Woods
<1>2. ASSUME NEW v \in Mapped(h, d) PROVE HasTable(h, d, v)
  <2>1. v \in VPage /\ Pte(h, d, v) # 0
    BY <1>2 DEF Mapped
  <2>2. PTX(3, v) \in Slot
    BY <2>1, VPageBelow, PTXType
  <2>3. h.table[0][PTX(3, v)] = 0
    BY <1>1, <2>2 DEF Forest, NoEntries
  <2> QED
    BY <2>1, <2>3 DEF HasTable, Pte, Down
<1> QED
  BY <1>2 DEF Visited

(* What is missing below the size of an image, and what is mapped above.   *)
Lapse(p) ==
    /\ pgdir[p] # 0 =>
          /\ \A v \in stale[p] : v % ENTRIES = 0
          /\ ~mishap[p] => holes[p] = {} /\ stale[p] = {} /\ (Growing(p) => loc[p].holes = {})
    /\ pc[p] \in {"grow", "seg", "load", "args"} /\ ~Growing(p) /\ ~spoilt[p] =>
          loc[p].holes = {}

JInv ==
    /\ mishap \in [Proc -> BOOLEAN] /\ spoilt \in [Proc -> BOOLEAN]
    /\ \A p \in Proc : Lapse(p)

(* What a step leaves to a process.                                        *)
Spared(q) ==
    /\ pc'[q] = pc[q] /\ loc'[q] = loc[q] /\ pgdir'[q] = pgdir[q]
    /\ holes'[q] = holes[q] /\ stale'[q] = stale[q]
    /\ mishap'[q] = mishap[q] /\ spoilt'[q] = spoilt[q]

(* Only what a step does to the processes that it does not spare matters.  *)
LEMMA LapsesKept ==
    ASSUME JInv, mishap' \in [Proc -> BOOLEAN], spoilt' \in [Proc -> BOOLEAN],
           \A q \in Proc : Spared(q) \/ Lapse(q)'
    PROVE  JInv'
<1>1. \A q \in Proc : Spared(q) => Lapse(q)'
  BY DEF JInv, Spared, Lapse, Growing
<1> QED
  BY <1>1 DEF JInv

(* Steps that lose nothing: to elsewhere in the code, with the same lapses *)
(* or with none.                                                           *)
LEMMA NothingLapses ==
    ASSUME StateOK, JInv, NEW p \in Proc, NEW x \in PC, Goto(p, x), NoMishap,
           UNCHANGED <<pgdir, holes, stale>>,
           \A q \in Proc : q # p => loc'[q] = loc[q],
           Growing(p)' => loc'[p].holes = {} \/ (Growing(p) /\ loc'[p] = loc[p]),
           x \in {"grow", "seg", "load", "args"} /\ ~Growing(p)' =>
               \/ loc'[p].holes = {}
               \/ /\ pc[p] \in {"grow", "seg", "load", "args"} /\ ~Growing(p)
                  /\ loc'[p].holes = loc[p].holes
    PROVE  JInv'
<1>1. pc'[p] = x /\ \A q \in Proc : q # p => pc'[q] = pc[q]
  BY GotoIs
<1>2. mishap' = mishap /\ spoilt' = spoilt
  BY DEF NoMishap
<1>3. Lapse(p)'
  BY <1>1, <1>2 DEF JInv, Lapse, Growing
<1>4. \A q \in Proc : Spared(q) \/ Lapse(q)'
  BY <1>1, <1>2, <1>3 DEF Spared
<1> QED
  BY <1>2, <1>4, LapsesKept DEF JInv

(* brk shrinks.                                                            *)
LEMMA BrkShrinkLapses ==
    ASSUME IInv, JInv, NEW p \in Proc, BrkShrink(p)
    PROVE  JInv'
<1>0. StateOK /\ Woods(heap, Roots, Stacks) /\ Living(p) /\ Imaged(p)
  BY InvParts
<1>1. PICK n \in Brk :
         /\ n < 0 /\ sz[p] + n >= 0 /\ pc[p] = "user"
         /\ LET gone == Visited(heap, pgdir[p], sz[p], sz[p] + n) IN
            IF sz[p] + n = 0
            THEN Lost(p, holes[p] \cup gone, stale[p], guard[p] \ gone)
            ELSE Lost(p, holes[p] \cap Pages(sz[p] + n),
                      (stale[p] \cup (Pages(sz[p]) \ (Pages(sz[p] + n) \cup holes[p]))) \ gone,
                      guard[p] \ gone)
         /\ Mishap(p, mishap[p] \/ sz[p] + n = 0)
         /\ UNCHANGED <<kstack, pgdir, pc, loc>>
  BY DEF BrkShrink, Called
<1>2. PICK new : new = sz[p] + n
  OBVIOUS
<1>3. PICK gone : gone = Visited(heap, pgdir[p], sz[p], new)
  OBVIOUS
<1>4. /\ holes'[p] = (IF new = 0 THEN holes[p] \cup gone ELSE holes[p] \cap Pages(new))
      /\ stale'[p] = (IF new = 0 THEN stale[p]
                      ELSE (stale[p] \cup (Pages(sz[p]) \ (Pages(new) \cup holes[p]))) \ gone)
      /\ \A q \in Proc : q # p => holes'[q] = holes[q] /\ stale'[q] = stale[q]
  BY <1>0, <1>1, <1>2, <1>3 DEF Lost, StateOK
<1>5. /\ mishap' \in [Proc -> BOOLEAN] /\ spoilt' = spoilt
      /\ mishap'[p] <=> mishap[p] \/ new = 0
      /\ \A q \in Proc : q # p => mishap'[q] = mishap[q]
  BY <1>1, <1>2 DEF JInv, Mishap
<1>6. Lapse(p) /\ ~Growing(p) /\ pgdir[p] # 0 /\ loc[p] = NoLocal
  BY <1>0, <1>1 DEF JInv, Living
<1>7. ASSUME NEW v \in stale'[p] PROVE v % ENTRIES = 0
  <2>1. CASE v \in stale[p]
    BY <1>6, <2>1 DEF Lapse
  <2>2. CASE v \notin stale[p]
    <3>1. v \in Pages(sz[p]) \ Pages(new) /\ v \notin gone
      BY <1>4, <1>7, <2>2
    <3> QED
      BY <1>3, <3>1 DEF Visited
  <2> QED
    BY <2>1, <2>2
<1>8. ASSUME ~mishap'[p] PROVE holes'[p] = {} /\ stale'[p] = {}
  <2>1. ~mishap[p] /\ new # 0
    BY <1>5, <1>8
  <2>2. holes[p] = {} /\ stale[p] = {}
    BY <1>6, <2>1 DEF Lapse
  <2>3. Mapped(heap, pgdir[p]) = Pages(sz[p])
    BY <1>0, <1>6, <2>2 DEF Imaged
  <2>4. gone = Pages(sz[p]) \ Pages(new)
    BY <1>0, <1>3, <2>3, VisitsMapped
  <2> QED
    BY <1>4, <2>1, <2>2, <2>4
<1>9. Lapse(p)'
  BY <1>1, <1>6, <1>7, <1>8 DEF Lapse, Growing
<1>10. \A q \in Proc : Spared(q) \/ Lapse(q)'
  BY <1>1, <1>4, <1>5, <1>9 DEF Spared
<1> QED
  BY <1>5, <1>10, LapsesKept DEF JInv

(* allocuvm maps a page.                                                   *)
LEMMA GrowPageLapses ==
    ASSUME IInv, JInv, NEW p \in Proc, GrowPage(p)
    PROVE  JInv'
<1>0. /\ StateOK /\ Woods(heap, Roots, Stacks) /\ Living(p) /\ BrkGrows(p) /\ ExecGrows(p)
      /\ loc[p].pd # 0 => loc[p].pd \in Roots
  BY InvParts
<1> DEFINE l == loc[p]
           a == l.a
           n == NextPage(heap)
           lost == Unmappable(Kalloc(heap), l.pd, a)
<1>1. /\ pc[p] = "grow" /\ a * PGSIZE < l.new /\ n # 0 /\ RanEmpty(p)
      /\ UNCHANGED <<pgdir, holes, stale>>
  BY DEF GrowPage
<1>2. Lapse(p) /\ l.pd # 0 /\ l.pd \in Roots /\ l \in Local
  BY <1>0, <1>1, Typed DEF JInv, Living
<1>3. /\ mishap' \in [Proc -> BOOLEAN] /\ spoilt' \in [Proc -> BOOLEAN]
      /\ mishap'[p] <=> mishap[p] \/ (Growing(p) /\ heap'.free = {})
      /\ spoilt'[p] <=> spoilt[p] \/ (~Growing(p) /\ heap'.free = {})
      /\ \A q \in Proc : q # p => mishap'[q] = mishap[q] /\ spoilt'[q] = spoilt[q]
  BY <1>1 DEF JInv, RanEmpty, Mishap, Growing
<1>4. CASE Pte(heap, l.pd, a) # 0
  <2>1. Goto(p, "mapped") /\ UNCHANGED loc /\ "mapped" \in PC
    BY <1>4 DEF GrowPage, PC
  <2>2. pc'[p] = "mapped" /\ \A q \in Proc : q # p => pc'[q] = pc[q]
    BY <1>0, <2>1, GotoIs
  <2>3. Lapse(p)'
    BY <1>1, <1>2, <1>3, <2>1, <2>2 DEF Lapse, Growing
  <2>4. \A q \in Proc : Spared(q) \/ Lapse(q)'
    BY <1>1, <1>3, <2>1, <2>2, <2>3 DEF Spared
  <2> QED
    BY <1>3, <2>4, LapsesKept
<1>5. CASE Pte(heap, l.pd, a) = 0
  <2>1. /\ heap' = Map_region(Kalloc(heap), l.pd, a, n)
        /\ loc' = [loc EXCEPT ![p] = [l EXCEPT !.a = @ + 1, !.holes = IF lost THEN @ \cup {a} ELSE @]]
        /\ UNCHANGED pc
    BY <1>1, <1>5 DEF GrowPage, Locally
  <2>2. /\ loc'[p] = [l EXCEPT !.a = @ + 1, !.holes = IF lost THEN @ \cup {a} ELSE @]
        /\ \A q \in Proc : q # p => loc'[q] = loc[q]
    BY <1>0, <2>1 DEF StateOK
  <2>3. loc'[p].then = l.then /\ loc'[p].holes = (IF lost THEN l.holes \cup {a} ELSE l.holes)
    <3> HIDE DEF lost, a
    <3> QED
      BY <1>2, <2>2 DEF Local
  <2>4. lost => heap'.free = {}
    <3>1. a \in VPage
      <4>1. a \in Nat /\ l.new \in Nat /\ UADDR_SZ \in Nat
        BY <1>0, Typed
      <4>2. sz[p] \in Nat
        BY <1>0, Typed
      <4>3. l.new \in 0 .. UADDR_SZ - 1
        BY <1>0, <1>1, <4>1, <4>2 DEF BrkGrows, ExecGrows
      <4> QED
        BY <1>1, <4>1, <4>3, PagesBelow
    <3>2. Woods(Kalloc(heap), Roots, Stacks \cup {n})
      BY <1>0, <1>1, KallocViews
    <3> QED
      BY <1>2, <2>1, <3>1, <3>2, MapFails
  <2>5. Lapse(p)'
    <3>1. Growing(p)' <=> Growing(p)
      BY <2>3 DEF Growing
    <3> HIDE DEF lost, a, l
    <3>2. pgdir[p] # 0 /\ ~mishap'[p] /\ Growing(p) => loc'[p].holes = {}
      BY <1>2, <1>3, <2>3, <2>4 DEF Lapse, l
    <3>3. pc[p] \in {"grow", "seg", "load", "args"} /\ ~Growing(p) /\ ~spoilt'[p] => loc'[p].holes = {}
      BY <1>2, <1>3, <2>3, <2>4 DEF Lapse, l
    <3> QED
      BY <1>1, <1>2, <1>3, <2>1, <3>1, <3>2, <3>3 DEF Lapse
  <2>6. \A q \in Proc : Spared(q) \/ Lapse(q)'
    BY <1>1, <1>3, <2>1, <2>2, <2>5 DEF Spared
  <2> QED
    BY <1>3, <2>6, LapsesKept
<1> QED
  BY <1>4, <1>5

(* allocuvm finds no page.                                                 *)
LEMMA GrowNoPageLapses ==
    ASSUME IInv, JInv, NEW p \in Proc, GrowNoPage(p)
    PROVE  JInv'
<1>0. StateOK /\ Living(p) /\ BrkGrows(p)
  BY InvParts
<1> DEFINE l == loc[p]
           gone == Visited(heap, l.pd, l.new, l.old)
<1>1. /\ pc[p] = "grow" /\ l.a * PGSIZE < l.new /\ UNCHANGED pgdir
      /\ IF l.then = "brk"
         THEN /\ Lost(p, holes[p],
                      (stale[p] \cup ((PageUp(l.old) .. l.a - 1) \ l.holes)) \ gone, guard[p] \ gone)
              /\ Mishap(p, TRUE) /\ Goto(p, "user") /\ Locally(p, NoLocal)
         ELSE Goto(p, "bad") /\ NoMishap /\ UNCHANGED <<loc, holes, stale, guard>>
  BY DEF GrowNoPage
<1>2. "user" \in PC /\ "bad" \in PC
  BY DEF PC
<1>3. CASE l.then = "brk"
  <2>1. /\ pc'[p] = "user" /\ loc'[p] = NoLocal
        /\ \A q \in Proc : q # p => pc'[q] = pc[q] /\ loc'[q] = loc[q]
    BY <1>0, <1>1, <1>2, <1>3, GotoIs, LocallyIs, NoLocalIs
  <2>2. /\ stale'[p] = (stale[p] \cup ((PageUp(l.old) .. l.a - 1) \ l.holes)) \ gone
        /\ \A q \in Proc : q # p => holes'[q] = holes[q] /\ stale'[q] = stale[q]
    BY <1>0, <1>1, <1>3 DEF Lost, StateOK
  <2>3. /\ mishap' \in [Proc -> BOOLEAN] /\ spoilt' = spoilt /\ mishap'[p]
        /\ \A q \in Proc : q # p => mishap'[q] = mishap[q]
    BY <1>1, <1>3 DEF JInv, Mishap
  <2>4. ASSUME NEW v \in stale'[p], pgdir[p] # 0 PROVE v % ENTRIES = 0
    <3>1. CASE v \in stale[p]
      BY <2>4, <3>1 DEF JInv, Lapse
    <3>2. CASE v \notin stale[p]
      <4>1. v \in PageUp(l.old) .. l.a - 1 /\ v \notin gone
        BY <2>2, <2>4, <3>2
      <4>2. /\ l.a \in Nat /\ l.a <= PageUp(l.new) /\ PageUp(l.old) \in Nat /\ PageUp(l.new) \in Nat
        <5>1. l.old \in Nat /\ l.new \in Nat /\ l.a \in Nat
          BY <1>0, Typed
        <5> QED
          BY <1>0, <1>1, <1>3, <5>1, PageUpIs DEF BrkGrows, Growing
      <4>3. v \in Pages(l.new) \ Pages(l.old)
        BY <4>1, <4>2 DEF Pages
      <4> QED
        BY <4>1, <4>3 DEF Visited
    <3> QED
      BY <3>1, <3>2
  <2>5. Lapse(p)'
    BY <1>1, <2>1, <2>3, <2>4, NoLocalIs DEF Lapse, Growing
  <2>6. \A q \in Proc : Spared(q) \/ Lapse(q)'
    BY <1>1, <2>1, <2>2, <2>3, <2>5 DEF Spared
  <2> QED
    BY <2>3, <2>6, LapsesKept DEF JInv
<1>4. CASE l.then # "brk"
  BY <1>0, <1>1, <1>2, <1>4, NothingLapses DEF Growing
<1> QED
  BY <1>3, <1>4

(* allocuvm has what was asked for.                                        *)
LEMMA GrowDoneLapses ==
    ASSUME IInv, JInv, NEW p \in Proc, GrowDone(p)
    PROVE  JInv'
<1>0. StateOK /\ Living(p)
  BY InvParts
<1> DEFINE l == loc[p]
<1>1. /\ pc[p] = "grow" /\ NoMishap /\ UNCHANGED <<pgdir, stale>>
      /\ IF l.then = "brk"
         THEN holes' = [holes EXCEPT ![p] = @ \cup l.holes] /\ Goto(p, "user") /\ Locally(p, NoLocal)
         ELSE Goto(p, l.then) /\ Locally(p, [l EXCEPT !.sz = Grown(p)]) /\ UNCHANGED holes
  BY DEF GrowDone
<1>2. Lapse(p) /\ l \in Local /\ l.then \in {"brk", "load", "args"}
  BY <1>0, <1>1, Typed DEF JInv, Living
<1>3. {"user", "load", "args"} \subseteq PC
  BY DEF PC
<1>4. CASE l.then = "brk"
  <2>0. Goto(p, "user") /\ Locally(p, NoLocal) /\ holes' = [holes EXCEPT ![p] = @ \cup l.holes]
    BY <1>1, <1>4
  <2>a. "user" \in PC
    BY <1>3
  <2>b. pc'[p] = "user" /\ \A q \in Proc : q # p => pc'[q] = pc[q]
    BY <1>0, <2>0, <2>a, GotoIs
  <2>c. loc'[p] = NoLocal /\ \A q \in Proc : q # p => loc'[q] = loc[q]
    BY <1>0, <2>0, LocallyIs, NoLocalIs
  <2>1. /\ pc'[p] = "user" /\ loc'[p] = NoLocal /\ holes'[p] = holes[p] \cup l.holes
        /\ \A q \in Proc : q # p => pc'[q] = pc[q] /\ loc'[q] = loc[q] /\ holes'[q] = holes[q]
    BY <1>0, <2>0, <2>b, <2>c DEF StateOK
  <2>2. Lapse(p)'
    BY <1>1, <1>2, <1>4, <2>1, NoLocalIs DEF Lapse, Growing, NoMishap
  <2>3. \A q \in Proc : Spared(q) \/ Lapse(q)'
    BY <1>1, <2>1, <2>2 DEF Spared, NoMishap
  <2> QED
    BY <1>1, <2>3, LapsesKept DEF JInv, NoMishap
<1>5. CASE l.then # "brk"
  <2>1. loc' = [loc EXCEPT ![p] = [l EXCEPT !.sz = Grown(p)]]
    BY <1>1, <1>5 DEF Locally
  <2>2. loc'[p] = [l EXCEPT !.sz = Grown(p)] /\ \A q \in Proc : q # p => loc'[q] = loc[q]
    BY <1>0, <2>1 DEF StateOK
  <2>3. loc'[p].holes = l.holes /\ loc'[p].then = l.then
    BY <1>2, <2>2 DEF Local
  <2>4. Goto(p, l.then) /\ l.then \in PC /\ UNCHANGED <<pgdir, holes, stale>> /\ NoMishap
    BY <1>1, <1>2, <1>3, <1>5
  <2>5. ~Growing(p) /\ ~Growing(p)'
    BY <1>5, <2>3 DEF Growing
  <2> QED
    BY <1>0, <1>1, <2>2, <2>3, <2>4, <2>5, NothingLapses
<1> QED
  BY <1>4, <1>5

(* fork has copied the image, and with it what was missing of it: nothing, *)
(* for copyuvm panics at a hole.                                           *)
LEMMA CopyDoneLapses ==
    ASSUME IInv, JInv, NEW p \in Proc, CopyDone(p)
    PROVE  JInv'
<1>0. StateOK /\ Living(p) /\ Imaged(p) /\ Copies(p) /\ Reserved
  BY InvParts
<1>c. PICK q : q = loc[p].child
  OBVIOUS
<1>1. /\ pc[p] = "copy" /\ loc[p].a * PGSIZE >= sz[p]
      /\ pgdir' = [pgdir EXCEPT ![q] = loc[p].pd]
      /\ Lost(q, holes[p], {}, guard[p] \cap Pages(sz[p])) /\ Mishap(q, FALSE)
      /\ pc' = [pc EXCEPT ![p] = "user", ![q] = "user"]
      /\ Locally(p, NoLocal)
  BY <1>c DEF CopyDone
<1>2. q \in Proc /\ q # p /\ loc[q] = NoLocal
  <2>1. q \in Proc /\ pc[q] = "unused"
    BY <1>0, <1>1, <1>c, Typed DEF Reserved
  <2>2. Living(q)
    BY <2>1, InvParts
  <2> QED
    BY <1>1, <2>1, <2>2 DEF Living
<1>3. holes[p] = {}
  <2>1. /\ loc[p].a \in Nat /\ sz[p] \in Nat /\ PGSIZE \in Nat
    BY <1>0, Typed
  <2>2. loc[p].a * PGSIZE \in Nat
    BY <2>1
  <2>3. PageUp(sz[p]) <= loc[p].a /\ PageUp(sz[p]) \in Nat
    BY <1>1, <2>1, <2>2, PageUpIs
  <2>4. pgdir[p] # 0
    BY <1>1, InvParts
  <2>5. holes[p] \subseteq 0 .. PageUp(sz[p]) - 1
    BY <1>0, <2>4 DEF Imaged, Pages
  <2>6. 0 .. PageUp(sz[p]) - 1 \subseteq 0 .. loc[p].a - 1
    BY <2>1, <2>3
  <2> QED
    BY <1>0, <1>1, <2>5, <2>6 DEF Copies
<1>4. /\ loc'[p] = NoLocal /\ \A x \in Proc : x # p => loc'[x] = loc[x]
  BY <1>0, <1>1, LocallyIs, NoLocalIs
<1>5. /\ pc'[p] = "user" /\ pc'[q] = "user"
      /\ \A x \in Proc : x # p /\ x # q => pc'[x] = pc[x]
      /\ \A x \in Proc : x # q => pgdir'[x] = pgdir[x] /\ holes'[x] = holes[x] /\ stale'[x] = stale[x]
      /\ holes'[q] = {} /\ stale'[q] = {}
  <2> QED
    BY <1>0, <1>1, <1>2, <1>3 DEF Lost, StateOK
<1>6. /\ mishap' \in [Proc -> BOOLEAN] /\ spoilt' = spoilt
      /\ \A x \in Proc : x # q => mishap'[x] = mishap[x]
  BY <1>1, <1>2 DEF JInv, Mishap
<1>a. Lapse(p)
  BY DEF JInv
<1>7. Lapse(p)'
  BY <1>2, <1>4, <1>5, <1>6, <1>a, NoLocalIs DEF Lapse, Growing
<1>b. loc'[q] = NoLocal
  BY <1>2, <1>4
<1>8. Lapse(q)'
  BY <1>b, <1>5, NoLocalIs DEF Lapse, Growing
<1>9. \A x \in Proc : Spared(x) \/ Lapse(x)'
  BY <1>4, <1>5, <1>6, <1>7, <1>8 DEF Spared
<1> QED
  BY <1>6, <1>9, LapsesKept DEF JInv

(* execve has made its image.                                              *)
LEMMA ExecArgsLapses ==
    ASSUME IInv, JInv, NEW p \in Proc, ExecArgs(p)
    PROVE  JInv'
<1>0. StateOK /\ Living(p)
  BY InvParts
<1> DEFINE l == loc[p]
           g == PageUp(l.sz) - 2
<1>1. /\ pc[p] = "args"
      /\ \/ \E x \in {"nopage", "bad"} :
               Goto(p, x) /\ NoMishap /\ UNCHANGED <<pgdir, holes, stale, loc>>
         \/ /\ pgdir' = [pgdir EXCEPT ![p] = l.pd]
            /\ Lost(p, l.holes, {}, {g} \ l.holes)
            /\ mishap' = [mishap EXCEPT ![p] = spoilt[p]] /\ Unspoilt(p)
            /\ Goto(p, "user") /\ Locally(p, NoLocal)
  BY DEF ExecArgs
<1>2. {"nopage", "bad", "user"} \subseteq PC
  BY DEF PC
<1>3. Lapse(p) /\ ~Growing(p)
  BY <1>0, <1>1 DEF JInv, Living
<1>4. CASE \E x \in {"nopage", "bad"} :
              Goto(p, x) /\ NoMishap /\ UNCHANGED <<pgdir, holes, stale, loc>>
  <2>1. PICK x \in {"nopage", "bad"} :
              Goto(p, x) /\ NoMishap /\ UNCHANGED <<pgdir, holes, stale, loc>>
    BY <1>4
  <2>2. ~Growing(p)' /\ x \in PC
    BY <1>2, <1>3, <2>1 DEF Growing
  <2> QED
    BY <1>0, <2>1, <2>2, NothingLapses
<1>5. CASE /\ pgdir' = [pgdir EXCEPT ![p] = l.pd]
           /\ Lost(p, l.holes, {}, {g} \ l.holes)
           /\ mishap' = [mishap EXCEPT ![p] = spoilt[p]] /\ Unspoilt(p)
           /\ Goto(p, "user") /\ Locally(p, NoLocal)
  <2>1. /\ pc'[p] = "user" /\ loc'[p] = NoLocal
        /\ \A q \in Proc : q # p => pc'[q] = pc[q] /\ loc'[q] = loc[q]
    BY <1>0, <1>2, <1>5, GotoIs, LocallyIs, NoLocalIs
  <2>2. /\ holes'[p] = l.holes /\ stale'[p] = {}
        /\ \A q \in Proc : q # p => pgdir'[q] = pgdir[q] /\ holes'[q] = holes[q] /\ stale'[q] = stale[q]
    BY <1>0, <1>5 DEF Lost, StateOK
  <2>3. /\ mishap' \in [Proc -> BOOLEAN] /\ spoilt' \in [Proc -> BOOLEAN]
        /\ mishap'[p] = spoilt[p]
        /\ \A q \in Proc : q # p => mishap'[q] = mishap[q] /\ spoilt'[q] = spoilt[q]
    BY <1>5 DEF JInv, Unspoilt
  <2>4. ~spoilt[p] => l.holes = {}
    BY <1>1, <1>3 DEF Lapse
  <2>5. Lapse(p)'
    BY <2>1, <2>2, <2>3, <2>4, NoLocalIs DEF Lapse, Growing
  <2>6. \A q \in Proc : Spared(q) \/ Lapse(q)'
    BY <2>1, <2>2, <2>3, <2>5 DEF Spared
  <2> QED
    BY <2>3, <2>6, LapsesKept
<1> QED
  BY <1>1, <1>4, <1>5

(* execve gives up.                                                        *)
LEMMA ExecBadLapses ==
    ASSUME IInv, JInv, NEW p \in Proc, ExecBad(p)
    PROVE  JInv'
<1>0. StateOK
  BY InvParts
<1>1. /\ Unspoilt(p) /\ UNCHANGED mishap /\ Goto(p, "user") /\ Locally(p, NoLocal)
      /\ UNCHANGED <<pgdir, holes, stale>> /\ "user" \in PC
  BY DEF ExecBad, PC
<1>2. /\ pc'[p] = "user" /\ loc'[p] = NoLocal
      /\ \A q \in Proc : q # p => pc'[q] = pc[q] /\ loc'[q] = loc[q]
  BY <1>0, <1>1, GotoIs, LocallyIs, NoLocalIs
<1>3. spoilt' \in [Proc -> BOOLEAN] /\ \A q \in Proc : q # p => spoilt'[q] = spoilt[q]
  BY <1>1 DEF JInv, Unspoilt
<1>4. Lapse(p)'
  BY <1>1, <1>2, NoLocalIs DEF JInv, Lapse, Growing
<1>5. \A q \in Proc : Spared(q) \/ Lapse(q)'
  BY <1>1, <1>2, <1>3, <1>4 DEF Spared
<1> QED
  BY <1>1, <1>3, <1>5, LapsesKept DEF JInv

(* wait.                                                                   *)
LEMMA WaitLapses ==
    ASSUME IInv, JInv, NEW p \in Proc, Wait(p)
    PROVE  JInv'
<1>0. StateOK
  BY InvParts
<1>1. PICK q \in Proc :
         /\ pc[q] = "zombie" /\ pgdir' = [pgdir EXCEPT ![q] = 0]
         /\ Lost(q, {}, {}, {}) /\ Mishap(q, FALSE) /\ Goto(q, "unused") /\ UNCHANGED loc
  BY DEF Wait
<1>2. /\ pc'[q] = "unused" /\ pgdir'[q] = 0
      /\ \A x \in Proc : x # q => /\ pc'[x] = pc[x] /\ pgdir'[x] = pgdir[x]
                                  /\ holes'[x] = holes[x] /\ stale'[x] = stale[x]
  BY <1>0, <1>1, GotoIs DEF Lost, StateOK, PC
<1>3. /\ mishap' \in [Proc -> BOOLEAN] /\ spoilt' = spoilt
      /\ \A x \in Proc : x # q => mishap'[x] = mishap[x]
  BY <1>1 DEF JInv, Mishap
<1>4. Lapse(q)'
  BY <1>2 DEF Lapse
<1>5. \A x \in Proc : Spared(x) \/ Lapse(x)'
  BY <1>1, <1>2, <1>3, <1>4 DEF Spared
<1> QED
  BY <1>3, <1>5, LapsesKept DEF JInv

(* allocuvm begins with the holes there are.                               *)
LEMMA AllocLapses ==
    ASSUME StateOK, NEW p \in Proc, NEW l, NEW pd, NEW old, NEW new, NEW then,
           Allocuvm(p, l, pd, old, new, then), l \in Local
    PROVE  /\ Goto(p, "grow")
           /\ loc'[p].then = then /\ loc'[p].holes = l.holes
           /\ \A q \in Proc : q # p => loc'[q] = loc[q]
<1>1. PICK r : r = [l EXCEPT !.then = then, !.pd = pd, !.a = PageUp(old), !.old = old, !.new = new]
  OBVIOUS
<1>2. Goto(p, "grow") /\ loc' = [loc EXCEPT ![p] = r]
  BY <1>1 DEF Allocuvm, Locally
<1>3. r.then = then /\ r.holes = l.holes
  BY <1>1 DEF Local
<1> QED
  BY <1>2, <1>3 DEF StateOK

(* The calls that begin, and the steps of fork and execve between.         *)
LEMMA CallsLapse ==
    ASSUME IInv, JInv, NEW p \in Proc,
           BrkGrow(p) \/ Fork(p) \/ CopyPage(p) \/ Exec(p) \/ ExecSeg(p) \/ ExecLoad(p) \/ Exit(p)
    PROVE  JInv'
<1>0. StateOK /\ Living(p) /\ Lapse(p) /\ loc[p] \in Local
  BY InvParts, Typed DEF JInv
<1>1. {"user", "grow", "copy", "seg", "load", "bad", "zombie", "nomem", "nopage"} \subseteq PC
  BY DEF PC
<1>2. NoMishap /\ UNCHANGED <<pgdir, holes, stale>>
  BY DEF BrkGrow, Fork, CopyPage, Exec, ExecSeg, ExecLoad, Exit
<1>3. CASE BrkGrow(p)
  <2>0. PICK n \in Brk : Allocuvm(p, NoLocal, pgdir[p], sz[p], sz[p] + n, "brk")
    BY <1>3 DEF BrkGrow
  <2>1. Goto(p, "grow") /\ loc'[p].holes = {} /\ loc'[p].then = "brk"
    BY <1>0, <2>0, AllocLapses, NoLocalIs
  <2>2. \A q \in Proc : q # p => loc'[q] = loc[q]
    BY <1>0, <2>0, AllocLapses, NoLocalIs
  <2>3. Growing(p)'
    BY <2>1 DEF Growing
  <2> QED
    BY <1>0, <1>1, <1>2, <2>1, <2>2, <2>3, NothingLapses
<1>4. CASE Fork(p)
  <2>1. \E x \in {"nomem", "copy"} : Goto(p, x)
    BY <1>4 DEF Fork
  <2>2. /\ \A q \in Proc : q # p => loc'[q] = loc[q]
        /\ loc'[p] = loc[p] \/ loc'[p].then = "none"
    <3>1. \/ UNCHANGED loc
          \/ \E d, q : loc' = [loc EXCEPT ![p] = [NoLocal EXCEPT !.pd = d, !.child = q]]
      BY <1>4 DEF Fork, Locally
    <3> QED
      BY <1>0, <3>1 DEF StateOK, NoLocal
  <2>3. Growing(p)' => Growing(p) /\ loc'[p] = loc[p]
    BY <2>2 DEF Growing
  <2> QED
    BY <1>0, <1>1, <1>2, <2>1, <2>2, <2>3, NothingLapses
<1>5. CASE CopyPage(p)
  <2>1. loc[p].then # "brk" /\ pc[p] = "copy"
    BY <1>0, <1>5 DEF CopyPage, Living, Growing
  <2>2. \/ \E x \in {"user", "nopage"} : Goto(p, x)
        \/ UNCHANGED pc
    BY <1>5 DEF CopyPage
  <2>3. \E x \in PC \ {"grow", "seg", "load", "args"} : Goto(p, x)
    <3>1. pc' = pc => Goto(p, "copy")
      BY <1>0, <2>1 DEF Goto, StateOK
    <3> QED
      BY <1>1, <2>2, <3>1
  <2>4. /\ \A q \in Proc : q # p => loc'[q] = loc[q]
        /\ loc'[p].then # "brk"
    <3>1. \/ UNCHANGED loc
          \/ loc' = [loc EXCEPT ![p] = NoLocal]
          \/ loc' = [loc EXCEPT ![p] = [loc[p] EXCEPT !.a = @ + 1]]
      BY <1>5 DEF CopyPage, Locally
    <3>2. NoLocal.then = "none" /\ [loc[p] EXCEPT !.a = @ + 1].then = loc[p].then
      BY <1>0 DEF NoLocal, Local
    <3> QED
      BY <1>0, <2>1, <3>1, <3>2 DEF StateOK
  <2> QED
    BY <1>0, <1>2, <2>3, <2>4, NothingLapses DEF Growing
<1>6. CASE Exec(p)
  <2>1. \E x \in {"nomem", "seg"} : Goto(p, x)
    BY <1>6 DEF Exec
  <2>2. /\ \A q \in Proc : q # p => loc'[q] = loc[q]
        /\ loc'[p].then = "none" /\ loc'[p].holes = {}
    <3>1. \/ UNCHANGED loc
          \/ \E d, s : loc' = [loc EXCEPT ![p] = [NoLocal EXCEPT !.pd = d, !.segs = s]]
      BY <1>6 DEF Exec, Locally
    <3>2. loc[p] = NoLocal
      BY <1>0, <1>6 DEF Exec, Living
    <3>3. CASE UNCHANGED loc
      BY <3>2, <3>3, NoLocalIs
    <3>4. ASSUME NEW d, NEW segs, NEW r, r = [NoLocal EXCEPT !.pd = d, !.segs = segs],
                 loc' = [loc EXCEPT ![p] = r]
          PROVE  /\ \A q \in Proc : q # p => loc'[q] = loc[q]
                 /\ loc'[p].then = "none" /\ loc'[p].holes = {}
      <4>1. r.then = "none" /\ r.holes = {}
        BY <3>4 DEF NoLocal
      <4> QED
        BY <1>0, <3>4, <4>1 DEF StateOK
    <3> QED
      BY <3>1, <3>3, <3>4
  <2> QED
    BY <1>0, <1>1, <1>2, <2>1, <2>2, NothingLapses DEF Growing
<1>7. CASE ExecSeg(p)
  <2>1. pc[p] = "seg" /\ ~Growing(p)
    BY <1>0, <1>7 DEF ExecSeg, Living
  <2>2. \E x \in {"bad", "grow"} : Goto(p, x)
    BY <1>7 DEF ExecSeg, Allocuvm
  <2>3. /\ \A q \in Proc : q # p => loc'[q] = loc[q]
        /\ loc'[p].then # "brk" /\ loc'[p].holes = loc[p].holes
    <3>1. \/ UNCHANGED loc
          \/ \E t \in {"args", "load"} : \E pd, old, new : Allocuvm(p, loc[p], pd, old, new, t)
      BY <1>7 DEF ExecSeg
    <3>2. CASE UNCHANGED loc
      BY <2>1, <3>2 DEF Growing
    <3>3. ASSUME NEW t \in {"args", "load"}, NEW pd, NEW old, NEW new,
                 Allocuvm(p, loc[p], pd, old, new, t)
          PROVE  /\ \A q \in Proc : q # p => loc'[q] = loc[q]
                 /\ loc'[p].then # "brk" /\ loc'[p].holes = loc[p].holes
      <4>1. loc'[p].then = t
        BY <1>0, <3>3, AllocLapses
      <4> QED
        BY <1>0, <3>3, <4>1, AllocLapses
    <3> QED
      BY <3>1, <3>2, <3>3
  <2> QED
    BY <1>0, <1>1, <1>2, <2>1, <2>2, <2>3, NothingLapses DEF Growing
<1>8. CASE ExecLoad(p)
  <2>1. pc[p] = "load" /\ ~Growing(p)
    BY <1>0, <1>8 DEF ExecLoad, Living
  <2>2. \E x \in {"bad", "nopage", "seg"} : Goto(p, x)
    BY <1>8 DEF ExecLoad
  <2>3. /\ \A q \in Proc : q # p => loc'[q] = loc[q]
        /\ loc'[p].then # "brk" /\ loc'[p].holes = loc[p].holes
    <3>1. UNCHANGED loc \/ loc' = [loc EXCEPT ![p] = [loc[p] EXCEPT !.segs = Tail(@)]]
      BY <1>8 DEF ExecLoad, Locally
    <3>2. PICK r : r = [loc[p] EXCEPT !.segs = Tail(@)]
      OBVIOUS
    <3>3. r.then = loc[p].then /\ r.holes = loc[p].holes
      BY <1>0, <3>2 DEF Local
    <3> QED
      BY <1>0, <2>1, <3>1, <3>2, <3>3 DEF StateOK, Growing
  <2> QED
    BY <1>0, <1>1, <1>2, <2>1, <2>2, <2>3, NothingLapses DEF Growing
<1>9. CASE Exit(p)
  <2>1. Goto(p, "zombie") /\ UNCHANGED loc
    BY <1>9 DEF Exit
  <2> QED
    BY <1>0, <1>1, <1>2, <2>1, NothingLapses DEF Growing
<1> QED
  BY <1>3, <1>4, <1>5, <1>6, <1>7, <1>8, <1>9

(* No image lacks a page below its size but when memory has run out while  *)
(* it grew or brk has shrunk it to nothing, and what stays above is at the *)
(* begin of a table.                                                       *)
THEOREM LapsesHaveCauses == Spec => [](IInv /\ JInv)
<1>1. Init => IInv /\ JInv
  <2>1. Init => JInv
    BY NoLocalIs DEF Init, JInv, Lapse
  <2> QED
    BY <2>1, InitKeeps
<1>2. ASSUME IInv, JInv, [Next]_vars PROVE IInv' /\ JInv'
  <2>1. UNCHANGED vars => JInv'
    BY <1>2 DEF vars, JInv, Lapse, Growing
  <2>2. ASSUME NEW p \in Proc, Step(p) PROVE JInv'
    BY <1>2, <2>2, BrkShrinkLapses, GrowPageLapses, GrowNoPageLapses, GrowDoneLapses,
       CopyDoneLapses, ExecArgsLapses, ExecBadLapses, WaitLapses, CallsLapse DEF Step
  <2>3. IInv'
    BY <1>2, NextKeeps
  <2> QED
    BY <1>2, <2>1, <2>2, <2>3 DEF Next
<1> QED
  BY <1>1, <1>2, PTL DEF Spec

(* The types hold, and a page is in one place: kalloc.c's list, one kernel *)
(* stack, or one entry of one table of one address space, whatever brk,    *)
(* fork, execve, exit and wait do at the same time.                        *)
THEOREM PagesAreApart == Spec => []PagesApart
<1>1. IInv /\ JInv => PagesApart
  BY InOnePlace DEF IInv, JInv, StateOK, TypeOK, PagesApart
<1> QED
  BY <1>1, LapsesHaveCauses, PTL

(* In user mode a page directory maps the pages below p->sz and no others, *)
(* unless memory has run out while the image grew, the one case in which   *)
(* map_region's failure is lost, or brk has shrunk it to nothing; and then *)
(* deallocuvm has left no pages above but the first ones of tables.        *)
THEOREM ImagesExact == Spec => []ImageExact
<1>1. ASSUME IInv, JInv, NEW p \in Proc, pc[p] \in {"user", "zombie"}
      PROVE  /\ ~mishap[p] => Mapped(heap, pgdir[p]) = Pages(sz[p])
             /\ \A v \in Mapped(heap, pgdir[p]) \ Pages(sz[p]) : v % ENTRIES = 0
  <2>1. Living(p) /\ Imaged(p) /\ Lapse(p)
    BY <1>1, InvParts DEF JInv
  <2>2. pgdir[p] # 0 /\ ~Growing(p)
    BY <1>1, <2>1 DEF Living
  <2>3. Mapped(heap, pgdir[p]) = (Pages(sz[p]) \ holes[p]) \cup stale[p]
    BY <2>1, <2>2 DEF Imaged
  <2>4. \A v \in Mapped(heap, pgdir[p]) \ Pages(sz[p]) : v % ENTRIES = 0
    BY <2>1, <2>2, <2>3 DEF Lapse
  <2>5. ~mishap[p] => Mapped(heap, pgdir[p]) = Pages(sz[p])
    BY <2>1, <2>2, <2>3 DEF Lapse
  <2> QED
    BY <2>4, <2>5
<1>2. IInv /\ JInv => ImageExact
  BY <1>1 DEF ImageExact
<1> QED
  BY <1>2, LapsesHaveCauses, PTL

(* In user mode the one page that is closed to the user is the stack guard *)
(* that execve made, in every copy of the image.                           *)
THEOREM GuardsKept == Spec => []GuardKept
<1>1. ASSUME IInv, NEW p \in Proc, pc[p] \in {"user", "zombie"}
      PROVE  Closed(heap, pgdir[p]) = guard[p]
  <2>1. Living(p) /\ Imaged(p)
    BY <1>1, InvParts
  <2>2. pgdir[p] # 0
    BY <1>1, <2>1 DEF Living
  <2> QED
    BY <2>1, <2>2 DEF Imaged
<1>2. IInv => GuardKept
  BY <1>1 DEF GuardKept
<1> QED
  BY <1>2, MemoryInvariant, PTL
=============================================================================
