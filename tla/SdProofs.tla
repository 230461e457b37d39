------------------------------ MODULE SdProofs ------------------------------
(* Theorems about Sd, for any number of processes and of buffers. *)
EXTENDS Sd, TLAPS

(* Who asks for a buffer is in sdrw with it, and alone; the handler finds  *)
(* the queue as it tested it, since requesters only link real buffers.     *)
BufInv ==
    /\ \A p \in Proc : IF pc[p] = "out" THEN buf[p] = Nil ELSE buf[p] \in Buf
    /\ \A p, q \in Proc : buf[p] = buf[q] /\ buf[p] # Nil => p = q
    /\ ipc \in {"intr", "pop"} => qnext[Head] # Nil
    /\ irq = "READ_RDY" => xfer.data \in Val

(* A dirty buffer belongs to a process in sdrw, and the card writes what   *)
(* such a buffer holds.                                                    *)
WriteInv ==
    /\ \A b \in Buf : dirty[b] => \E p \in Proc : buf[p] = b
    /\ xfer.write => /\ xfer.buf \in Buf
                     /\ dirty[xfer.buf] /\ data[xfer.buf] = xfer.data

SdInv == TypeOK /\ BufInv /\ WriteInv

(* Every step of the requesters, of the handler and of the card preserves  *)
(* the invariant.                                                          *)
LEMMA SdInvNext == SdInv /\ [Next]_vars => SdInv'
  <1> SUFFICES ASSUME SdInv, [Next]_vars PROVE SdInv'
    OBVIOUS
  <1> USE SdAssumption DEF SdInv, TypeOK, BufInv, WriteInv, PC, IPC
  <1>1. ASSUME NEW p \in Proc, Call(p) PROVE SdInv'
    <2>1. PICK b \in Buf, v \in Val : /\ \A q \in Proc : buf[q] # b
                                      /\ data' = [data EXCEPT ![b] = v]
                                      /\ buf' = [buf EXCEPT ![p] = b]
                                      /\ \/ valid' = [valid EXCEPT ![b] = FALSE]
                                         \/ UNCHANGED valid
                                      /\ \/ UNCHANGED dirty
                                         \/ dirty' = [dirty EXCEPT ![b] = TRUE]
      BY <1>1 DEF Call
    <2>2. UNCHANGED <<qnext, disk, sdlock, xfer, irq, empty, tmp, ipc, nxt, failed, raced>>
          /\ pc' = [pc EXCEPT ![p] = "empty"]
      BY <1>1 DEF Call, Goto
    <2>3. TypeOK'
      <3>1. valid' \in [Buf -> BOOLEAN]
        BY <2>1
      <3>2. dirty' \in [Buf -> BOOLEAN]
        BY <2>1
      <3>3. /\ data' \in [Buf -> Val] /\ pc' \in [Proc -> PC]
            /\ buf' \in [Proc -> Buf \cup {Nil}]
        BY <2>1, <2>2
      <3> QED
        BY <2>2, <3>1, <3>2, <3>3
    <2>6. BufInv'
      BY <1>1, <2>1, <2>2 DEF Call
    <2>4. xfer.write => xfer.buf # b
      BY <2>1
    <2>5. \A d \in Buf : dirty'[d] => \E q \in Proc : buf'[q] = d
      <3>1. SUFFICES ASSUME NEW d \in Buf, dirty'[d], d # b PROVE \E q \in Proc : buf'[q] = d
        BY <2>1
      <3>2. PICK q \in Proc : buf[q] = d
        BY <2>1, <3>1
      <3>3. q # p
        BY <1>1, <3>2 DEF Call
      <3> QED
        BY <2>1, <3>2, <3>3
    <2> QED
      BY <2>1, <2>2, <2>3, <2>4, <2>5, <2>6
  <1>2. ASSUME NEW p \in Proc, TestEmpty(p) PROVE SdInv'
    BY <1>2 DEF TestEmpty, Goto
  <1>3. ASSUME NEW p \in Proc, Walk(p) PROVE SdInv'
    BY <1>3 DEF Walk, Goto
  <1>4. ASSUME NEW p \in Proc, Link(p) PROVE SdInv'
    BY <1>4 DEF Link, Goto
  <1>5. ASSUME NEW p \in Proc, Clear(p) PROVE SdInv'
    BY <1>5 DEF Clear, Goto
  <1>6. ASSUME NEW p \in Proc, Lock(p) PROVE SdInv'
    BY <1>6 DEF Lock, Goto
  <1>7. ASSUME NEW p \in Proc, Start(p) PROVE SdInv'
    BY <1>7 DEF Start, Started, CanStart, NoXfer, Goto
  <1>8. ASSUME NEW p \in Proc, Sleep(p) PROVE SdInv'
    BY <1>8 DEF Sleep, Goto
  <1>9. ASSUME NEW p \in Proc, Check(p) PROVE SdInv'
    <2>1. CASE Done(buf[p])
      <3>1. /\ buf' = [buf EXCEPT ![p] = Nil] /\ pc' = [pc EXCEPT ![p] = "out"] /\ sdlock' = Nil
            /\ failed' \in [Buf -> BOOLEAN]
            /\ UNCHANGED <<qnext, valid, dirty, data, disk, xfer, irq, empty, tmp, ipc, nxt, raced>>
        BY <1>9, <2>1 DEF Check, Goto
      <3>2. \A d \in Buf : dirty[d] => \E q \in Proc : q # p /\ buf[q] = d
        BY <2>1 DEF Done
      <3>3. TypeOK' /\ BufInv'
        BY <3>1
      <3>4. WriteInv'
        BY <3>1, <3>2
      <3> QED
        BY <3>3, <3>4
    <2>2. CASE ~Done(buf[p])
      BY <1>9, <2>2 DEF Check, Goto
    <2> QED
      BY <2>1, <2>2
  <1>10. CASE Finish
    BY <1>10 DEF Finish
  <1>18. CASE Fail
    BY <1>18 DEF Fail
  <1>11. CASE IntrLock
    BY <1>11 DEF IntrLock
  <1>12. CASE IntrRestart
    BY <1>12 DEF IntrRestart, Started
  <1>13. CASE IntrDone
    <2> DEFINE b == qnext[Head]
    <2>1. b \in Buf
      BY <1>13 DEF IntrDone, Ends
    <2>2. data' \in [Buf -> Val]
      <3>1. CASE dirty[b]
        BY <1>13, <3>1 DEF IntrDone, Move
      <3>2. CASE ~dirty[b]
        <4>1. PICK v \in IF irq = "READ_RDY" THEN {xfer.data} ELSE Val :
                  data' = [data EXCEPT ![b] = v]
          BY <1>13, <3>2 DEF IntrDone, Move
        <4>2. v \in Val
          OBVIOUS
        <4> QED
          BY <2>1, <4>1, <4>2
      <3> QED
        BY <3>1, <3>2
    <2>3. /\ xfer' = NoXfer /\ irq' = Nil /\ ipc' = "pop"
          /\ valid' = [valid EXCEPT ![b] = TRUE]
          /\ dirty' = [dirty EXCEPT ![b] = FALSE]
          /\ pc' = Woken(b)
          /\ failed' \in [Buf -> BOOLEAN] /\ raced' \in BOOLEAN
          /\ UNCHANGED <<qnext, disk, sdlock, buf, empty, tmp, nxt>>
      BY <1>13 DEF IntrDone, Credit
    <2> HIDE DEF b
    <2>4. TypeOK'
      BY <2>1, <2>2, <2>3 DEF NoXfer, Woken
    <2>5. BufInv'
      <3>1. \A p \in Proc : IF pc'[p] = "out" THEN buf'[p] = Nil ELSE buf'[p] \in Buf
        BY <2>3 DEF Woken
      <3> QED
        BY <1>13, <2>3, <3>1 DEF IntrDone, Ends
    <2>6. WriteInv'
      BY <2>1, <2>3 DEF NoXfer
    <2> QED
      BY <2>4, <2>5, <2>6
  <1>14. CASE IntrLoad
    BY <1>14 DEF IntrLoad
  <1>15. CASE IntrStore
    BY <1>15 DEF IntrStore
  <1>16. CASE IntrMore
    BY <1>16 DEF IntrMore, Started, CanStart, NoXfer
  <1>17. CASE UNCHANGED vars
    BY <1>17 DEF vars
  <1> QED
    BY <1>1, <1>2, <1>3, <1>4, <1>5, <1>6, <1>7, <1>8, <1>9, <1>10, <1>11, <1>12, <1>13, <1>14, <1>15, <1>16, <1>17, <1>18 DEF Next, Sdrw, SdIntr

(* An empty queue and an idle card satisfy the invariant. *)
LEMMA SdInvInit == Init => SdInv
  <1> SUFFICES ASSUME Init PROVE SdInv
    OBVIOUS
  <1>1. TypeOK
    BY DEF Init, TypeOK, PC, IPC, NoXfer
  <1>2. BufInv /\ WriteInv
    BY SdAssumption DEF Init, BufInv, WriteInv, NoXfer
  <1> QED
    BY <1>1, <1>2 DEF SdInv

(* The invariant holds for any number of processes and buffers. *)
THEOREM SdInvariant == Spec => []SdInv
  BY SdInvInit, SdInvNext, PTL DEF Spec

(* The variables keep their types: no step follows the queue to nothing.   *)
THEOREM TypeCorrect == Spec => []TypeOK
  <1>1. SdInv => TypeOK
    BY DEF SdInv
  <1> QED
    BY <1>1, SdInvariant, PTL

(* For any number of processes: a block on the card is only ever written   *)
(* with the contents of its own buffer, held by a process inside sdrw.     *)
THEOREM WritesOwnBlock == Spec => []CardWritesRequest
  <1>1. SdInv => CardWritesRequest
    BY DEF SdInv, WriteInv, CardWritesRequest
  <1> QED
    BY <1>1, SdInvariant, PTL

-----------------------------------------------------------------------------
(* A request that is linked and not done. *)
Pending(p) == pc[p] \in {"clear", "lock", "start", "sleep", "asleep"} /\ ~Done(buf[p])
Linked(b) == \E p \in Proc : buf[p] = b /\ Pending(p)

(* Its qnext is set, too. *)
Chained(b) == Linked(b) /\ \A p \in Proc : pc[p] = "clear" => buf[p] # b

(* The queue: from its head on, each link is to a request that is pending, *)
(* and no two links are to the same one; the handler may be about to       *)
(* unlink the first, which is done.                                        *)
ListInv ==
    /\ qnext[Head] # Nil /\ ipc \notin {"pop", "popped"} => Linked(qnext[Head])
    /\ \A b \in Buf : Chained(b) /\ qnext[b] # Nil =>
          Linked(qnext[b]) /\ qnext[b] # qnext[Head]
    /\ \A b, c \in Buf : Chained(b) /\ Chained(c) /\ qnext[b] = qnext[c] /\ qnext[b] # Nil => b = c

PopInv ==
    /\ ipc \in {"pop", "popped"} =>
          /\ qnext[Head] \in Buf /\ ~Linked(qnext[Head])
          /\ qnext[qnext[Head]] # Nil =>
                /\ Linked(qnext[qnext[Head]])
                /\ \A d \in Buf : Chained(d) => qnext[d] # qnext[qnext[Head]]
    /\ ipc = "popped" => nxt = qnext[qnext[Head]]

(* Process p is to start its own request, ... *)
Starts(p) == pc[p] = "start" \/ (pc[p] \in {"clear", "lock"} /\ empty[p])

(* ... b, the first in the queue, of which the card does not know yet. *)
Fresh(b) == qnext[Head] = b /\ xfer = NoXfer /\ irq = Nil /\ ipc = "idle"

(* The card works on the request for b, or has an answer for the handler.  *)
InService(b) ==
    /\ xfer.buf = b /\ (xfer.write <=> dirty[b])
    /\ dirty[b] => xfer.data = data[b]
    /\ irq = "READ_RDY" => ~dirty[b] /\ xfer.data = disk[b]
    /\ irq = "DATA_DONE" => dirty[b] /\ disk[b] = data[b]

CardInv ==
    /\ sdlock = Intr <=> ipc # "idle"
    /\ irq # Nil => xfer # NoXfer
    /\ xfer # NoXfer => qnext[Head] # Nil /\ InService(qnext[Head]) /\ ipc \in {"idle", "intr"}
    /\ ipc = "intr" => irq # Nil
    /\ qnext[Head] # Nil /\ xfer = NoXfer /\ ipc = "idle" =>
          \E p \in Proc : Starts(p)

(* How far the request of process p has come. *)
Stage(p) ==
    /\ sdlock = p <=> pc[p] \in {"start", "sleep", "check"}
    /\ pc[p] \in {"empty", "push", "walk", "clear", "asleep"} => ~Done(buf[p])
    /\ pc[p] \in {"overslept", "relock", "check"} => Done(buf[p])
    /\ pc[p] # "out" /\ Done(buf[p]) => data[buf[p]] = disk[buf[p]] \/ failed[buf[p]]

Pushing(p) ==
    /\ InPush(p) => ~InPop /\ \A q \in Proc : q # p => ~InPush(q)
    /\ pc[p] \in {"push", "walk"} => IF empty[p] THEN qnext[Head] = Nil /\ tmp[p] = Head
                                      ELSE qnext[Head] # Nil /\ (tmp[p] = Head \/ Linked(tmp[p]))
    /\ pc[p] = "walk" => qnext[tmp[p]] = Nil
    /\ Starts(p) => Fresh(buf[p])

StepInv ==
    ~raced => ListInv /\ PopInv /\ CardInv /\ \A p \in Proc : Stage(p) /\ Pushing(p)

(* Steps that leave the requests as they are. *)
LEMMA LinkedKept ==
    ASSUME \A p \in Proc : /\ Pending(p)' <=> Pending(p)
                           /\ pc'[p] = "clear" <=> pc[p] = "clear"
                           /\ Pending(p) \/ pc[p] = "clear" => buf'[p] = buf[p]
    PROVE  \A b : (Linked(b)' <=> Linked(b)) /\ (Chained(b)' <=> Chained(b))
  <1>1. \A b : Linked(b)' <=> Linked(b)
    BY DEF Linked
  <1> QED
    BY <1>1 DEF Chained

(* The queue is kept by steps that neither touch it nor the requests. *)
LEMMA ListKept ==
    ASSUME ListInv, PopInv, UNCHANGED <<qnext, nxt>>,
           ipc' = ipc \/ {ipc, ipc'} \subseteq {"idle", "intr", "more"},
           \A b : (Linked(b)' <=> Linked(b)) /\ (Chained(b)' <=> Chained(b))
    PROVE  ListInv' /\ PopInv'
  BY DEF ListInv, PopInv

(* What the types and the invariant say of the state before a step. *)
Before ==
    /\ pc \in [Proc -> PC] /\ buf \in [Proc -> Buf \cup {Nil}] /\ ipc \in IPC
    /\ qnext \in [Buf \cup {Head} -> Buf \cup {Nil}] /\ nxt \in Buf \cup {Nil}
    /\ tmp \in [Proc -> Buf \cup {Head}] /\ empty \in [Proc -> BOOLEAN]
    /\ data \in [Buf -> Val] /\ disk \in [Buf -> Val]
    /\ dirty \in [Buf -> BOOLEAN] /\ valid \in [Buf -> BOOLEAN] /\ failed \in [Buf -> BOOLEAN]
    /\ sdlock \in Proc \cup {Intr, Nil} /\ raced \in BOOLEAN
    /\ irq \in {Nil, "READ_RDY", "DATA_DONE", "DATA_ERROR", "ERROR"}
    /\ xfer \in [buf : Buf \cup {Nil}, write : BOOLEAN, data : Val \cup {Nil}]
    /\ \A p \in Proc : IF pc[p] = "out" THEN buf[p] = Nil ELSE buf[p] \in Buf
    /\ \A p, q \in Proc : buf[p] = buf[q] /\ buf[p] # Nil => p = q
    /\ ListInv /\ PopInv /\ CardInv /\ \A p \in Proc : Stage(p) /\ Pushing(p)

(* The invariant that is left to show, when nobody raced. *)
After == ListInv /\ PopInv /\ CardInv /\ \A p \in Proc : Stage(p) /\ Pushing(p)

(* A linked buffer is a buffer of its requester. *)
LEMMA LinkedIsBuf == Before => \A b : Linked(b) => b \in Buf
  BY DEF Before, Linked, Pending

-----------------------------------------------------------------------------
(* A new request is for a buffer that is not in the queue. *)
LEMMA StepCall ==
    ASSUME Before, NEW p \in Proc, Call(p), ~raced
    PROVE  After'
  <1> USE SdAssumption
  <1>0. /\ pc \in [Proc -> PC] /\ buf \in [Proc -> Buf \cup {Nil}]
        /\ data \in [Buf -> Val] /\ dirty \in [Buf -> BOOLEAN] /\ valid \in [Buf -> BOOLEAN]
        /\ \A q \in Proc : IF pc[q] = "out" THEN buf[q] = Nil ELSE buf[q] \in Buf
        /\ \A q \in Proc : Stage(q) /\ Pushing(q)
        /\ ListInv /\ PopInv /\ CardInv
    BY DEF Before
  <1>1. PICK b \in Buf, v \in Val :
            /\ \A q \in Proc : buf[q] # b
            /\ data' = [data EXCEPT ![b] = v]
            /\ buf' = [buf EXCEPT ![p] = b]
            /\ \/ /\ valid' = [valid EXCEPT ![b] = FALSE]
                  /\ UNCHANGED dirty
               \/ /\ valid[b]
                  /\ dirty' = [dirty EXCEPT ![b] = TRUE]
                  /\ UNCHANGED valid
    BY DEF Call
  <1>2. /\ pc[p] = "out" /\ pc' = [pc EXCEPT ![p] = "empty"]
        /\ UNCHANGED <<qnext, disk, sdlock, xfer, irq, empty, tmp, ipc, nxt, failed, raced>>
    BY DEF Call, Goto
  <1>3. /\ \A d \in Buf : d # b => UNCHANGED <<data[d], dirty[d], valid[d]>>
        /\ ~Done(b)'
    BY <1>0, <1>1 DEF Done
  <1>4. \A q \in Proc : q # p /\ pc[q] # "out" => Done(buf[q])' = Done(buf[q]) /\ buf[q] # b
    BY <1>0, <1>1, <1>3 DEF Done
  <1>5. \A d : (Linked(d)' <=> Linked(d)) /\ (Chained(d)' <=> Chained(d))
    <2>1. \A q \in Proc : /\ Pending(q)' <=> Pending(q)
                          /\ pc'[q] = "clear" <=> pc[q] = "clear"
                          /\ Pending(q) \/ pc[q] = "clear" => buf'[q] = buf[q]
      BY <1>0, <1>1, <1>2, <1>4 DEF Pending
    <2> QED
      BY <2>1, LinkedKept
  <1>6. ListInv' /\ PopInv'
    BY <1>0, <1>2, <1>5, ListKept
  <1>7. ~Linked(b)
    BY <1>1 DEF Linked
  <1>8. CardInv'
    <2>1. xfer # NoXfer => qnext[Head] # b /\ qnext[Head] \in Buf
      BY <1>0, <1>7, LinkedIsBuf DEF CardInv, ListInv
    <2>2. xfer # NoXfer => InService(qnext[Head])'
      BY <1>0, <1>2, <1>3, <2>1 DEF CardInv, InService
    <2>3. \A q \in Proc : Starts(q)' <=> Starts(q)
      BY <1>0, <1>2 DEF Starts
    <2> QED
      BY <1>0, <1>2, <2>2, <2>3 DEF CardInv, NoXfer
  <1>9. \A q \in Proc : Stage(q)'
    <2>1. Stage(p)'
      BY <1>0, <1>1, <1>2, <1>3 DEF Stage
    <2>2. ASSUME NEW q \in Proc, q # p PROVE Stage(q)'
      <3>1. pc'[q] = pc[q] /\ buf'[q] = buf[q]
        BY <1>0, <1>1, <1>2, <2>2
      <3>2. pc[q] # "out" => UNCHANGED <<data[buf[q]], dirty[buf[q]], valid[buf[q]]>>
        BY <1>0, <1>3, <1>4, <2>2, <3>1
      <3> QED
        BY <1>0, <1>2, <3>1, <3>2 DEF Stage, Done
    <2> QED
      BY <2>1, <2>2
  <1>10. \A q \in Proc : Pushing(q)'
    BY <1>0, <1>1, <1>2, <1>5 DEF Pushing, InPush, InPop, Starts, Fresh
  <1> QED
    BY <1>6, <1>8, <1>9, <1>10 DEF After

(* A process comes to the queue, finds it empty or not, and looks for its  *)
(* end; meanwhile nobody else changes it.                                  *)
LEMMA StepLook ==
    ASSUME Before, NEW p \in Proc, TestEmpty(p) \/ Walk(p), ~raced'
    PROVE  After'
  <1> USE SdAssumption
  <1>0. /\ pc \in [Proc -> PC] /\ buf \in [Proc -> Buf \cup {Nil}] /\ ipc \in IPC
        /\ qnext \in [Buf \cup {Head} -> Buf \cup {Nil}]
        /\ tmp \in [Proc -> Buf \cup {Head}] /\ empty \in [Proc -> BOOLEAN]
        /\ \A q \in Proc : Stage(q) /\ Pushing(q)
        /\ ListInv /\ PopInv /\ CardInv
    BY DEF Before
  <1>1. /\ UNCHANGED <<qnext, valid, dirty, data, disk, sdlock, xfer, irq, buf, ipc, nxt, failed>>
        /\ pc[p] \in {"empty", "push"} /\ pc'[p] \in {"push", "walk"}
        /\ \A q \in Proc : q # p => UNCHANGED <<pc[q], empty[q], tmp[q]>>
    BY <1>0 DEF TestEmpty, Walk, Goto
  <1>2. \A d : (Linked(d)' <=> Linked(d)) /\ (Chained(d)' <=> Chained(d))
    <2>1. \A q \in Proc : /\ Pending(q)' <=> Pending(q)
                          /\ pc'[q] = "clear" <=> pc[q] = "clear"
                          /\ Pending(q) \/ pc[q] = "clear" => buf'[q] = buf[q]
      BY <1>0, <1>1 DEF Pending, Done
    <2> QED
      BY <2>1, LinkedKept
  <1>3. ListInv' /\ PopInv'
    BY <1>0, <1>1, <1>2, ListKept
  <1>4. CardInv'
    <2>1. \A q \in Proc : Starts(q) => Starts(q)'
      BY <1>0, <1>1 DEF Starts
    <2> QED
      BY <1>0, <1>1, <2>1 DEF CardInv, InService, NoXfer
  <1>5. \A q \in Proc : Stage(q)'
    BY <1>0, <1>1 DEF Stage, Done
  <1>6. ~InPop /\ \A q \in Proc : q # p => ~InPush(q)
    BY <1>0 DEF TestEmpty, Walk, Pushing, InPush
  <1>7. ASSUME NEW q \in Proc, q # p PROVE Pushing(q)'
    BY <1>0, <1>1, <1>2, <1>6, <1>7 DEF Pushing, InPush, InPop, Starts, Fresh
  <1>8. Pushing(p)'
    <2>1. CASE TestEmpty(p)
      BY <1>0, <1>1, <1>2, <1>6, <2>1 DEF TestEmpty, Goto, Pushing, InPush, InPop, Starts
    <2>2. CASE Walk(p) /\ qnext[tmp[p]] # Nil
      <3>1. /\ tmp' = [tmp EXCEPT ![p] = qnext[tmp[p]]] /\ pc[p] = "push" /\ pc'[p] = "push"
            /\ empty'[p] = empty[p]
        BY <1>0, <2>2 DEF Walk
      <3>2. ~empty[p]
        BY <1>0, <2>2, <3>1 DEF Pushing
      <3>3. Linked(qnext[tmp[p]])
        <4>1. CASE tmp[p] = Head
          BY <1>0, <1>6, <2>2, <4>1 DEF ListInv, InPop
        <4>2. CASE tmp[p] # Head
          <5>1. Linked(tmp[p]) /\ tmp[p] \in Buf
            BY <1>0, <3>1, <3>2, <4>2 DEF Pushing
          <5>2. Chained(tmp[p])
            BY <1>6, <3>1, <5>1 DEF Chained, InPush
          <5> QED
            BY <1>0, <2>2, <5>1, <5>2 DEF ListInv
        <4> QED
          BY <4>1, <4>2
      <3> QED
        BY <1>0, <1>1, <1>2, <1>6, <3>1, <3>2, <3>3 DEF Pushing, InPush, InPop, Starts
    <2>3. CASE Walk(p) /\ qnext[tmp[p]] = Nil
      BY <1>0, <1>1, <1>2, <1>6, <2>3 DEF Walk, Goto, Pushing, InPush, InPop, Starts
    <2> QED
      BY <2>1, <2>2, <2>3
  <1> QED
    BY <1>3, <1>4, <1>5, <1>7, <1>8 DEF After

(* The last request of the queue gets a successor, or the empty queue its  *)
(* first request.                                                          *)
LEMMA StepLink ==
    ASSUME Before, NEW p \in Proc, Link(p)
    PROVE  After'
  <1> USE SdAssumption
  <1>0. /\ pc \in [Proc -> PC] /\ buf \in [Proc -> Buf \cup {Nil}] /\ ipc \in IPC
        /\ qnext \in [Buf \cup {Head} -> Buf \cup {Nil}] /\ nxt \in Buf \cup {Nil}
        /\ tmp \in [Proc -> Buf \cup {Head}] /\ empty \in [Proc -> BOOLEAN]
        /\ sdlock \in Proc \cup {Intr, Nil}
        /\ \A q \in Proc : IF pc[q] = "out" THEN buf[q] = Nil ELSE buf[q] \in Buf
        /\ \A q, r \in Proc : buf[q] = buf[r] /\ buf[q] # Nil => q = r
        /\ \A q \in Proc : Stage(q) /\ Pushing(q)
        /\ ListInv /\ PopInv /\ CardInv
    BY DEF Before
  <1>1. /\ pc[p] = "walk" /\ pc' = [pc EXCEPT ![p] = "clear"]
        /\ qnext' = [qnext EXCEPT ![tmp[p]] = buf[p]]
        /\ UNCHANGED <<valid, dirty, data, disk, sdlock, xfer, irq, buf, empty, tmp, ipc, nxt, failed, raced>>
    BY DEF Link, Goto
  <1>2. /\ ~InPop /\ \A q \in Proc : q # p => ~InPush(q)
        /\ qnext[tmp[p]] = Nil /\ buf[p] \in Buf /\ ~Done(buf[p])
        /\ IF empty[p] THEN qnext[Head] = Nil /\ tmp[p] = Head
                        ELSE qnext[Head] # Nil /\ tmp[p] \in Buf /\ Linked(tmp[p])
    BY <1>0, <1>1 DEF Pushing, Stage, InPush
  <1>7. ~Linked(buf[p])
    BY <1>0, <1>1, <1>2 DEF Linked, Pending
  <1>8. \A d : Linked(d)' <=> Linked(d) \/ d = buf[p]
    BY <1>0, <1>1, <1>2 DEF Linked, Pending, Done
  <1>9. \A d : Chained(d)' <=> Chained(d)
    BY <1>0, <1>1, <1>2, <1>7, <1>8 DEF Chained, InPush
  <1>3. ListInv' /\ PopInv'
    <2>1. \A d \in Buf : Chained(d) => d # buf[p] /\ qnext[d] # buf[p]
      BY <1>0, <1>2, <1>7 DEF Chained, ListInv
    <2>2. \A d \in Buf : qnext'[d] = IF d = tmp[p] THEN buf[p] ELSE qnext[d]
      BY <1>0, <1>1
    <2>3. qnext'[Head] = IF tmp[p] = Head THEN buf[p] ELSE qnext[Head]
      BY <1>0, <1>1
    <2>4. \A e : e = qnext'[Head] /\ e # Nil => Linked(e)'
      BY <1>0, <1>2, <1>8, <2>3 DEF ListInv, InPop
    <2>7. qnext[Head] # Nil => Linked(qnext[Head])
      BY <1>0, <1>2 DEF ListInv, InPop
    <2>5. ASSUME NEW d \in Buf, Chained(d), NEW e, e = qnext'[d], e # Nil
          PROVE  Linked(e)' /\ e # qnext'[Head]
      BY <1>0, <1>2, <1>7, <1>8, <2>1, <2>2, <2>3, <2>5, <2>7 DEF ListInv
    <2>6. ASSUME NEW d \in Buf, NEW c \in Buf, Chained(d), Chained(c), qnext'[d] = qnext'[c], qnext'[d] # Nil
          PROVE  d = c
      BY <1>0, <2>1, <2>2, <2>6 DEF ListInv
    <2>8. ListInv'
      BY <1>9, <2>4, <2>5, <2>6 DEF ListInv
    <2> QED
      BY <1>1, <1>2, <2>8 DEF PopInv, InPop
  <1>4. CardInv'
    <2>1. qnext[Head] # Nil => qnext'[Head] = qnext[Head]
      BY <1>0, <1>1, <1>2
    <2>2. \A q \in Proc : Starts(q) => Starts(q)'
      BY <1>0, <1>1 DEF Starts
    <2>3. qnext[Head] = Nil => Starts(p)'
      BY <1>0, <1>1, <1>2 DEF Starts
    <2> QED
      BY <1>0, <1>1, <2>1, <2>2, <2>3 DEF CardInv, InService, NoXfer
  <1>5. \A q \in Proc : Stage(q)'
    BY <1>0, <1>1 DEF Stage, Done
  <1>6. \A q \in Proc : Pushing(q)'
    <2>1. empty[p] => Fresh(buf[p])'
      BY <1>0, <1>1, <1>2 DEF Fresh, CardInv, InPop, IPC
    <2>2. Pushing(p)'
      BY <1>0, <1>1, <1>2, <2>1 DEF Pushing, InPush, InPop, Starts
    <2>3. ASSUME NEW q \in Proc, q # p PROVE Pushing(q)'
      <3>1. ~InPush(q)' /\ UNCHANGED pc[q]
        BY <1>0, <1>1, <1>2, <2>3 DEF InPush
      <3>2. Starts(q)' => Fresh(buf[q]) /\ qnext[Head] # Nil
        BY <1>0, <1>1, <2>3, <3>1 DEF Starts, Pushing, Fresh
      <3>3. qnext[Head] # Nil => qnext'[Head] = qnext[Head]
        BY <1>0, <1>1, <1>2
      <3> QED
        BY <1>1, <3>1, <3>2, <3>3 DEF Pushing, Fresh, InPush
    <2> QED
      BY <2>2, <2>3
  <1> QED
    BY <1>3, <1>4, <1>5, <1>6 DEF After


(* The new last request ends the queue. *)
LEMMA StepClear ==
    ASSUME Before, NEW p \in Proc, Clear(p)
    PROVE  After'
  <1> USE SdAssumption
  <1>0. /\ pc \in [Proc -> PC] /\ buf \in [Proc -> Buf \cup {Nil}] /\ ipc \in IPC
        /\ qnext \in [Buf \cup {Head} -> Buf \cup {Nil}] /\ nxt \in Buf \cup {Nil}
        /\ tmp \in [Proc -> Buf \cup {Head}] /\ empty \in [Proc -> BOOLEAN]
        /\ sdlock \in Proc \cup {Intr, Nil}
        /\ \A q \in Proc : IF pc[q] = "out" THEN buf[q] = Nil ELSE buf[q] \in Buf
        /\ \A q, r \in Proc : buf[q] = buf[r] /\ buf[q] # Nil => q = r
        /\ \A q \in Proc : Stage(q) /\ Pushing(q)
        /\ ListInv /\ PopInv /\ CardInv
    BY DEF Before
  <1>1. /\ pc[p] = "clear" /\ pc' = [pc EXCEPT ![p] = "lock"]
        /\ qnext' = [qnext EXCEPT ![buf[p]] = Nil]
        /\ tmp' = [tmp EXCEPT ![p] = Head]
        /\ UNCHANGED <<valid, dirty, data, disk, sdlock, xfer, irq, buf, empty, ipc, nxt, failed, raced>>
    BY DEF Clear, Goto
  <1>2. /\ ~InPop /\ \A q \in Proc : q # p => ~InPush(q)
        /\ buf[p] \in Buf
    BY <1>0, <1>1 DEF Pushing, InPush
  <1>7. \A d : Linked(d)' <=> Linked(d)
    BY <1>0, <1>1 DEF Linked, Pending, Done
  <1>8. \A d \in Buf : Chained(d)' /\ d # buf[p] => Chained(d)
    BY <1>0, <1>1, <1>2, <1>7 DEF Chained, InPush
  <1>9. qnext'[buf[p]] = Nil /\ qnext'[Head] = qnext[Head] /\ \A d \in Buf : d # buf[p] => qnext'[d] = qnext[d]
    BY <1>0, <1>1, <1>2
  <1>3. ListInv' /\ PopInv'
    <2>1. ListInv'
      BY <1>0, <1>1, <1>7, <1>8, <1>9 DEF ListInv
    <2> QED
      BY <1>1, <1>2, <2>1 DEF PopInv, InPop
  <1>4. CardInv'
    <2>1. \A q \in Proc : Starts(q) => Starts(q)'
      BY <1>0, <1>1 DEF Starts
    <2> QED
      BY <1>0, <1>1, <1>9, <2>1 DEF CardInv, InService, NoXfer
  <1>5. \A q \in Proc : Stage(q)'
    BY <1>0, <1>1 DEF Stage, Done
  <1>6. \A q \in Proc : Pushing(q)'
    BY <1>0, <1>1, <1>2, <1>9 DEF Pushing, InPush, InPop, Starts, Fresh
  <1> QED
    BY <1>3, <1>4, <1>5, <1>6 DEF After


(* sdlock is taken. *)
LEMMA StepLock ==
    ASSUME Before, NEW p \in Proc, Lock(p)
    PROVE  After'
  <1> USE SdAssumption
  <1>0. /\ pc \in [Proc -> PC] /\ buf \in [Proc -> Buf \cup {Nil}] /\ ipc \in IPC
        /\ qnext \in [Buf \cup {Head} -> Buf \cup {Nil}] /\ nxt \in Buf \cup {Nil}
        /\ tmp \in [Proc -> Buf \cup {Head}] /\ empty \in [Proc -> BOOLEAN]
        /\ sdlock \in Proc \cup {Intr, Nil}
        /\ \A q \in Proc : IF pc[q] = "out" THEN buf[q] = Nil ELSE buf[q] \in Buf
        /\ \A q, r \in Proc : buf[q] = buf[r] /\ buf[q] # Nil => q = r
        /\ \A q \in Proc : Stage(q) /\ Pushing(q)
        /\ ListInv /\ PopInv /\ CardInv
    BY DEF Before
  <1>1. /\ sdlock = Nil /\ sdlock' = p
        /\ \/ pc[p] = "lock" /\ empty[p] /\ pc' = [pc EXCEPT ![p] = "start"]
           \/ pc[p] = "lock" /\ ~empty[p] /\ pc' = [pc EXCEPT ![p] = "sleep"]
           \/ pc[p] = "relock" /\ pc' = [pc EXCEPT ![p] = "check"]
        /\ empty' = [empty EXCEPT ![p] = FALSE]
        /\ UNCHANGED <<qnext, valid, dirty, data, disk, xfer, irq, buf, tmp, ipc, nxt, failed, raced>>
    BY DEF Lock, Goto
  <1>2. \A d : (Linked(d)' <=> Linked(d)) /\ (Chained(d)' <=> Chained(d))
    <2>1. \A q \in Proc : /\ Pending(q)' <=> Pending(q)
                          /\ pc'[q] = "clear" <=> pc[q] = "clear"
                          /\ Pending(q) \/ pc[q] = "clear" => buf'[q] = buf[q]
      BY <1>0, <1>1 DEF Pending, Done
    <2> QED
      BY <2>1, LinkedKept
  <1>3. ListInv' /\ PopInv'
    BY <1>0, <1>1, <1>2, ListKept
  <1>7. \A q \in Proc : Starts(q)' <=> Starts(q)
    BY <1>0, <1>1 DEF Starts
  <1>4. CardInv'
    BY <1>0, <1>1, <1>7 DEF CardInv, InService, NoXfer
  <1>5. \A q \in Proc : Stage(q)'
    BY <1>0, <1>1 DEF Stage, Done
  <1>6. \A q \in Proc : Pushing(q)'
    BY <1>0, <1>1, <1>2, <1>7 DEF Pushing, InPush, InPop, Fresh
  <1> QED
    BY <1>3, <1>4, <1>5, <1>6 DEF After


(* Who found the queue empty starts its own request. *)
LEMMA StepStart ==
    ASSUME Before, NEW p \in Proc, Start(p)
    PROVE  After'
  <1> USE SdAssumption
  <1>0. /\ pc \in [Proc -> PC] /\ buf \in [Proc -> Buf \cup {Nil}] /\ ipc \in IPC
        /\ qnext \in [Buf \cup {Head} -> Buf \cup {Nil}] /\ nxt \in Buf \cup {Nil}
        /\ tmp \in [Proc -> Buf \cup {Head}] /\ empty \in [Proc -> BOOLEAN]
        /\ sdlock \in Proc \cup {Intr, Nil}
        /\ \A q \in Proc : IF pc[q] = "out" THEN buf[q] = Nil ELSE buf[q] \in Buf
        /\ \A q, r \in Proc : buf[q] = buf[r] /\ buf[q] # Nil => q = r
        /\ \A q \in Proc : Stage(q) /\ Pushing(q)
        /\ ListInv /\ PopInv /\ CardInv
        /\ dirty \in [Buf -> BOOLEAN] /\ valid \in [Buf -> BOOLEAN] /\ failed \in [Buf -> BOOLEAN]
        /\ data \in [Buf -> Val] /\ disk \in [Buf -> Val]
        /\ irq \in {Nil, "READ_RDY", "DATA_DONE", "DATA_ERROR", "ERROR"}
        /\ xfer \in [buf : Buf \cup {Nil}, write : BOOLEAN, data : Val \cup {Nil}]
    BY DEF Before
  <1>1. /\ pc[p] = "start" /\ pc' = [pc EXCEPT ![p] = "sleep"]
        /\ xfer' = Started(qnext[Head])
        /\ UNCHANGED <<qnext, valid, dirty, data, disk, sdlock, irq, buf, empty, tmp, ipc, nxt, failed, raced>>
    BY DEF Start, Goto
  <1>2. \A d : (Linked(d)' <=> Linked(d)) /\ (Chained(d)' <=> Chained(d))
    <2>1. \A q \in Proc : /\ Pending(q)' <=> Pending(q)
                          /\ pc'[q] = "clear" <=> pc[q] = "clear"
                          /\ Pending(q) \/ pc[q] = "clear" => buf'[q] = buf[q]
      BY <1>0, <1>1 DEF Pending, Done
    <2> QED
      BY <2>1, LinkedKept
  <1>3. ListInv' /\ PopInv'
    BY <1>0, <1>1, <1>2, ListKept
  <1>7. Fresh(buf[p]) /\ buf[p] \in Buf
    BY <1>0, <1>1 DEF Pushing, Starts
  <1>8. \A q \in Proc : ~Starts(q)'
    <2>1. \A q \in Proc : Starts(q) => q = p
      BY <1>0, <1>7 DEF Pushing, Fresh
    <2> QED
      BY <1>0, <1>1, <2>1 DEF Starts
  <1>4. CardInv'
    BY <1>0, <1>1, <1>7 DEF CardInv, InService, NoXfer, Fresh, Started
  <1>5. \A q \in Proc : Stage(q)'
    BY <1>0, <1>1 DEF Stage, Done
  <1>6. \A q \in Proc : Pushing(q)'
    BY <1>0, <1>1, <1>2, <1>8 DEF Pushing, InPush, InPop
  <1> QED
    BY <1>3, <1>4, <1>5, <1>6 DEF After


(* sdlock is handed back at the sleep. *)
LEMMA StepSleep ==
    ASSUME Before, NEW p \in Proc, Sleep(p)
    PROVE  After'
  <1> USE SdAssumption
  <1>0. /\ pc \in [Proc -> PC] /\ buf \in [Proc -> Buf \cup {Nil}] /\ ipc \in IPC
        /\ qnext \in [Buf \cup {Head} -> Buf \cup {Nil}] /\ nxt \in Buf \cup {Nil}
        /\ tmp \in [Proc -> Buf \cup {Head}] /\ empty \in [Proc -> BOOLEAN]
        /\ sdlock \in Proc \cup {Intr, Nil}
        /\ \A q \in Proc : IF pc[q] = "out" THEN buf[q] = Nil ELSE buf[q] \in Buf
        /\ \A q, r \in Proc : buf[q] = buf[r] /\ buf[q] # Nil => q = r
        /\ \A q \in Proc : Stage(q) /\ Pushing(q)
        /\ ListInv /\ PopInv /\ CardInv
    BY DEF Before
  <1>1. /\ pc[p] = "sleep" /\ sdlock' = Nil
        /\ pc' = [pc EXCEPT ![p] = IF Done(buf[p]) THEN "overslept" ELSE "asleep"]
        /\ UNCHANGED <<qnext, valid, dirty, data, disk, xfer, irq, buf, empty, tmp, ipc, nxt, failed, raced>>
    BY DEF Sleep, Goto
  <1>2. \A d : (Linked(d)' <=> Linked(d)) /\ (Chained(d)' <=> Chained(d))
    <2>1. \A q \in Proc : /\ Pending(q)' <=> Pending(q)
                          /\ pc'[q] = "clear" <=> pc[q] = "clear"
                          /\ Pending(q) \/ pc[q] = "clear" => buf'[q] = buf[q]
      BY <1>0, <1>1 DEF Pending, Done
    <2> QED
      BY <2>1, LinkedKept
  <1>3. ListInv' /\ PopInv'
    BY <1>0, <1>1, <1>2, ListKept
  <1>7. \A q \in Proc : Starts(q)' <=> Starts(q)
    BY <1>0, <1>1 DEF Starts
  <1>8. sdlock = p
    BY <1>0, <1>1 DEF Stage
  <1>4. CardInv'
    BY <1>0, <1>1, <1>7, <1>8 DEF CardInv, InService, NoXfer
  <1>5. \A q \in Proc : Stage(q)'
    BY <1>0, <1>1, <1>8 DEF Stage, Done
  <1>6. \A q \in Proc : Pushing(q)'
    BY <1>0, <1>1, <1>2, <1>7 DEF Pushing, InPush, InPop, Fresh
  <1> QED
    BY <1>3, <1>4, <1>5, <1>6 DEF After


(* A request that is done leaves sdrw. *)
LEMMA StepCheck ==
    ASSUME Before, NEW p \in Proc, Check(p)
    PROVE  After'
  <1> USE SdAssumption
  <1>0. /\ pc \in [Proc -> PC] /\ buf \in [Proc -> Buf \cup {Nil}] /\ ipc \in IPC
        /\ qnext \in [Buf \cup {Head} -> Buf \cup {Nil}] /\ nxt \in Buf \cup {Nil}
        /\ tmp \in [Proc -> Buf \cup {Head}] /\ empty \in [Proc -> BOOLEAN]
        /\ sdlock \in Proc \cup {Intr, Nil}
        /\ \A q \in Proc : IF pc[q] = "out" THEN buf[q] = Nil ELSE buf[q] \in Buf
        /\ \A q, r \in Proc : buf[q] = buf[r] /\ buf[q] # Nil => q = r
        /\ \A q \in Proc : Stage(q) /\ Pushing(q)
        /\ ListInv /\ PopInv /\ CardInv
        /\ dirty \in [Buf -> BOOLEAN] /\ valid \in [Buf -> BOOLEAN] /\ failed \in [Buf -> BOOLEAN]
        /\ data \in [Buf -> Val] /\ disk \in [Buf -> Val]
        /\ irq \in {Nil, "READ_RDY", "DATA_DONE", "DATA_ERROR", "ERROR"}
        /\ xfer \in [buf : Buf \cup {Nil}, write : BOOLEAN, data : Val \cup {Nil}]
    BY DEF Before
  <1>7. pc[p] = "check" /\ Done(buf[p]) /\ sdlock = p /\ buf[p] \in Buf
    BY <1>0 DEF Check, Stage
  <1>1. /\ sdlock' = Nil /\ buf' = [buf EXCEPT ![p] = Nil]
        /\ failed' = [failed EXCEPT ![buf[p]] = FALSE]
        /\ pc' = [pc EXCEPT ![p] = "out"]
        /\ UNCHANGED <<qnext, valid, dirty, data, disk, xfer, irq, empty, tmp, ipc, nxt, raced>>
    BY <1>7 DEF Check, Goto
  <1>2. \A d : (Linked(d)' <=> Linked(d)) /\ (Chained(d)' <=> Chained(d))
    <2>1. \A q \in Proc : /\ Pending(q)' <=> Pending(q)
                          /\ pc'[q] = "clear" <=> pc[q] = "clear"
                          /\ Pending(q) \/ pc[q] = "clear" => buf'[q] = buf[q]
      BY <1>0, <1>1, <1>7 DEF Pending, Done
    <2> QED
      BY <2>1, LinkedKept
  <1>3. ListInv' /\ PopInv'
    BY <1>0, <1>1, <1>2, ListKept
  <1>8. \A q \in Proc : (Starts(q)' <=> Starts(q)) /\ (Starts(q) => buf'[q] = buf[q])
    BY <1>0, <1>1, <1>7 DEF Starts
  <1>4. CardInv'
    BY <1>0, <1>1, <1>7, <1>8 DEF CardInv, InService, NoXfer
  <1>5. \A q \in Proc : Stage(q)'
    BY <1>0, <1>1, <1>7 DEF Stage, Done
  <1>6. \A q \in Proc : Pushing(q)'
    BY <1>0, <1>1, <1>2, <1>7, <1>8 DEF Pushing, InPush, InPop, Fresh
  <1> QED
    BY <1>3, <1>4, <1>5, <1>6 DEF After


-----------------------------------------------------------------------------
(* The card has an answer, a good one or not. *)
LEMMA StepCard ==
    ASSUME Before, Finish \/ Fail
    PROVE  After'
  <1> USE SdAssumption
  <1>0. /\ pc \in [Proc -> PC] /\ buf \in [Proc -> Buf \cup {Nil}] /\ ipc \in IPC
        /\ qnext \in [Buf \cup {Head} -> Buf \cup {Nil}] /\ nxt \in Buf \cup {Nil}
        /\ tmp \in [Proc -> Buf \cup {Head}] /\ empty \in [Proc -> BOOLEAN]
        /\ sdlock \in Proc \cup {Intr, Nil}
        /\ \A q \in Proc : IF pc[q] = "out" THEN buf[q] = Nil ELSE buf[q] \in Buf
        /\ \A q, r \in Proc : buf[q] = buf[r] /\ buf[q] # Nil => q = r
        /\ \A q \in Proc : Stage(q) /\ Pushing(q)
        /\ ListInv /\ PopInv /\ CardInv
        /\ dirty \in [Buf -> BOOLEAN] /\ valid \in [Buf -> BOOLEAN] /\ failed \in [Buf -> BOOLEAN]
        /\ data \in [Buf -> Val] /\ disk \in [Buf -> Val]
        /\ irq \in {Nil, "READ_RDY", "DATA_DONE", "DATA_ERROR", "ERROR"}
        /\ xfer \in [buf : Buf \cup {Nil}, write : BOOLEAN, data : Val \cup {Nil}]
    BY DEF Before
  <1>7. /\ xfer.buf # Nil /\ irq = Nil /\ irq' # Nil
        /\ UNCHANGED <<qnext, valid, dirty, data, sdlock, pc, buf, empty, tmp, ipc, nxt, failed, raced>>
    BY DEF Finish, Fail
  <1>8. xfer # NoXfer /\ InService(qnext[Head]) /\ qnext[Head] \in Buf /\ xfer.buf = qnext[Head]
    BY <1>0, <1>7 DEF CardInv, NoXfer, InService
  <1>9. /\ \A d \in Buf : d # xfer.buf => disk'[d] = disk[d]
        /\ ~xfer.write => disk' = disk
    BY <1>0, <1>8 DEF Finish, Fail
  <1>1. UNCHANGED <<qnext, pc, buf, dirty, valid, ipc, nxt>>
    BY <1>7
  <1>2. \A d : (Linked(d)' <=> Linked(d)) /\ (Chained(d)' <=> Chained(d))
    <2>1. \A q \in Proc : /\ Pending(q)' <=> Pending(q)
                          /\ pc'[q] = "clear" <=> pc[q] = "clear"
                          /\ Pending(q) \/ pc[q] = "clear" => buf'[q] = buf[q]
      BY <1>0, <1>1 DEF Pending, Done
    <2> QED
      BY <2>1, LinkedKept
  <1>3. ListInv' /\ PopInv'
    BY <1>0, <1>1, <1>2, ListKept
  <1>4. CardInv'
    <2>1. \A q \in Proc : Starts(q)' <=> Starts(q)
      BY <1>7 DEF Starts
    <2>2. xfer' # NoXfer /\ InService(qnext[Head])'
      <3>1. CASE Finish /\ xfer.write
        BY <1>0, <1>7, <1>8, <3>1 DEF Finish, InService
      <3>2. CASE Finish /\ ~xfer.write
        BY <1>0, <1>7, <1>8, <3>2 DEF Finish, InService, NoXfer
      <3>3. CASE Fail
        BY <1>0, <1>7, <1>8, <3>3 DEF Fail, InService
      <3> QED
        BY <3>1, <3>2, <3>3
    <2> QED
      BY <1>0, <1>7, <1>8, <2>1, <2>2 DEF CardInv
  <1>5. \A q \in Proc : Stage(q)'
    BY <1>0, <1>7, <1>8, <1>9 DEF Stage, Done, InService
  <1>6. \A q \in Proc : Pushing(q)'
    BY <1>0, <1>2, <1>7, <1>8 DEF Pushing, InPush, InPop, Starts, Fresh
  <1> QED
    BY <1>3, <1>4, <1>5, <1>6 DEF After


(* The handler begins, or starts the first request again. *)
LEMMA StepIntr ==
    ASSUME Before, IntrLock \/ IntrRestart
    PROVE  After'
  <1> USE SdAssumption
  <1>0. /\ pc \in [Proc -> PC] /\ buf \in [Proc -> Buf \cup {Nil}] /\ ipc \in IPC
        /\ qnext \in [Buf \cup {Head} -> Buf \cup {Nil}] /\ nxt \in Buf \cup {Nil}
        /\ tmp \in [Proc -> Buf \cup {Head}] /\ empty \in [Proc -> BOOLEAN]
        /\ sdlock \in Proc \cup {Intr, Nil}
        /\ \A q \in Proc : IF pc[q] = "out" THEN buf[q] = Nil ELSE buf[q] \in Buf
        /\ \A q, r \in Proc : buf[q] = buf[r] /\ buf[q] # Nil => q = r
        /\ \A q \in Proc : Stage(q) /\ Pushing(q)
        /\ ListInv /\ PopInv /\ CardInv
        /\ dirty \in [Buf -> BOOLEAN] /\ valid \in [Buf -> BOOLEAN] /\ failed \in [Buf -> BOOLEAN]
        /\ data \in [Buf -> Val] /\ disk \in [Buf -> Val]
        /\ irq \in {Nil, "READ_RDY", "DATA_DONE", "DATA_ERROR", "ERROR"}
        /\ xfer \in [buf : Buf \cup {Nil}, write : BOOLEAN, data : Val \cup {Nil}]
    BY DEF Before
  <1>1. /\ UNCHANGED <<qnext, valid, dirty, data, disk, pc, buf, empty, tmp, nxt, failed, raced>>
        /\ {ipc, ipc'} \subseteq {"idle", "intr"}
        /\ irq # Nil
    BY <1>0 DEF IntrLock, IntrRestart, CardInv
  <1>2. \A d : (Linked(d)' <=> Linked(d)) /\ (Chained(d)' <=> Chained(d))
    <2>1. \A q \in Proc : /\ Pending(q)' <=> Pending(q)
                          /\ pc'[q] = "clear" <=> pc[q] = "clear"
                          /\ Pending(q) \/ pc[q] = "clear" => buf'[q] = buf[q]
      BY <1>0, <1>1 DEF Pending, Done
    <2> QED
      BY <2>1, LinkedKept
  <1>3. ListInv' /\ PopInv'
    BY <1>0, <1>1, <1>2, ListKept
  <1>7. xfer # NoXfer /\ InService(qnext[Head]) /\ qnext[Head] \in Buf
    BY <1>0, <1>1 DEF CardInv
  <1>4. CardInv'
    <2>1. CASE IntrLock
      BY <1>0, <1>1, <1>7, <2>1 DEF IntrLock, CardInv, InService, NoXfer
    <2>2. CASE IntrRestart
      BY <1>0, <1>1, <1>7, <2>2 DEF IntrRestart, CardInv, InService, NoXfer, Started
    <2> QED
      BY <2>1, <2>2
  <1>5. \A q \in Proc : Stage(q)'
    <2>1. (\A q \in Proc : sdlock # q) /\ (\A q \in Proc : sdlock' # q)
      BY <1>0, <1>1 DEF IntrLock, IntrRestart, CardInv
    <2> QED
      BY <1>0, <1>1, <2>1 DEF Stage, Done
  <1>6. \A q \in Proc : Pushing(q)'
    BY <1>0, <1>1, <1>2, <1>7 DEF Pushing, InPush, InPop, Starts, Fresh
  <1> QED
    BY <1>3, <1>4, <1>5, <1>6 DEF After


(* The first request is done, and no longer pending. *)
LEMMA StepDone ==
    ASSUME Before, IntrDone, ~raced'
    PROVE  After'
  <1> USE SdAssumption
  <1>0. /\ pc \in [Proc -> PC] /\ buf \in [Proc -> Buf \cup {Nil}] /\ ipc \in IPC
        /\ qnext \in [Buf \cup {Head} -> Buf \cup {Nil}] /\ nxt \in Buf \cup {Nil}
        /\ tmp \in [Proc -> Buf \cup {Head}] /\ empty \in [Proc -> BOOLEAN]
        /\ sdlock \in Proc \cup {Intr, Nil}
        /\ \A q \in Proc : IF pc[q] = "out" THEN buf[q] = Nil ELSE buf[q] \in Buf
        /\ \A q, r \in Proc : buf[q] = buf[r] /\ buf[q] # Nil => q = r
        /\ \A q \in Proc : Stage(q) /\ Pushing(q)
        /\ ListInv /\ PopInv /\ CardInv
        /\ dirty \in [Buf -> BOOLEAN] /\ valid \in [Buf -> BOOLEAN] /\ failed \in [Buf -> BOOLEAN]
        /\ data \in [Buf -> Val] /\ disk \in [Buf -> Val]
        /\ irq \in {Nil, "READ_RDY", "DATA_DONE", "DATA_ERROR", "ERROR"}
        /\ xfer \in [buf : Buf \cup {Nil}, write : BOOLEAN, data : Val \cup {Nil}]
    BY DEF Before
  <1>14. qnext[Head] \in Buf /\ Linked(qnext[Head])
    BY <1>0 DEF IntrDone, Ends, Credit, CardInv, ListInv
  <1>15. PICK b \in Buf : b = qnext[Head]
    BY <1>14
  <1>1. /\ ipc = "intr" /\ ipc' = "pop" /\ xfer' = NoXfer /\ irq' = Nil /\ irq # Nil
        /\ valid' = [valid EXCEPT ![b] = TRUE]
        /\ dirty' = [dirty EXCEPT ![b] = FALSE]
        /\ pc' = Woken(b)
        /\ UNCHANGED <<qnext, disk, sdlock, buf, empty, tmp, nxt>>
        /\ \A q \in Proc : ~InPush(q)
    BY <1>0, <1>15 DEF IntrDone, Ends, Credit, CardInv
  <1>2. b \in Buf /\ Linked(b) /\ xfer # NoXfer /\ InService(b)
    BY <1>0, <1>1, <1>14, <1>15 DEF CardInv
  <1>7. /\ \A d \in Buf : d # b => data'[d] = data[d] /\ failed'[d] = failed[d]
        /\ data'[b] = disk[b] \/ failed'[b]
    <2>1. failed' = [failed EXCEPT ![b] = ~dirty[b] /\ irq # "READ_RDY"]
      BY <1>15 DEF IntrDone, Credit
    <2>2. CASE dirty[b]
      BY <1>0, <1>2, <1>15, <2>1, <2>2 DEF IntrDone, Ends, Move, InService
    <2>3. CASE ~dirty[b] /\ irq = "READ_RDY"
      <3>1. data' = [data EXCEPT ![b] = xfer.data]
        BY <1>15, <2>3 DEF IntrDone, Move
      <3> QED
        BY <1>0, <1>2, <2>1, <2>3, <3>1 DEF InService
    <2>4. CASE ~dirty[b] /\ irq # "READ_RDY"
      <3>1. PICK v \in Val : data' = [data EXCEPT ![b] = v]
        BY <1>15, <2>4 DEF IntrDone, Move
      <3> QED
        BY <1>0, <1>2, <2>1, <2>4, <3>1
    <2> QED
      BY <2>2, <2>3, <2>4
  <1>8. PICK r \in Proc : buf[r] = b /\ Pending(r)
    BY <1>2 DEF Linked
  <1>9. \A q \in Proc : q # r => buf[q] # b /\ pc'[q] = pc[q]
    BY <1>0, <1>1, <1>2, <1>8 DEF Woken
  <1>10. pc[r] \in {"lock", "start", "sleep", "asleep"}
         /\ pc'[r] = IF pc[r] = "asleep" THEN "relock" ELSE pc[r]
    BY <1>0, <1>1, <1>8 DEF Pending, InPush, Woken
  <1>11. \A q \in Proc : q # r /\ pc[q] # "out" => Done(buf[q])' = Done(buf[q])
    BY <1>0, <1>1, <1>2, <1>9 DEF Done
  <1>12. Done(b)'
    BY <1>0, <1>1, <1>2 DEF Done
  <1>13. \A d : /\ Linked(d)' <=> Linked(d) /\ d # b
                /\ Chained(d) <=> Linked(d)
                /\ Chained(d)' <=> Linked(d) /\ d # b
    <2>1. \A q \in Proc : Pending(q)' <=> Pending(q) /\ q # r
      BY <1>0, <1>1, <1>8, <1>9, <1>11, <1>12 DEF Pending
    <2>2. \A d : Linked(d)' <=> Linked(d) /\ d # b
      BY <1>0, <1>1, <1>8, <1>9, <2>1 DEF Linked
    <2>3. \A q \in Proc : pc[q] # "clear" /\ pc'[q] # "clear"
      BY <1>1, <1>9, <1>10 DEF InPush
    <2> QED
      BY <2>2, <2>3 DEF Chained
  <1>3. ListInv' /\ PopInv'
    <2>1. /\ \A d \in Buf : Linked(d) /\ qnext[d] # Nil => Linked(qnext[d]) /\ qnext[d] # b
          /\ \A d, c \in Buf : Linked(d) /\ Linked(c) /\ qnext[d] = qnext[c] /\ qnext[d] # Nil => d = c
      BY <1>0, <1>13, <1>15 DEF ListInv
    <2>2. qnext' = qnext /\ ipc' = "pop"
      BY <1>1
    <2>3. ListInv'
      BY <1>13, <1>15, <2>1, <2>2 DEF ListInv
    <2>4. \A e : e = qnext[b] /\ e # Nil => Linked(e)' /\ \A d \in Buf : Chained(d)' => qnext[d] # e
      BY <1>2, <1>13, <2>1
    <2>5. ~Linked(b)'
      BY <1>13
    <2> QED
      BY <1>2, <2>2, <2>3, <1>15, <2>4, <2>5 DEF PopInv
  <1>4. CardInv'
    BY <1>0, <1>1 DEF CardInv
  <1>5. \A q \in Proc : Stage(q)'
    <2>1. Stage(r)'
      <3>1. sdlock = r <=> pc[r] \in {"start", "sleep", "check"}
        BY <1>0 DEF Stage
      <3> QED
        BY <1>1, <1>7, <1>8, <1>10, <1>12, <3>1 DEF Stage, Done
    <2>2. ASSUME NEW q \in Proc, q # r PROVE Stage(q)'
      <3>1. pc'[q] = pc[q] /\ UNCHANGED <<sdlock, buf, disk>>
        BY <1>1, <1>9, <2>2
      <3>2. pc[q] # "out" => UNCHANGED Done(buf[q]) /\ data'[buf[q]] = data[buf[q]] /\ failed'[buf[q]] = failed[buf[q]]
        BY <1>0, <1>7, <1>9, <1>11, <2>2
      <3> QED
        BY <1>0, <3>1, <3>2 DEF Stage
    <2> QED
      BY <2>1, <2>2
  <1>6. \A q \in Proc : Pushing(q)'
    <2>1. \A q \in Proc : ~InPush(q)' /\ ~Starts(q)
      BY <1>0, <1>1, <1>9, <1>10 DEF Pushing, InPush, Fresh
    <2>2. \A q \in Proc : ~Starts(q)'
      BY <1>1, <1>9, <1>10, <2>1 DEF Starts
    <2> QED
      BY <2>1, <2>2 DEF Pushing, InPush
  <1> QED
    BY <1>3, <1>4, <1>5, <1>6 DEF After


(* The request that is done leaves the queue. *)
LEMMA StepPop ==
    ASSUME Before, IntrLoad \/ IntrStore
    PROVE  After'
  <1> USE SdAssumption
  <1>0. /\ pc \in [Proc -> PC] /\ buf \in [Proc -> Buf \cup {Nil}] /\ ipc \in IPC
        /\ qnext \in [Buf \cup {Head} -> Buf \cup {Nil}] /\ nxt \in Buf \cup {Nil}
        /\ tmp \in [Proc -> Buf \cup {Head}] /\ empty \in [Proc -> BOOLEAN]
        /\ sdlock \in Proc \cup {Intr, Nil}
        /\ \A q \in Proc : IF pc[q] = "out" THEN buf[q] = Nil ELSE buf[q] \in Buf
        /\ \A q, r \in Proc : buf[q] = buf[r] /\ buf[q] # Nil => q = r
        /\ \A q \in Proc : Stage(q) /\ Pushing(q)
        /\ ListInv /\ PopInv /\ CardInv
    BY DEF Before
  <1>1. /\ ipc \in {"pop", "popped"} /\ ipc' \in {"popped", "more"}
        /\ UNCHANGED <<valid, dirty, data, disk, sdlock, xfer, irq, pc, buf, empty, tmp, failed, raced>>
    BY DEF IntrLoad, IntrStore
  <1>2. \A d : (Linked(d)' <=> Linked(d)) /\ (Chained(d)' <=> Chained(d))
    <2>1. \A q \in Proc : /\ Pending(q)' <=> Pending(q)
                          /\ pc'[q] = "clear" <=> pc[q] = "clear"
                          /\ Pending(q) \/ pc[q] = "clear" => buf'[q] = buf[q]
      BY <1>1 DEF Pending, Done
    <2> QED
      BY <2>1, LinkedKept
  <1>7. \A q \in Proc : ~InPush(q) /\ ~Starts(q)
    BY <1>0, <1>1 DEF Pushing, InPop, Fresh
  <1>3. ListInv' /\ PopInv'
    <2>1. CASE IntrLoad
      BY <1>0, <1>2, <2>1 DEF IntrLoad, ListInv, PopInv
    <2>2. CASE IntrStore
      <3>1. /\ qnext'[Head] = qnext[qnext[Head]] /\ ipc' = "more"
            /\ \A d \in Buf : qnext'[d] = qnext[d]
        BY <1>0, <2>2 DEF IntrStore, PopInv
      <3>2. qnext[qnext[Head]] # Nil =>
                /\ Linked(qnext[qnext[Head]])
                /\ \A d \in Buf : Chained(d) => qnext[d] # qnext[qnext[Head]]
        BY <1>0, <1>1 DEF PopInv
      <3>3. ListInv'
        BY <1>0, <1>2, <3>1, <3>2 DEF ListInv
      <3> QED
        BY <3>1, <3>3 DEF PopInv
    <2> QED
      BY <2>1, <2>2
  <1>4. CardInv'
    BY <1>0, <1>1 DEF CardInv, NoXfer
  <1>5. \A q \in Proc : Stage(q)'
    BY <1>0, <1>1 DEF Stage, Done
  <1>6. \A q \in Proc : Pushing(q)'
    BY <1>1, <1>7 DEF Pushing, InPush, Starts
  <1> QED
    BY <1>3, <1>4, <1>5, <1>6 DEF After


(* The handler starts the next request. *)
LEMMA StepMore ==
    ASSUME Before, IntrMore
    PROVE  After'
  <1> USE SdAssumption
  <1>0. /\ pc \in [Proc -> PC] /\ buf \in [Proc -> Buf \cup {Nil}] /\ ipc \in IPC
        /\ qnext \in [Buf \cup {Head} -> Buf \cup {Nil}] /\ nxt \in Buf \cup {Nil}
        /\ tmp \in [Proc -> Buf \cup {Head}] /\ empty \in [Proc -> BOOLEAN]
        /\ sdlock \in Proc \cup {Intr, Nil}
        /\ \A q \in Proc : IF pc[q] = "out" THEN buf[q] = Nil ELSE buf[q] \in Buf
        /\ \A q, r \in Proc : buf[q] = buf[r] /\ buf[q] # Nil => q = r
        /\ \A q \in Proc : Stage(q) /\ Pushing(q)
        /\ ListInv /\ PopInv /\ CardInv
        /\ dirty \in [Buf -> BOOLEAN] /\ valid \in [Buf -> BOOLEAN] /\ failed \in [Buf -> BOOLEAN]
        /\ data \in [Buf -> Val] /\ disk \in [Buf -> Val]
        /\ irq \in {Nil, "READ_RDY", "DATA_DONE", "DATA_ERROR", "ERROR"}
        /\ xfer \in [buf : Buf \cup {Nil}, write : BOOLEAN, data : Val \cup {Nil}]
    BY DEF Before
  <1>1. /\ ipc = "more" /\ ipc' = "idle" /\ sdlock' = Nil
        /\ IF qnext[Head] = Nil THEN UNCHANGED xfer ELSE xfer' = Started(qnext[Head])
        /\ UNCHANGED <<qnext, valid, dirty, data, disk, irq, pc, buf, empty, tmp, nxt, failed, raced>>
    BY DEF IntrMore
  <1>2. \A d : (Linked(d)' <=> Linked(d)) /\ (Chained(d)' <=> Chained(d))
    <2>1. \A q \in Proc : /\ Pending(q)' <=> Pending(q)
                          /\ pc'[q] = "clear" <=> pc[q] = "clear"
                          /\ Pending(q) \/ pc[q] = "clear" => buf'[q] = buf[q]
      BY <1>0, <1>1 DEF Pending, Done
    <2> QED
      BY <2>1, LinkedKept
  <1>3. ListInv' /\ PopInv'
    BY <1>0, <1>1, <1>2, ListKept
  <1>7. \A q \in Proc : ~InPush(q) /\ ~Starts(q)
    BY <1>0, <1>1 DEF Pushing, InPop, Fresh
  <1>8. xfer = NoXfer /\ irq = Nil /\ sdlock = Intr
    BY <1>0, <1>1 DEF CardInv
  <1>4. CardInv'
    BY <1>0, <1>1, <1>8 DEF CardInv, InService, Started, NoXfer
  <1>5. \A q \in Proc : Stage(q)'
    BY <1>0, <1>1, <1>8 DEF Stage, Done
  <1>6. \A q \in Proc : Pushing(q)'
    BY <1>1, <1>7 DEF Pushing, InPush, Starts
  <1> QED
    BY <1>3, <1>4, <1>5, <1>6 DEF After


-----------------------------------------------------------------------------
(* Every step keeps queue, card and requests in step, unless two have met  *)
(* at the queue.                                                           *)
LEMMA StepInvNext == SdInv /\ StepInv /\ [Next]_vars => StepInv'
  <1> SUFFICES ASSUME SdInv, StepInv, [Next]_vars, ~raced' PROVE After'
    BY DEF StepInv, After
  <1>0. ~raced
    <2>1. raced => raced'
      BY DEF vars, Next, Sdrw, SdIntr, Finish, Fail, Call, TestEmpty, Walk, Link, Clear, Lock, Start, Sleep, Check, IntrLock, IntrRestart, IntrDone, Credit, IntrLoad, IntrStore, IntrMore
    <2> QED
      BY <2>1
  <1>1. Before
    BY <1>0 DEF SdInv, StepInv, TypeOK, BufInv, Before
  <1>2. ASSUME NEW p \in Proc, Call(p) \/ Lock(p) \/ Sdrw(p) PROVE After'
    BY <1>0, <1>1, <1>2, StepCall, StepLook, StepLink, StepClear, StepLock, StepStart, StepSleep, StepCheck DEF Sdrw
  <1>3. CASE Finish \/ Fail \/ IntrLock \/ SdIntr
    BY <1>1, <1>3, StepCard, StepIntr, StepDone, StepPop, StepMore DEF SdIntr
  <1>4. CASE UNCHANGED vars
    BY <1>1, <1>4 DEF vars, Before, After, ListInv, PopInv, CardInv, Stage, Pushing, Chained, Linked,
        Pending, Done, Starts, Fresh, InService, InPush, InPop
  <1> QED
    BY <1>2, <1>3, <1>4 DEF Next

(* Nobody is at the empty queue. *)
LEMMA StepInvInit == Init => StepInv
  BY SdAssumption DEF Init, StepInv, ListInv, PopInv, CardInv, Stage, Pushing, Chained, Linked, Pending,
      Starts, InPush, InPop, NoXfer, Done

(* The invariant of the queue holds for any number of requesters.          *)
THEOREM StepInvariant == Spec => []StepInv
  BY SdInvariant, StepInvInit, StepInvNext, PTL DEF Spec

(* For any number of requesters and with failing requests: as long as no   *)
(* two have been at the queue at once, the card serves the first request   *)
(* of the queue, none is forgotten, and none is started over an interrupt. *)
THEOREM QueueKeepsStep == Spec => []QueueInStep
  <1>1. SdInv /\ StepInv => QueueInStep
    <2> SUFFICES ASSUME SdInv, StepInv, ~raced PROVE CardServesFront /\ InterruptEmptyAtStart
      BY DEF QueueInStep, SdInv
    <2>1. CardInv /\ \A p \in Proc : Stage(p) /\ Pushing(p)
      BY DEF StepInv
    <2>2. CardServesFront
      <3>1. xfer # NoXfer => xfer.buf = qnext[Head] /\ (xfer.write <=> dirty[xfer.buf])
        BY <2>1 DEF CardInv, InService
      <3>2. ASSUME qnext[Head] # Nil, sdlock = Nil, ipc = "idle", xfer = NoXfer
            PROVE  \E p \in Proc : pc[p] \in {"clear", "lock"} /\ empty[p]
        <4>1. PICK p \in Proc : Starts(p)
          BY <2>1, <3>2 DEF CardInv
        <4>2. pc[p] # "start"
          BY <2>1, <3>2, SdAssumption DEF Stage
        <4> QED
          BY <4>1, <4>2 DEF Starts
      <3> QED
        BY <3>1, <3>2 DEF CardServesFront
    <2>3. InterruptEmptyAtStart
      BY <2>1 DEF InterruptEmptyAtStart, CardInv, Pushing, Starts, Fresh
    <2> QED
      BY <2>2, <2>3
  <1> QED
    BY <1>1, SdInvariant, StepInvariant, PTL

(* For any number of requesters: who returns from sdrw has synchronised    *)
(* its buffer with its block, or its read has failed unseen, or two have   *)
(* met at the queue.                                                       *)
THEOREM ReturnsInSync == Spec => SdrwSyncs
  <1>1. SdInv /\ StepInv =>
            \A p \in Proc : LET b == buf[p] IN
                pc[p] = "check" /\ pc'[p] = "out" => data[b] = disk[b] \/ failed[b] \/ raced
    BY DEF StepInv, Stage
  <1>2. SdInv /\ StepInv =>
            [\A p \in Proc : LET b == buf[p] IN
                pc[p] = "check" /\ pc'[p] = "out" => data[b] = disk[b] \/ failed[b] \/ raced]_vars
    BY <1>1
  <1> QED
    BY <1>2, SdInvariant, StepInvariant, PTL DEF SdrwSyncs
=============================================================================
