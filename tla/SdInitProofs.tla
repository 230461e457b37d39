---------------------------- MODULE SdInitProofs ----------------------------
(* Theorems about SdInit, for any number of retries. *)
EXTENDS SdInit, TLAPS

(* The dialogue is at a command of C: being sent, answered or looked at. *)
On(C) == pc \in {"wait", "sent", "result"} /\ call.cmd \in C

(* Where sdInit has its result, and sd_init goes on. *)
After == {"returned", "mbr_rdy", "mbr_data", "mbr_done", "done", "panicked"}

ScrPoints == {"scr", "scr_rdy", "scr_fifo"}

(* The commands for a selected card. *)
TranCommand == {"SEND_SCR", "SET_BUS_WIDTH", "SET_BLOCKLEN", "READ_SINGLE"}

(* The commands after the card has said what it is. *)
TypedCommand == TranCommand \cup {"ALL_SEND_CID", "SEND_REL_ADDR", "SEND_CSD", "CARD_SELECT"}

(* Each point has its commands; sdInit ends with the descriptor complete,  *)
(* or not at all, and only a complete one is used.                         *)
PointInv ==
    /\ call.app => call.cmd \in AppCommand
    /\ On({"APP_SEND_OP_COND"}) => call.kind \in {"SC", "HC"}
    /\ sdCard.init => pc \in After \/ On({"READ_SINGLE"})
    /\ On({"READ_SINGLE"}) \/ pc \in {"mbr_rdy", "mbr_data", "mbr_done", "done"} => sdCard.init
    /\ On(TranCommand \cup {"SEND_CSD", "CARD_SELECT"}) \/ pc \in ScrPoints \cup {"clock"} \/ sdCard.init
          => sdCard.rca = 1
    /\ pc = "result" /\ call.cmd = "SEND_REL_ADDR" /\ ret = "OK" => sdCard.rca = 1

(* While the driver waits, what is in the controller comes from its        *)
(* command: nothing, or the answer to that command.                        *)
AnswerInv ==
    /\ pc = "sent" =>
          /\ emmc.busy \in {"none", Current}
          /\ "CMD_DONE" \in emmc.irq => fresh /\ emmc.busy = "none"
    /\ pc = "result" /\ ret = "OK" => emmc.busy = "none"

(* The card does not power up unless it is asked for its kind.             *)
OcrInv ==
    /\ pc \in {"start", "reset"} \/ On({"GO_IDLE_STATE", "SEND_IF_COND"}) => ~sdCard.ocr.complete
    /\ On({"APP_SEND_OP_COND"}) /\ sdCard.ocr.complete =>
          (sdCard.ocr.ccs <=> card.kind = "HC") /\ (card.kind = "HC" => call.kind = "HC")
    /\ pc = "sent" /\ Current = "APP_SEND_OP_COND" /\ "CMD_DONE" \in emmc.irq
          /\ emmc.resp.ocr.complete =>
          (emmc.resp.ocr.ccs <=> card.kind = "HC") /\ (card.kind = "HC" => call.kind = "HC")
    /\ On(TypedCommand) \/ pc \in ScrPoints \cup {"clock"} \/ sdCard.init =>
          (sdCard.type = "2_HC" <=> card.kind = "HC")

(* A good answer means that the card has done what it was told. *)
GoodAnswer(c) == pc = "sent" /\ Current = c /\ "CMD_DONE" \in emmc.irq /\ emmc.resp.good

Succeeded(c) == pc = "result" /\ call.cmd = c /\ ret = "OK"

BusInv ==
    /\ card.width4 => card.state = "tran"
    /\ emmc.width4 => On({"SET_BLOCKLEN", "READ_SINGLE"}) \/ pc \in After
    /\ On({"CARD_SELECT"} \cup TranCommand) \/ pc \in ScrPoints \/ sdCard.init => emmc.fast
    /\ GoodAnswer("CARD_SELECT") \/ Succeeded("CARD_SELECT") => card.state = "tran" /\ ~card.width4
    /\ On(TranCommand) \/ pc \in ScrPoints \/ sdCard.init => card.state = "tran"
    /\ On({"SEND_SCR"}) \/ pc \in ScrPoints => ~card.width4
    /\ On(TranCommand) =>
          /\ emmc.busy \in {"none", "APP_CMD_RCA", call.cmd}
          /\ pc = "wait" => emmc.busy = "none"
    /\ pc \in ScrPoints => emmc.busy = "none"
    /\ (GoodAnswer("SET_BUS_WIDTH") /\ emmc.resp.app) \/ Succeeded("SET_BUS_WIDTH") => card.width4
    /\ On({"SET_BLOCKLEN"}) \/ sdCard.init => emmc.width4 = card.width4
    /\ sdCard.init => emmc.busy \in {"none", "READ_SINGLE"}

(* How far a block is on its way, and the interrupts that say so. *)
Coming(irq) == <<emmc.dat, irq>> \in
    {<<"read", {}>>, <<"ready", {"READ_RDY"}>>, <<"none", {"ERR"}>>}
Leaving(irq) == <<emmc.dat, irq>> \in
    {<<"drained", {}>>, <<"none", {"DATA_DONE"}>>, <<"none", {"ERR"}>>}

BlockInv ==
    /\ GoodAnswer("SET_BLOCKLEN") \/ Succeeded("SET_BLOCKLEN") => emmc.dat = "none"
    /\ sdCard.init /\ pc = "returned" => emmc.dat = "none" /\ emmc.busy = "none"
    /\ pc = "wait" /\ call.cmd = "READ_SINGLE" => emmc.dat = "none"
    /\ pc = "sent" /\ call.cmd = "READ_SINGLE" /\ emmc.busy # "none" => emmc.dat = "none" /\ emmc.irq = {}
    /\ GoodAnswer("READ_SINGLE") => Coming(emmc.irq \ {"CMD_DONE"})
    /\ Succeeded("READ_SINGLE") \/ pc = "mbr_rdy" => Coming(emmc.irq)
    /\ pc \in {"mbr_rdy", "mbr_data", "mbr_done", "done"} => emmc.busy = "none"
    /\ pc = "mbr_data" /\ ~late => emmc.dat = "ready" /\ emmc.irq = {}
    /\ pc = "mbr_done" /\ ~late => mbr = "mbr" /\ Leaving(emmc.irq)
    /\ pc = "done" /\ ~late => mbr = "mbr" /\ emmc.dat = "none" /\ emmc.irq = {}

InitInv == TypeOK /\ PointInv /\ AnswerInv /\ OcrInv /\ BusInv /\ BlockInv

-----------------------------------------------------------------------------
(* What the table says. *)
LEMMA Table ==
    /\ Command = {"GO_IDLE_STATE", "ALL_SEND_CID", "SEND_REL_ADDR", "CARD_SELECT", "SEND_IF_COND",
                  "SEND_CSD", "SET_BLOCKLEN", "READ_SINGLE", "APP_CMD", "APP_CMD_RCA",
                  "SET_BUS_WIDTH", "SEND_SCR", "APP_SEND_OP_COND"}
    /\ \A c \in Command :
          /\ sdCommandTable[c].resp = "NO" <=> c \in {"GO_IDLE_STATE", "APP_CMD"}
          /\ sdCommandTable[c].resp = "R1" <=> c \in TranCommand \cup {"CARD_SELECT", "APP_CMD_RCA"}
          /\ sdCommandTable[c].resp = "R2I" <=> c = "ALL_SEND_CID"
          /\ sdCommandTable[c].resp = "R2S" <=> c = "SEND_CSD"
          /\ sdCommandTable[c].resp = "R3" <=> c = "APP_SEND_OP_COND"
          /\ sdCommandTable[c].resp = "R6" <=> c = "SEND_REL_ADDR"
          /\ sdCommandTable[c].resp = "R7" <=> c = "SEND_IF_COND"
  <1>1. Command = {"GO_IDLE_STATE", "ALL_SEND_CID", "SEND_REL_ADDR", "CARD_SELECT", "SEND_IF_COND",
                  "SEND_CSD", "SET_BLOCKLEN", "READ_SINGLE", "APP_CMD", "APP_CMD_RCA",
                  "SET_BUS_WIDTH", "SEND_SCR", "APP_SEND_OP_COND"}
    BY DEF Command, sdCommandTable
  <1> QED
    BY <1>1 DEF sdCommandTable, TranCommand

(* The types of the records. *)
Answers    == [of : Command, good : BOOLEAN, app : BOOLEAN, ocr : Ocr]
Emmc       == [busy : Command \cup {"none"}, irq : SUBSET Flag, resp : Answers,
               dat : {"none", "read", "ready", "drained"}, width4 : BOOLEAN, fast : BOOLEAN]
Card       == [kind : {"1", "SC", "HC"}, wide : BOOLEAN, app : BOOLEAN, ifcond : BOOLEAN,
               width4 : BOOLEAN, state : {"idle", "ready", "ident", "stby", "tran"}]
Descriptor == [rca : {0, 1}, ocr : Ocr, app : BOOLEAN, format : BOOLEAN,
               type : {"0", "1", "2_SC", "2_HC"}, wide : BOOLEAN, init : BOOLEAN]
Request    == [cmd : Command, app : BOOLEAN, kind : {"none", "SC", "HC"}, count : 0 .. RETRIES]

TimeoutIsError == "CMD_TIMEOUT" \in emmc.irq => "ERR" \in emmc.irq

(* TypeOK by named sets. *)
LEMMA Types ==
    TypeOK <=> /\ emmc \in Emmc /\ TimeoutIsError /\ card \in Card /\ sdCard \in Descriptor
               /\ call \in Request /\ pc \in Points /\ ret \in Result
               /\ mbr \in {"none", "mbr", "garbage"} /\ fresh \in BOOLEAN /\ late \in BOOLEAN
  BY DEF TypeOK, Emmc, Card, Descriptor, Request, Answers, TimeoutIsError

(* ... and after a step. *)
LEMMA TypesNext ==
    ASSUME emmc' \in Emmc, TimeoutIsError', card' \in Card, sdCard' \in Descriptor,
           call' \in Request, pc' \in Points, ret' \in Result,
           mbr' \in {"none", "mbr", "garbage"}, fresh' \in BOOLEAN, late' \in BOOLEAN
    PROVE  TypeOK'
  BY DEF TypeOK, Emmc, Card, Descriptor, Request, Answers, TimeoutIsError

(* The flags, results and points that the steps use. *)
LEMMA Names ==
    /\ {"CMD_DONE", "CMD_TIMEOUT", "ERR", "READ_RDY", "DATA_DONE"} \subseteq Flag
    /\ {"OK", "ERROR", "TIMEOUT", "BUSY", "ERROR_RESET", "ERROR_CLOCK", "ERROR_VOLTAGE",
        "ERROR_APP_CMD", "CARD_CHANGED"} \subseteq Result
    /\ After \cup ScrPoints \cup {"start", "reset", "wait", "sent", "result", "clock"} \subseteq Points
  BY DEF Flag, Result, Points, After, ScrPoints

-----------------------------------------------------------------------------
(* What an answer, or its absence, does to the controller.                 *)
LEMMA AnsweredEffect ==
    ASSUME emmc \in Emmc, TimeoutIsError, card \in Card, NEW c \in Command,
           NEW good \in BOOLEAN, NEW app \in BOOLEAN, NEW complete \in BOOLEAN,
           Answered(c, good, app, complete)
    PROVE  /\ emmc' \in Emmc /\ TimeoutIsError'
           /\ emmc'.busy = "none" /\ emmc'.irq = emmc.irq \cup {"CMD_DONE"} /\ fresh' = TRUE
           /\ emmc'.dat = IF c \in {"SEND_SCR", "READ_SINGLE"} /\ good THEN "read" ELSE emmc.dat
           /\ emmc'.resp.good = good /\ emmc'.resp.app = app
           /\ emmc'.resp.ocr.complete = complete
           /\ emmc'.resp.ocr.ccs = (card.kind = "HC" /\ complete)
           /\ emmc'.width4 = emmc.width4 /\ emmc'.fast = emmc.fast
  <1> DEFINE a == [of |-> c, good |-> good, app |-> app,
                   ocr |-> [complete |-> complete, ccs |-> card.kind = "HC" /\ complete,
                            voltage |-> good]]
             d == IF c \in {"SEND_SCR", "READ_SINGLE"} /\ good THEN "read" ELSE emmc.dat
  <1>1. a \in Answers /\ d \in {"none", "read", "ready", "drained"}
    BY DEF Answers, Ocr, Emmc
  <1>2. a.good = good /\ a.app = app /\ a.ocr.complete = complete
        /\ a.ocr.ccs = (card.kind = "HC" /\ complete)
    OBVIOUS
  <1>3. emmc' = [emmc EXCEPT !.busy = "none", !.irq = @ \cup {"CMD_DONE"}, !.dat = d, !.resp = a]
        /\ fresh' = TRUE
    BY DEF Answered
  <1> HIDE DEF a, d
  <1>4. /\ emmc'.busy = "none" /\ emmc'.irq = emmc.irq \cup {"CMD_DONE"} /\ emmc'.dat = d
        /\ emmc'.resp = a /\ emmc'.width4 = emmc.width4 /\ emmc'.fast = emmc.fast
    BY <1>3 DEF Emmc
  <1>5. emmc' \in Emmc
    BY <1>1, <1>3, Names DEF Emmc
  <1>6. TimeoutIsError'
    BY <1>4 DEF TimeoutIsError
  <1> QED
    BY <1>2, <1>3, <1>4, <1>5, <1>6 DEF d

(* No answer: sdSendCommandP still sees the command done when the command  *)
(* has no answer.                                                          *)
LEMMA UnansweredEffect ==
    ASSUME emmc \in Emmc, TimeoutIsError, NEW c \in Command, NEW flags \in {Nothing, {"ERR"}},
           Unanswered(c, flags)
    PROVE  /\ emmc' \in Emmc /\ TimeoutIsError'
           /\ emmc'.busy = "none" /\ fresh' = TRUE
           /\ emmc'.irq = emmc.irq \cup
                 IF c \in {"GO_IDLE_STATE", "APP_CMD"} THEN {"CMD_DONE"} ELSE flags
           /\ emmc'.dat = emmc.dat /\ emmc'.resp = emmc.resp
           /\ emmc'.width4 = emmc.width4 /\ emmc'.fast = emmc.fast
  <1> DEFINE f == IF sdCommandTable[c].resp = "NO" THEN {"CMD_DONE"} ELSE flags
  <1>1. f = IF c \in {"GO_IDLE_STATE", "APP_CMD"} THEN {"CMD_DONE"} ELSE flags
    BY Table
  <1>2. emmc' = [emmc EXCEPT !.busy = "none", !.irq = @ \cup f] /\ fresh' = TRUE
    BY DEF Unanswered
  <1>3. f \in SUBSET Flag /\ ("CMD_TIMEOUT" \in f => "ERR" \in f)
    BY Names DEF Nothing
  <1> HIDE DEF f
  <1>4. emmc' \in Emmc /\ emmc'.irq = emmc.irq \cup f
    BY <1>2, <1>3 DEF Emmc
  <1>5. TimeoutIsError'
    BY <1>3, <1>4 DEF TimeoutIsError
  <1> QED
    BY <1>1, <1>2, <1>4, <1>5 DEF Emmc

(* What the card does when it obeys. *)
LEMMA ObeyedEffect ==
    ASSUME card \in Card, NEW c \in Command, NEW complete \in BOOLEAN, card' = Obeyed(c, complete)
    PROVE  /\ card' \in Card /\ card'.kind = card.kind
           /\ card'.width4 = IF c = "SET_BUS_WIDTH" THEN card.width4 \/ card.app
                             ELSE card.width4 /\ c # "GO_IDLE_STATE"
           /\ c = "CARD_SELECT" => card'.state = "tran"
           /\ c \in TranCommand \cup {"APP_CMD_RCA"} => card'.state = card.state
           /\ card'.state = "tran" => c = "CARD_SELECT" \/ card.state = "tran"
           /\ card.state = "tran" =>
                 \/ card'.state = "tran" 
                 \/ c \in {"GO_IDLE_STATE", "ALL_SEND_CID", "SEND_REL_ADDR"}
                 \/ c = "APP_SEND_OP_COND" /\ complete
  <1> DEFINE t == CASE c = "GO_IDLE_STATE" -> "idle"
                    [] c = "APP_SEND_OP_COND" /\ complete -> "ready"
                    [] c = "ALL_SEND_CID" -> "ident"
                    [] c = "SEND_REL_ADDR" -> "stby"
                    [] c = "CARD_SELECT" -> "tran"
                    [] OTHER -> card.state
             w == IF c = "SET_BUS_WIDTH" THEN card.width4 \/ card.app
                  ELSE card.width4 /\ c # "GO_IDLE_STATE"
             i == IF c = "SEND_IF_COND" THEN TRUE ELSE card.ifcond /\ c # "GO_IDLE_STATE"
             a == c \in {"APP_CMD", "APP_CMD_RCA"}
  <1>1. card' = [card EXCEPT !.app = a, !.ifcond = i, !.width4 = w, !.state = t]
    BY DEF Obeyed
  <1>2. w \in BOOLEAN /\ i \in BOOLEAN /\ a \in BOOLEAN
    <2>1. a \in BOOLEAN
      OBVIOUS
    <2>2. i \in BOOLEAN
      OBVIOUS
    <2>3. card.width4 \in BOOLEAN
      BY DEF Card
    <2>4. w \in BOOLEAN
      BY <2>3
    <2> QED
      BY <2>1, <2>2, <2>4
  <1>3. /\ t \in {"idle", "ready", "ident", "stby", "tran"}
        /\ c = "CARD_SELECT" => t = "tran"
        /\ c \in TranCommand \cup {"APP_CMD_RCA"} => t = card.state
        /\ t = "tran" => c = "CARD_SELECT" \/ card.state = "tran"
        /\ card.state = "tran" =>
              \/ t = "tran" \/ c \in {"GO_IDLE_STATE", "ALL_SEND_CID", "SEND_REL_ADDR"}
              \/ c = "APP_SEND_OP_COND" /\ complete
    BY DEF Card, TranCommand
  <1> HIDE DEF t, w, i, a
  <1>4. card' \in Card /\ card'.kind = card.kind /\ card'.width4 = w /\ card'.state = t
    BY <1>1, <1>2, <1>3 DEF Card
  <1> QED
    BY <1>3, <1>4 DEF w

(* The commands whose answers tell of a refusal. *)
Checked == TranCommand \cup {"CARD_SELECT", "APP_CMD_RCA", "SEND_REL_ADDR", "SEND_IF_COND"}

(* A command ends: obeyed and answered, refused, or without an answer.     *)
LEMMA ObeyEffect ==
    ASSUME TypeOK, Obey
    PROVE  \E complete \in BOOLEAN :
              /\ emmc.busy \in Command /\ Legal(emmc.busy) /\ card' = Obeyed(emmc.busy, complete)
              /\ complete => emmc.busy = "APP_SEND_OP_COND" /\ PowersUp
              /\ \/ \E good, app \in BOOLEAN :
                       /\ emmc.busy \notin {"GO_IDLE_STATE", "APP_CMD"}
                       /\ app <=> card.app \/ emmc.busy = "APP_CMD_RCA"
                       /\ Answered(emmc.busy, good, app, complete)
                 \/ Unanswered(emmc.busy, Nothing) \/ Unanswered(emmc.busy, {"ERR"})
  <1> DEFINE c == emmc.busy
  <1>1. c \in Command /\ Legal(c)
    BY Types DEF Obey, Emmc
  <1>2. PICK complete \in IF c = "APP_SEND_OP_COND" /\ PowersUp THEN BOOLEAN ELSE {FALSE} :
          /\ card' = Obeyed(c, complete)
          /\ \/ /\ sdCommandTable[c].resp # "NO"
                /\ \E good \in {g \in BOOLEAN : g \/ sdCommandTable[c].resp \in {"R3", "R2S"}} :
                      Answered(c, good, card.app \/ c = "APP_CMD_RCA", complete)
             \/ Unanswered(c, Nothing)
             \/ Unanswered(c, {"ERR"})
    BY DEF Obey
  <1>3. complete \in BOOLEAN /\ (complete => c = "APP_SEND_OP_COND" /\ PowersUp)
    BY <1>2
  <1>4. sdCommandTable[c].resp # "NO" => c \notin {"GO_IDLE_STATE", "APP_CMD"}
    BY <1>1, Table
  <1> HIDE DEF c
  <1>5. (\E good \in {g \in BOOLEAN : g \/ sdCommandTable[c].resp \in {"R3", "R2S"}} :
              Answered(c, good, card.app \/ c = "APP_CMD_RCA", complete))
        => \E good, app \in BOOLEAN : /\ app <=> card.app \/ c = "APP_CMD_RCA"
                                      /\ Answered(c, good, app, complete)
    <2>1. (card.app \/ c = "APP_CMD_RCA") \in BOOLEAN
      OBVIOUS
    <2> QED
      BY <2>1
  <1> QED
    BY <1>1, <1>2, <1>3, <1>4, <1>5 DEF c

(* A card that refuses a command answers it, if at all, without doing it. *)
LEMMA RefuseEffect ==
    ASSUME TypeOK, Refuse
    PROVE  /\ emmc.busy \in Checked /\ Legal(emmc.busy)
           /\ \/ Answered(emmc.busy, FALSE, FALSE, FALSE)
              \/ emmc.busy = "APP_CMD_RCA" /\ Answered(emmc.busy, TRUE, FALSE, FALSE)
           /\ card' \in Card /\ card'.kind = card.kind
           /\ card'.width4 = card.width4 /\ card'.state = card.state
  <1>1. emmc.busy \in Command
    BY Types DEF Refuse, Emmc
  <1>2. emmc.busy \in Checked
    BY <1>1, Table DEF Refuse, Checked
  <1> QED
    BY <1>2, Types DEF Refuse, Card

(* The data of a command comes, fails or ends; nothing else moves. *)
LEMMA DataEffect ==
    ASSUME TypeOK, DataReady \/ DataError \/ DataDone
    PROVE  /\ emmc' \in Emmc /\ UNCHANGED <<card, fresh>>
           /\ emmc'.busy = emmc.busy /\ emmc'.resp = emmc.resp
           /\ emmc'.width4 = emmc.width4 /\ emmc'.fast = emmc.fast
           /\ \/ emmc.dat = "read" /\ emmc'.dat = "ready" /\ emmc'.irq = emmc.irq \cup {"READ_RDY"}
              \/ /\ emmc.dat \in {"read", "drained"} /\ emmc'.dat = "none"
                 /\ emmc'.irq = emmc.irq \cup {"ERR"}
              \/ emmc.dat = "drained" /\ emmc'.dat = "none" /\ emmc'.irq = emmc.irq \cup {"DATA_DONE"}
  <1>1. emmc \in Emmc
    BY Types
  <1>2. CASE DataReady
    BY <1>1, <1>2, Names DEF DataReady, Emmc
  <1>3. CASE DataError
    BY <1>1, <1>3, Names DEF DataError, Emmc
  <1>4. CASE DataDone
    BY <1>1, <1>4, Names DEF DataDone, Emmc
  <1> QED
    BY <1>2, <1>3, <1>4

-----------------------------------------------------------------------------
(* What a driver step does to the request and to the descriptor.           *)
LEMMA SendEffect ==
    ASSUME NEW c \in Command, NEW kind \in {"none", "SC", "HC"}, NEW count \in 0 .. RETRIES,
           Send(c, kind, count)
    PROVE  /\ pc' = "wait" /\ call' \in Request
           /\ call'.cmd = c /\ call'.app = (c \in AppCommand) /\ call'.kind = kind
  BY DEF Send, Request

(* Which command is on the bus: the one asked for, or the APP_CMD before   *)
(* it.                                                                     *)
LEMMA CurrentEffect ==
    ASSUME call \in Request, PointInv
    PROVE  /\ Current \in Command
           /\ ~call.app => Current = call.cmd
           /\ call.app /\ sdCard.rca = 0 => Current = "APP_CMD"
           /\ call.app /\ sdCard.rca # 0 => Current = "APP_CMD_RCA"
           /\ call.app => Current \notin TranCommand \cup {"CARD_SELECT", "APP_SEND_OP_COND", "SEND_REL_ADDR"}
  BY Table DEF Current, Request, TranCommand

(* After a command: its own APP command goes out, or the driver has a      *)
(* result.                                                                 *)
LEMMA SentEffect ==
    ASSUME call \in Request, ret \in Result, NEW r \in Result, NEW st, Sent(r, st)
    PROVE  \/ /\ call.app /\ pc' = "wait" /\ ret' = ret
              /\ call' \in Request /\ ~call'.app /\ call'.cmd = call.cmd /\ call'.kind = call.kind
              /\ sdCard.rca # 0 => r = "OK" /\ st.app
           \/ /\ pc' = "result" /\ call' = call /\ ret' \in Result
              /\ ret' = "OK" => /\ r = "OK" /\ ~call.app
                                /\ call.cmd \in AppCommand /\ sdCard.rca # 0 => st.app
  <1>1. CASE pc' = "wait" /\ call' = [call EXCEPT !.app = FALSE] /\ UNCHANGED ret /\ call.app
             /\ (sdCard.rca # 0 => r = "OK" /\ st.app)
    BY <1>1 DEF Request
  <1>2. CASE \E f \in Result :
                /\ Finished(f)
                /\ f = "OK" => /\ r = "OK" /\ ~call.app
                               /\ call.cmd \in AppCommand /\ sdCard.rca # 0 => st.app
    BY <1>2 DEF Finished
  <1> QED
    BY <1>1, <1>2, Names DEF Sent

(* What sdWaitForInterrupt leaves in INTERRUPT. *)
LEMMA WaitedEffect ==
    ASSUME TypeOK, NEW mask \in Flag, NEW r \in Waits(mask), emmc' = Waited(r, mask)
    PROVE  /\ emmc' \in Emmc /\ TimeoutIsError' /\ r \in Result
           /\ r = "OK" => mask \in emmc.irq /\ "ERR" \notin emmc.irq /\ emmc'.irq = emmc.irq \ {mask}
           /\ r # "OK" => emmc'.irq = {}
           /\ emmc'.busy = emmc.busy /\ emmc'.dat = emmc.dat /\ emmc'.resp = emmc.resp
           /\ emmc'.width4 = emmc.width4 /\ emmc'.fast = emmc.fast
  <1> DEFINE q == IF r = "OK" THEN emmc.irq \ {mask} ELSE {}
  <1>0. emmc \in Emmc /\ TimeoutIsError
    BY Types
  <1>1. /\ r \in Result
        /\ r = "OK" => mask \in emmc.irq /\ "ERR" \notin emmc.irq /\ "CMD_TIMEOUT" \notin emmc.irq
    BY Names DEF Waits
  <1>2. emmc' = [emmc EXCEPT !.irq = q] /\ q \in SUBSET Flag
    BY <1>0 DEF Waited, Emmc
  <1>3. q = IF r = "OK" THEN emmc.irq \ {mask} ELSE {}
    OBVIOUS
  <1> HIDE DEF q
  <1>4. /\ emmc' \in Emmc /\ emmc'.irq = q
        /\ emmc'.busy = emmc.busy /\ emmc'.dat = emmc.dat /\ emmc'.resp = emmc.resp
        /\ emmc'.width4 = emmc.width4 /\ emmc'.fast = emmc.fast
    BY <1>0, <1>2 DEF Emmc
  <1>5. "CMD_TIMEOUT" \notin q
    BY <1>1, <1>3
  <1> QED
    BY <1>1, <1>3, <1>4, <1>5 DEF TimeoutIsError

(* What a command that went well stores in the descriptor. *)
LEMMA StoredEffect ==
    ASSUME emmc \in Emmc, sdCard \in Descriptor, NEW c \in Command
    PROVE  /\ Stored(c) \in Descriptor
           /\ Stored(c).rca = IF c = "SEND_REL_ADDR" THEN 1 ELSE sdCard.rca
           /\ Stored(c).ocr = IF c = "APP_SEND_OP_COND" THEN emmc.resp.ocr ELSE sdCard.ocr
           /\ c = "SET_BUS_WIDTH" => Stored(c).app = emmc.resp.app
           /\ Stored(c).type = sdCard.type /\ Stored(c).init = sdCard.init
  <1>0. /\ emmc.resp.app \in BOOLEAN /\ emmc.resp.good \in BOOLEAN /\ emmc.resp.ocr \in Ocr
    BY DEF Emmc, Answers
  <1>1. CASE c \in TranCommand \cup {"CARD_SELECT", "APP_CMD_RCA"}
    <2>1. Stored(c) = [sdCard EXCEPT !.app = emmc.resp.app]
      BY <1>1, Table DEF Stored
    <2> QED
      BY <1>0, <1>1, <2>1 DEF Descriptor, TranCommand
  <1>2. CASE c \in {"ALL_SEND_CID", "SEND_IF_COND"}
    <2>1. Stored(c) = [sdCard EXCEPT !.app = FALSE]
      BY <1>2, Table DEF Stored
    <2> QED
      BY <1>0, <1>2, <2>1 DEF Descriptor
  <1>3. CASE c = "SEND_CSD"
    <2>1. Stored(c) = [sdCard EXCEPT !.app = FALSE, !.format = emmc.resp.good]
      BY <1>3, Table DEF Stored
    <2> QED
      BY <1>0, <1>3, <2>1 DEF Descriptor
  <1>4. CASE c = "APP_SEND_OP_COND"
    <2>1. Stored(c) = [sdCard EXCEPT !.app = FALSE, !.ocr = emmc.resp.ocr]
      BY <1>4, Table DEF Stored
    <2> QED
      BY <1>0, <1>4, <2>1 DEF Descriptor
  <1>5. CASE c = "SEND_REL_ADDR"
    <2>1. Stored(c) = [sdCard EXCEPT !.app = emmc.resp.app, !.rca = 1]
      BY <1>5, Table DEF Stored
    <2> QED
      BY <1>0, <1>5, <2>1 DEF Descriptor
  <1>6. CASE c \in {"GO_IDLE_STATE", "APP_CMD"}
    <2>1. Stored(c) = sdCard
      BY <1>6, Table DEF Stored
    <2> QED
      BY <1>0, <1>6, <2>1 DEF Descriptor
  <1> QED
    BY <1>1, <1>2, <1>3, <1>4, <1>5, <1>6, Table DEF TranCommand

-----------------------------------------------------------------------------

-----------------------------------------------------------------------------
(* The controller and the card keep the invariant.                         *)
LEMMA ControllerEffect ==
    ASSUME TypeOK, Controller
    PROVE  /\ TypeOK' /\ UNCHANGED <<sdCard, pc, call, ret, mbr, late>>
           /\ card'.kind = card.kind
           /\ emmc'.width4 = emmc.width4 /\ emmc'.fast = emmc.fast
  <1>0. /\ emmc \in Emmc /\ card \in Card /\ TimeoutIsError
        /\ sdCard \in Descriptor /\ call \in Request /\ pc \in Points /\ ret \in Result
        /\ mbr \in {"none", "mbr", "garbage"} /\ fresh \in BOOLEAN /\ late \in BOOLEAN
    BY Types
  <1>1. UNCHANGED <<sdCard, pc, call, ret, mbr, late>>
    BY DEF Controller, Obey, Refuse, Ignore, DataReady, DataError, DataDone
  <1>2. SUFFICES /\ emmc' \in Emmc /\ card' \in Card /\ TimeoutIsError' /\ fresh' \in BOOLEAN
                 /\ card'.kind = card.kind
                 /\ emmc'.width4 = emmc.width4 /\ emmc'.fast = emmc.fast
    BY <1>0, <1>1, TypesNext
  <1>3. CASE Obey
    <2>1. PICK complete \in BOOLEAN :
              /\ emmc.busy \in Command /\ card' = Obeyed(emmc.busy, complete)
              /\ \/ \E good, app \in BOOLEAN : Answered(emmc.busy, good, app, complete)
                 \/ Unanswered(emmc.busy, Nothing) \/ Unanswered(emmc.busy, {"ERR"})
      BY <1>3, ObeyEffect
    <2>2. card' \in Card /\ card'.kind = card.kind
      BY <1>0, <2>1, ObeyedEffect
    <2>3. CASE Unanswered(emmc.busy, Nothing) \/ Unanswered(emmc.busy, {"ERR"})
      BY <1>0, <2>1, <2>2, <2>3, UnansweredEffect
    <2>4. CASE \E good, app \in BOOLEAN : Answered(emmc.busy, good, app, complete)
      BY <1>0, <2>1, <2>2, <2>4, AnsweredEffect
    <2> QED
      BY <2>1, <2>3, <2>4
  <1>4. CASE Refuse
    <2>1. emmc.busy \in Command /\ card' \in Card /\ card'.kind = card.kind
      BY <1>4, RefuseEffect, Table DEF Checked, TranCommand
    <2>2. Answered(emmc.busy, FALSE, FALSE, FALSE) \/ Answered(emmc.busy, TRUE, FALSE, FALSE)
      BY <1>4, RefuseEffect
    <2> QED
      BY <1>0, <2>1, <2>2, AnsweredEffect
  <1>5. CASE Ignore
    <2>1. emmc.busy \in Command /\ Unanswered(emmc.busy, Nothing) /\ card' = card
      BY <1>0, <1>5 DEF Ignore, Emmc
    <2> QED
      BY <1>0, <2>1, UnansweredEffect
  <1>6. CASE DataReady \/ DataError \/ DataDone
    BY <1>0, <1>6, DataEffect DEF TimeoutIsError
  <1> QED
    BY <1>3, <1>4, <1>5, <1>6 DEF Controller

(* How a command comes to its end: with an answer, or without. *)
AnswerComes ==
    /\ emmc.busy \notin {"GO_IDLE_STATE", "APP_CMD"}
    /\ emmc'.irq = emmc.irq \cup {"CMD_DONE"}
    /\ emmc'.dat = IF emmc.busy \in {"SEND_SCR", "READ_SINGLE"} /\ emmc'.resp.good
                   THEN "read" ELSE emmc.dat
    /\ emmc'.resp.ocr.complete => PowersUp /\ (emmc'.resp.ocr.ccs <=> card.kind = "HC")
    /\ emmc'.resp.good /\ emmc.busy # "APP_CMD_RCA" =>
          /\ Legal(emmc.busy)
          /\ emmc.busy = "CARD_SELECT" => card'.state = "tran"
          /\ emmc.busy = "SET_BUS_WIDTH" /\ emmc'.resp.app => card'.width4

NoAnswerComes ==
    /\ "CMD_DONE" \in emmc'.irq => "CMD_DONE" \in emmc.irq \/ emmc.busy \in {"GO_IDLE_STATE", "APP_CMD"}
    /\ emmc'.dat = emmc.dat

CommandEnds ==
    /\ emmc.busy \in Command /\ emmc'.busy = "none" /\ fresh' = TRUE
    /\ AnswerComes \/ NoAnswerComes
    /\ card'.width4 => card.width4 \/ emmc.busy = "SET_BUS_WIDTH"
    /\ card.width4 => card'.width4 \/ emmc.busy = "GO_IDLE_STATE"
    /\ emmc.busy \in TranCommand \cup {"APP_CMD_RCA"} => card'.state = card.state
    /\ (card.width4 => card.state = "tran") => (card'.width4 => card'.state = "tran")

(* A command without an answer is over. *)
LEMMA UnansweredEnds ==
    ASSUME emmc \in Emmc, TimeoutIsError, NEW c \in Command, c = emmc.busy,
           NEW flags \in {Nothing, {"ERR"}}, Unanswered(c, flags)
    PROVE  emmc'.busy = "none" /\ fresh' = TRUE /\ NoAnswerComes
  <1>1. "CMD_DONE" \notin flags
    BY DEF Nothing
  <1> QED
    BY <1>1, UnansweredEffect DEF NoAnswerComes

(* Whatever the card does with a command, the command is over. *)
LEMMA CommandEffect ==
    ASSUME TypeOK, Obey \/ Refuse \/ Ignore
    PROVE  CommandEnds
  <1>0. emmc \in Emmc /\ card \in Card /\ TimeoutIsError
    BY Types
  <1>1. CASE Obey
    <2>1. PICK complete \in BOOLEAN :
              /\ emmc.busy \in Command /\ Legal(emmc.busy) /\ card' = Obeyed(emmc.busy, complete)
              /\ complete => emmc.busy = "APP_SEND_OP_COND" /\ PowersUp
              /\ \/ \E good, app \in BOOLEAN :
                       /\ emmc.busy \notin {"GO_IDLE_STATE", "APP_CMD"}
                       /\ app <=> card.app \/ emmc.busy = "APP_CMD_RCA"
                       /\ Answered(emmc.busy, good, app, complete)
                 \/ Unanswered(emmc.busy, Nothing) \/ Unanswered(emmc.busy, {"ERR"})
      BY <1>1, ObeyEffect
    <2>2. /\ card' \in Card /\ card'.kind = card.kind
          /\ card'.width4 = IF emmc.busy = "SET_BUS_WIDTH" THEN card.width4 \/ card.app
                            ELSE card.width4 /\ emmc.busy # "GO_IDLE_STATE"
          /\ emmc.busy = "CARD_SELECT" => card'.state = "tran"
          /\ emmc.busy \in TranCommand \cup {"APP_CMD_RCA"} => card'.state = card.state
          /\ card.state = "tran" =>
                \/ card'.state = "tran" 
                \/ emmc.busy \in {"GO_IDLE_STATE", "ALL_SEND_CID", "SEND_REL_ADDR"}
                \/ emmc.busy = "APP_SEND_OP_COND" /\ complete
      BY <1>0, <2>1, ObeyedEffect
    <2>3. (card.width4 => card.state = "tran") => (card'.width4 => card'.state = "tran")
      <3>1. emmc.busy = "SET_BUS_WIDTH" => card.state = "tran"
        BY <2>1 DEF Legal
      <3>2. emmc.busy \in {"ALL_SEND_CID", "SEND_REL_ADDR", "APP_SEND_OP_COND"} => card.state # "tran"
        BY <2>1 DEF Legal
      <3> QED
        BY <2>2, <3>1, <3>2
    <2>4. CASE Unanswered(emmc.busy, Nothing) \/ Unanswered(emmc.busy, {"ERR"})
      <3>1. emmc'.busy = "none" /\ fresh' = TRUE /\ NoAnswerComes
        BY <1>0, <2>1, <2>4, UnansweredEnds
      <3> QED
        BY <2>1, <2>2, <2>3, <3>1 DEF CommandEnds
    <2>5. ASSUME NEW good \in BOOLEAN, NEW app \in BOOLEAN,
                 emmc.busy \notin {"GO_IDLE_STATE", "APP_CMD"},
                 app <=> card.app \/ emmc.busy = "APP_CMD_RCA",
                 Answered(emmc.busy, good, app, complete)
          PROVE  CommandEnds
      <3>1. /\ emmc'.busy = "none" /\ emmc'.irq = emmc.irq \cup {"CMD_DONE"} /\ fresh' = TRUE
            /\ emmc'.dat = IF emmc.busy \in {"SEND_SCR", "READ_SINGLE"} /\ good
                           THEN "read" ELSE emmc.dat
            /\ emmc'.resp.good = good /\ emmc'.resp.app = app
            /\ emmc'.resp.ocr.complete = complete
            /\ emmc'.resp.ocr.ccs = (card.kind = "HC" /\ complete)
        BY <1>0, <2>1, <2>5, AnsweredEffect
      <3>2. AnswerComes
        BY <2>1, <2>2, <2>5, <3>1 DEF AnswerComes
      <3> QED
        BY <2>1, <2>2, <2>3, <3>1, <3>2 DEF CommandEnds
    <2> QED
      BY <2>1, <2>4, <2>5
  <1>2. CASE Refuse
    <2>1. /\ emmc.busy \in Checked /\ Legal(emmc.busy)
          /\ card'.width4 = card.width4 /\ card'.state = card.state
      BY <1>2, RefuseEffect
    <2>2. emmc.busy \in Command /\ emmc.busy \notin {"GO_IDLE_STATE", "APP_CMD"}
      BY <2>1, Table DEF Checked, TranCommand
    <2>3. ASSUME NEW good \in BOOLEAN, Answered(emmc.busy, good, FALSE, FALSE),
                 good => emmc.busy = "APP_CMD_RCA"
          PROVE  CommandEnds
      <3>1. /\ emmc'.busy = "none" /\ emmc'.irq = emmc.irq \cup {"CMD_DONE"} /\ fresh' = TRUE
            /\ emmc'.dat = IF emmc.busy \in {"SEND_SCR", "READ_SINGLE"} /\ good
                           THEN "read" ELSE emmc.dat
            /\ emmc'.resp.good = good /\ emmc'.resp.ocr.complete = FALSE
        BY <1>0, <2>2, <2>3, AnsweredEffect
      <3> QED
        BY <2>1, <2>2, <2>3, <3>1 DEF CommandEnds, AnswerComes
    <2> QED
      BY <1>2, <2>3, RefuseEffect
  <1>3. CASE Ignore
    <2>1. emmc.busy \in Command /\ Unanswered(emmc.busy, Nothing) /\ card' = card
      BY <1>0, <1>3 DEF Ignore, Emmc
    <2>2. emmc'.busy = "none" /\ fresh' = TRUE /\ NoAnswerComes
      BY <1>0, <2>1, UnansweredEnds
    <2> QED
      BY <2>1, <2>2 DEF CommandEnds
  <1> QED
    BY <1>1, <1>2, <1>3

(* The controller and the card keep the invariant. *)
LEMMA ControllerKeeps ==
    ASSUME InitInv, Controller
    PROVE  InitInv'
  <1>0. /\ TypeOK' /\ UNCHANGED <<sdCard, pc, call, ret, mbr, late>>
        /\ card'.kind = card.kind
        /\ emmc'.width4 = emmc.width4 /\ emmc'.fast = emmc.fast
    BY ControllerEffect DEF InitInv
  <1>1. /\ emmc \in Emmc /\ card \in Card /\ TimeoutIsError /\ call \in Request
    BY Types DEF InitInv
  <1>2. PointInv' /\ Current' = Current
    BY <1>0 DEF InitInv, PointInv, Current, On
  <1>3. /\ ~call.app => Current = call.cmd
        /\ call.app => Current \in {"APP_CMD", "APP_CMD_RCA"}
        /\ call.app => call.cmd \in AppCommand
    BY DEF Current, InitInv, PointInv
  <1>4. CASE CommandEnds
    <2>0. /\ AnswerInv /\ OcrInv /\ BusInv /\ BlockInv
          /\ emmc.busy \in Command /\ emmc'.busy = "none" /\ fresh' = TRUE
          /\ emmc.busy # "none"
      BY <1>4, Table DEF InitInv, CommandEnds
    <2>1. AnswerInv'
      BY <1>0, <2>0 DEF AnswerInv
    <2>2. /\ pc = "sent" => emmc.busy = Current /\ "CMD_DONE" \notin emmc.irq
          /\ ~(pc = "result" /\ ret = "OK")
      BY <2>0 DEF AnswerInv
    <2>3. pc = "sent" /\ Current \notin {"GO_IDLE_STATE", "APP_CMD"} /\ "CMD_DONE" \in emmc'.irq => AnswerComes
      BY <1>4, <2>0, <2>2 DEF CommandEnds, NoAnswerComes
    <2>4. ASSUME NEW c \in TranCommand \cup {"CARD_SELECT"}, GoodAnswer(c)'
          PROVE  emmc.busy = c /\ emmc'.resp.good /\ AnswerComes /\ Legal(c) /\ pc = "sent" /\ Current = c
      <3>1. pc = "sent" /\ Current = c /\ "CMD_DONE" \in emmc'.irq /\ emmc'.resp.good
        BY <1>0, <1>2, <2>4 DEF GoodAnswer
      <3>2. emmc.busy = c /\ c \notin {"GO_IDLE_STATE", "APP_CMD", "APP_CMD_RCA"}
        BY <2>2, <3>1 DEF TranCommand
      <3>3. AnswerComes
        BY <2>3, <3>1, <3>2
      <3> QED
        BY <3>1, <3>2, <3>3 DEF AnswerComes
    <2>5. \A c : Succeeded(c)' => FALSE
      BY <1>0, <2>2 DEF Succeeded
    <2>6. OcrInv'
      <3>1. pc = "sent" /\ Current = "APP_SEND_OP_COND" /\ "CMD_DONE" \in emmc'.irq /\ emmc'.resp.ocr.complete =>
                (emmc'.resp.ocr.ccs <=> card.kind = "HC") /\ (card.kind = "HC" => call.kind = "HC")
        BY <2>3 DEF AnswerComes, PowersUp
      <3> QED
        BY <1>0, <1>2, <2>0, <3>1 DEF OcrInv, On
    <2>7. BusInv'
      <3>1. card'.width4 => card'.state = "tran"
        BY <1>4, <2>0 DEF BusInv, CommandEnds
      <3>2. GoodAnswer("CARD_SELECT")' => card'.state = "tran" /\ ~card'.width4
        BY <1>4, <2>0, <2>4 DEF AnswerComes, CommandEnds, Legal, BusInv
      <3>3. (GoodAnswer("SET_BUS_WIDTH") /\ emmc.resp.app)' => card'.width4
        BY <2>4 DEF AnswerComes, TranCommand
      <3>4. On(TranCommand) \/ pc \in ScrPoints \/ sdCard.init =>
                emmc.busy \in TranCommand \cup {"APP_CMD_RCA"} /\ card'.state = "tran"
        BY <1>4, <2>0 DEF BusInv, CommandEnds, On, TranCommand
      <3>5. On({"SEND_SCR"}) \/ pc \in ScrPoints => ~card'.width4
        BY <1>4, <2>0 DEF BusInv, CommandEnds, On, TranCommand
      <3>6. On({"SET_BLOCKLEN"}) \/ sdCard.init => card'.width4 = card.width4
        <4>1. card.width4 \in BOOLEAN /\ card'.width4 \in BOOLEAN
          BY <1>0, <1>1 DEF TypeOK, Card
        <4>2. On({"SET_BLOCKLEN"}) \/ sdCard.init => emmc.busy \in {"SET_BLOCKLEN", "APP_CMD_RCA", "READ_SINGLE"}
          BY <2>0 DEF BusInv, On, TranCommand
        <4> QED
          BY <1>4, <4>1, <4>2 DEF CommandEnds
      <3> QED
        BY <1>0, <1>2, <2>0, <2>5, <3>1, <3>2, <3>3, <3>4, <3>5, <3>6 DEF BusInv, On
    <2>8. BlockInv'
      <3>1. GoodAnswer("SET_BLOCKLEN")' => emmc'.dat = "none"
        BY <2>4 DEF AnswerComes, Legal, TranCommand
      <3>2. GoodAnswer("READ_SINGLE")' => Coming(emmc.irq \ {"CMD_DONE"})'
        <4> SUFFICES ASSUME GoodAnswer("READ_SINGLE")' PROVE Coming(emmc.irq \ {"CMD_DONE"})'
          OBVIOUS
        <4>1. emmc.busy = "READ_SINGLE" /\ emmc'.resp.good /\ AnswerComes /\ pc = "sent" /\ Current = "READ_SINGLE"
          BY <2>4 DEF TranCommand
        <4>2. call.cmd = "READ_SINGLE"
          BY <1>3, <4>1
        <4>3. emmc.irq = {}
          BY <2>0, <4>1, <4>2 DEF BlockInv
        <4>4. emmc'.dat = "read" /\ emmc'.irq \ {"CMD_DONE"} = {}
          BY <4>1, <4>3 DEF AnswerComes
        <4> QED
          BY <4>4 DEF Coming
      <3>3. pc = "wait" /\ call.cmd = "READ_SINGLE" => FALSE
        BY <2>0 DEF BusInv, On, TranCommand
      <3>4. pc \notin {"returned", "mbr_rdy", "mbr_data", "mbr_done", "done"} \/ (pc = "returned" /\ ~sdCard.init)
        BY <2>0 DEF BlockInv
      <3> QED
        BY <1>0, <2>0, <2>5, <3>1, <3>2, <3>3, <3>4 DEF BlockInv
    <2> QED
      BY <1>0, <1>2, <2>1, <2>6, <2>7, <2>8 DEF InitInv
  <1>5. CASE DataReady \/ DataError \/ DataDone
    <2> USE <1>0, <1>1, <1>2, <1>3, <1>5, DataEffect DEF InitInv
    <2>1. AnswerInv'
      BY DEF AnswerInv
    <2>2. OcrInv'
      BY DEF OcrInv, On
    <2>3. BusInv'
      BY DEF BusInv, On, GoodAnswer, Succeeded
    <2>4. BlockInv'
      BY DEF BlockInv, Coming, Leaving, GoodAnswer, Succeeded
    <2> QED
      BY <2>1, <2>2, <2>3, <2>4
  <1> QED
    BY <1>4, <1>5, CommandEffect DEF Controller, InitInv

-----------------------------------------------------------------------------
(* A command is issued to a controller without one: nothing is left of the *)
(* command before.                                                         *)
LEMMA IssueKeeps ==
    ASSUME InitInv, Issue
    PROVE  InitInv'
  <1>0. /\ emmc \in Emmc /\ card \in Card /\ TimeoutIsError
        /\ sdCard \in Descriptor /\ call \in Request /\ pc \in Points /\ ret \in Result
        /\ mbr \in {"none", "mbr", "garbage"} /\ fresh \in BOOLEAN /\ late \in BOOLEAN
        /\ PointInv /\ AnswerInv /\ OcrInv /\ BusInv /\ BlockInv
    BY Types DEF InitInv
  <1>1. /\ pc = "wait" /\ pc' = "sent" /\ emmc.busy = "none" /\ fresh' = FALSE
        /\ UNCHANGED <<card, sdCard, call, ret, mbr, late>>
    BY DEF Issue
  <1>2. /\ Current \in Command /\ Current' = Current
        /\ ~call.app => Current = call.cmd
        /\ call.app => call.cmd \in AppCommand /\ (sdCard.rca = 0 \/ Current = "APP_CMD_RCA")
    BY <1>0, <1>1, CurrentEffect DEF Current, PointInv
  <1>3. /\ emmc' \in Emmc /\ emmc'.busy = Current /\ emmc'.irq = {}
        /\ emmc'.dat = emmc.dat /\ emmc'.width4 = emmc.width4 /\ emmc'.fast = emmc.fast
    BY <1>0, <1>2 DEF Issue, Emmc
  <1>4. TypeOK'
    BY <1>0, <1>1, <1>3, TypesNext, Names DEF TimeoutIsError
  <1>5. PointInv'
    BY <1>0, <1>1 DEF PointInv, On, After, ScrPoints
  <1>6. AnswerInv'
    BY <1>1, <1>2, <1>3 DEF AnswerInv
  <1>7. OcrInv'
    BY <1>0, <1>1, <1>3 DEF OcrInv, On, ScrPoints
  <1>8. BusInv'
    <2>1. On(TranCommand) => Current \in {"APP_CMD_RCA", call.cmd}
      BY <1>0, <1>2 DEF PointInv, On
    <2>2. sdCard.init => call.cmd = "READ_SINGLE" /\ Current = "READ_SINGLE"
      BY <1>0, <1>1, <1>2 DEF PointInv, On, After, AppCommand
    <2> QED
      BY <1>0, <1>1, <1>2, <1>3, <2>1, <2>2 DEF BusInv, On, GoodAnswer, Succeeded, ScrPoints, After
  <1>9. BlockInv'
    BY <1>0, <1>1, <1>3 DEF BlockInv, GoodAnswer, Succeeded
  <1> QED
    BY <1>4, <1>5, <1>6, <1>7, <1>8, <1>9 DEF InitInv

(* The driver gives up before it has sent the command. *)
LEMMA BusyKeeps ==
    ASSUME InitInv, Busy
    PROVE  InitInv'
  <1>0. /\ emmc \in Emmc /\ card \in Card /\ TimeoutIsError
        /\ sdCard \in Descriptor /\ call \in Request /\ pc \in Points /\ ret \in Result
        /\ mbr \in {"none", "mbr", "garbage"} /\ fresh \in BOOLEAN /\ late \in BOOLEAN
        /\ PointInv /\ AnswerInv /\ OcrInv /\ BusInv /\ BlockInv
    BY Types DEF InitInv
  <1>1. pc = "wait" /\ UNCHANGED <<emmc, card, sdCard, mbr, fresh, late>>
    BY DEF Busy
  <1>2. \/ /\ call.app /\ pc' = "wait" /\ ret' = ret /\ sdCard.rca = 0
           /\ call' \in Request /\ ~call'.app /\ call'.cmd = call.cmd /\ call'.kind = call.kind
        \/ pc' = "result" /\ call' = call /\ ret' \in Result /\ ret' # "OK"
    BY <1>0, SentEffect, Names DEF Busy
  <1>3. TypeOK'
    BY <1>0, <1>1, <1>2, TypesNext, Names DEF TimeoutIsError
  <1>4. PointInv'
    BY <1>0, <1>1, <1>2 DEF PointInv, On, After, ScrPoints
  <1>5. AnswerInv'
    BY <1>1, <1>2 DEF AnswerInv
  <1>6. OcrInv'
    BY <1>0, <1>1, <1>2 DEF OcrInv, On, ScrPoints
  <1>7. BusInv'
    BY <1>0, <1>1, <1>2 DEF BusInv, PointInv, On, GoodAnswer, Succeeded, ScrPoints, After
  <1>8. BlockInv'
    BY <1>0, <1>1, <1>2 DEF BlockInv, PointInv, AppCommand, GoodAnswer, Succeeded
  <1> QED
    BY <1>3, <1>4, <1>5, <1>6, <1>7, <1>8 DEF InitInv

(* The driver takes the answer, or gives up. *)
LEMMA AnswerKeeps ==
    ASSUME InitInv, Answer
    PROVE  InitInv'
  <1>0. /\ emmc \in Emmc /\ card \in Card /\ TimeoutIsError
        /\ sdCard \in Descriptor /\ call \in Request /\ pc \in Points /\ ret \in Result
        /\ mbr \in {"none", "mbr", "garbage"} /\ fresh \in BOOLEAN /\ late \in BOOLEAN
        /\ PointInv /\ AnswerInv /\ OcrInv /\ BusInv /\ BlockInv /\ TypeOK
    BY Types DEF InitInv
  <1>1. pc = "sent" /\ UNCHANGED <<card, mbr, fresh, late>>
    BY DEF Answer
  <1>2. /\ Current \in Command
        /\ ~call.app => Current = call.cmd
        /\ call.app => call.cmd \in AppCommand /\ Current \in {"APP_CMD", "APP_CMD_RCA"}
    BY <1>0, CurrentEffect DEF Current, PointInv
  <1>3. PICK r \in Waits("CMD_DONE") :
            /\ emmc' = Waited(r, "CMD_DONE")
            /\ IF r = "OK"
               THEN sdCard' = Stored(Current) /\ Sent(Outcome(Current), Stored(Current))
               ELSE UNCHANGED sdCard /\ Sent(r, sdCard)
    BY DEF Answer
  <1>4. /\ emmc' \in Emmc /\ TimeoutIsError' /\ r \in Result
        /\ r = "OK" => "CMD_DONE" \in emmc.irq /\ emmc'.irq = emmc.irq \ {"CMD_DONE"}
        /\ emmc'.busy = emmc.busy /\ emmc'.dat = emmc.dat
        /\ emmc'.width4 = emmc.width4 /\ emmc'.fast = emmc.fast
    BY <1>0, <1>3, WaitedEffect, Names
  <1>5. /\ sdCard' \in Descriptor /\ sdCard'.type = sdCard.type /\ sdCard'.init = sdCard.init
        /\ sdCard.rca = 1 => sdCard'.rca = 1
        /\ sdCard'.ocr = sdCard.ocr \/
              (Current = "APP_SEND_OP_COND" /\ "CMD_DONE" \in emmc.irq /\ sdCard'.ocr = emmc.resp.ocr)
        /\ r = "OK" => /\ Current = "SEND_REL_ADDR" => sdCard'.rca = 1
                       /\ Current = "SET_BUS_WIDTH" => sdCard'.app = emmc.resp.app
    BY <1>0, <1>2, <1>3, <1>4, StoredEffect
  <1>6. PICK f \in Result :
            /\ Sent(f, sdCard')
            /\ f = "OK" => /\ r = "OK" /\ "CMD_DONE" \in emmc.irq /\ emmc.busy = "none"
                           /\ Current \in TranCommand \cup {"CARD_SELECT"} => emmc.resp.good
    <2>1. CASE r = "OK"
      <3>1. Outcome(Current) \in Result
        BY Names DEF Outcome
      <3>2. Outcome(Current) = "OK" /\ Current \in TranCommand \cup {"CARD_SELECT"} => emmc.resp.good
        BY <1>2, Table DEF Outcome
      <3>3. "CMD_DONE" \in emmc.irq /\ emmc.busy = "none"
        BY <1>0, <1>1, <1>4, <2>1 DEF AnswerInv
      <3> QED
        BY <1>3, <2>1, <3>1, <3>2, <3>3
    <2>2. CASE r # "OK"
      BY <1>3, <1>4, <2>2
    <2> QED
      BY <2>1, <2>2
  <1>7. \/ /\ call.app /\ pc' = "wait" /\ ret' = ret
           /\ call' \in Request /\ ~call'.app /\ call'.cmd = call.cmd /\ call'.kind = call.kind
           /\ sdCard.rca # 0 => f = "OK"
        \/ /\ pc' = "result" /\ call' = call /\ ret' \in Result
           /\ ret' = "OK" => /\ f = "OK" /\ ~call.app
                             /\ call.cmd \in AppCommand /\ sdCard.rca # 0 => sdCard'.app
    BY <1>0, <1>6, SentEffect
  <1>8. \A c \in TranCommand \cup {"CARD_SELECT"} : Succeeded(c)' =>
            GoodAnswer(c) /\ call.cmd = c /\ (c = "SET_BUS_WIDTH" => emmc.resp.app)
    <2> SUFFICES ASSUME NEW c \in TranCommand \cup {"CARD_SELECT"}, Succeeded(c)'
                 PROVE  GoodAnswer(c) /\ call.cmd = c /\ (c = "SET_BUS_WIDTH" => emmc.resp.app)
      OBVIOUS
    <2>1. /\ f = "OK" /\ ~call.app /\ call.cmd = c /\ Current = c
          /\ call.cmd \in AppCommand /\ sdCard.rca # 0 => sdCard'.app
      BY <1>2, <1>7 DEF Succeeded
    <2>2. GoodAnswer(c)
      BY <1>1, <1>6, <2>1 DEF GoodAnswer
    <2>3. c = "SET_BUS_WIDTH" => emmc.resp.app
      BY <1>0, <1>1, <1>5, <1>6, <2>1 DEF PointInv, On, TranCommand, AppCommand
    <2> QED
      BY <2>1, <2>2, <2>3
  <1>9. TypeOK'
    BY <1>0, <1>1, <1>4, <1>5, <1>7, TypesNext, Names
  <1>10. PointInv'
    BY <1>0, <1>1, <1>2, <1>5, <1>6, <1>7 DEF PointInv, On, After, ScrPoints
  <1>11. AnswerInv'
    BY <1>4, <1>6, <1>7 DEF AnswerInv
  <1>12. OcrInv'
    BY <1>0, <1>1, <1>2, <1>5, <1>7 DEF OcrInv, On, AppCommand, ScrPoints
  <1>13. BusInv'
    <2>1. (Succeeded("CARD_SELECT") \/ GoodAnswer("CARD_SELECT"))' => card.state = "tran" /\ ~card.width4
      BY <1>0, <1>7, <1>8 DEF BusInv, GoodAnswer
    <2>2. (Succeeded("SET_BUS_WIDTH") \/ GoodAnswer("SET_BUS_WIDTH"))' => card.width4
      BY <1>0, <1>7, <1>8 DEF BusInv, GoodAnswer, TranCommand
    <2>3. On(TranCommand)' =>
              /\ emmc.busy \in {"none", "APP_CMD_RCA", call'.cmd}
              /\ pc' = "wait" => emmc.busy = "none"
      BY <1>0, <1>1, <1>6, <1>7 DEF BusInv, PointInv, On
    <2> QED
      BY <1>0, <1>1, <1>4, <1>5, <1>7, <2>1, <2>2, <2>3 DEF BusInv, On, ScrPoints, After
  <1>14. BlockInv'
    <2>1. Succeeded("SET_BLOCKLEN")' => emmc.dat = "none"
      BY <1>0, <1>8 DEF BlockInv, TranCommand
    <2>2. Succeeded("READ_SINGLE")' => Coming(emmc.irq)'
      <3>1. Succeeded("READ_SINGLE")' => Coming(emmc.irq \ {"CMD_DONE"})
        BY <1>0, <1>8 DEF BlockInv, TranCommand
      <3> QED
        BY <1>4, <1>6, <1>7, <3>1 DEF Coming, Succeeded
    <2> QED
      BY <1>1, <1>2, <1>4, <1>7, <2>1, <2>2 DEF BlockInv, GoodAnswer, AppCommand
  <1> QED
    BY <1>9, <1>10, <1>11, <1>12, <1>13, <1>14 DEF InitInv

-----------------------------------------------------------------------------
(* The dialogue                                                            *)
LEMMA InitInvParts ==
    ASSUME InitInv
    PROVE  /\ emmc \in Emmc /\ card \in Card /\ TimeoutIsError
           /\ sdCard \in Descriptor /\ call \in Request /\ pc \in Points /\ ret \in Result
           /\ mbr \in {"none", "mbr", "garbage"} /\ fresh \in BOOLEAN /\ late \in BOOLEAN
           /\ PointInv /\ AnswerInv /\ OcrInv /\ BusInv /\ BlockInv /\ TypeOK
  BY Types DEF InitInv

(* sdInit fails: nothing is promised of the card. *)
LEMMA ReturnKeeps ==
    ASSUME InitInv, ~sdCard.init, \E r \in Result : Return(r),
           emmc' \in Emmc, TimeoutIsError', UNCHANGED <<card, sdCard, mbr, fresh, late>>
    PROVE  InitInv'
  <1>1. pc' = "returned" /\ ret' \in Result /\ call' = NoCall
    BY DEF Return
  <1>2. NoCall \in Request /\ ~NoCall.app
    BY SdInitAssumption, Table DEF NoCall, Request
  <1>3. TypeOK'
    BY <1>1, <1>2, InitInvParts, TypesNext, Names DEF After
  <1>4. PointInv' /\ AnswerInv' /\ OcrInv'
    BY <1>1, <1>2 DEF PointInv, AnswerInv, OcrInv, On, ScrPoints
  <1>5. BusInv'
    BY <1>1, InitInvParts DEF BusInv, On, GoodAnswer, Succeeded, ScrPoints, After
  <1>6. BlockInv'
    BY <1>1, InitInvParts DEF BlockInv, GoodAnswer, Succeeded
  <1> QED
    BY <1>3, <1>4, <1>5, <1>6 DEF InitInv

(* The card is asked what it is, before it is known to be complete. *)
LEMMA AskKeeps ==
    ASSUME InitInv, pc \in {"result", "start"}, ~sdCard.init, ~sdCard.ocr.complete, ~emmc.width4,
           call' \in Request,
           \/ pc' = "reset" /\ ~call'.app
           \/ pc' = "wait" /\ call'.cmd = "SEND_IF_COND" /\ ~call'.app
           \/ pc' = "wait" /\ call'.cmd = "APP_SEND_OP_COND" /\ call'.kind \in {"SC", "HC"},
           UNCHANGED <<emmc, card, sdCard, ret, mbr, fresh, late>>
    PROVE  InitInv'
  <1>1. TypeOK'
    BY InitInvParts, TypesNext, Names DEF TimeoutIsError
  <1>2. PointInv' /\ AnswerInv'
    BY DEF PointInv, AnswerInv, On, AppCommand, TranCommand, ScrPoints
  <1>3. OcrInv'
    BY DEF OcrInv, On, TypedCommand, TranCommand, ScrPoints
  <1>4. BusInv'
    BY InitInvParts DEF BusInv, On, GoodAnswer, Succeeded, TranCommand, ScrPoints
  <1>5. BlockInv'
    BY DEF BlockInv, GoodAnswer, Succeeded
  <1> QED
    BY <1>1, <1>2, <1>3, <1>4, <1>5 DEF InitInv

(* Sending a command without arguments. *)
LEMMA PlainEffect ==
    ASSUME NEW c \in Command, Send(c, "none", 0)
    PROVE  /\ pc' = "wait" /\ call' \in Request /\ call'.cmd = c
           /\ call'.app <=> c \in AppCommand
  <1>1. 0 \in 0 .. RETRIES
    BY SdInitAssumption
  <1>2. /\ pc' = "wait" /\ call' \in Request /\ call'.cmd = c
        /\ call'.app = (c \in AppCommand)
    BY <1>1, SendEffect
  <1> QED
    BY <1>2

(* Sending ACMD41. *)
LEMMA OpCondEffect ==
    ASSUME NEW kind \in {"SC", "HC"}, NEW count \in 0 .. RETRIES, Send("APP_SEND_OP_COND", kind, count)
    PROVE  pc' = "wait" /\ call' \in Request /\ call'.cmd = "APP_SEND_OP_COND" /\ call'.kind \in {"SC", "HC"}
  BY Table DEF Send, Request, AppCommand

(* The first commands, up to the power up. *)
LEMMA DialogueKeeps ==
    ASSUME InitInv, GoneIdle \/ IfCond \/ NoIfCond \/ OpCondRetry
    PROVE  InitInv'
  <1>1. pc = "result" /\ call.cmd \in {"GO_IDLE_STATE", "SEND_IF_COND", "APP_SEND_OP_COND"}
    BY DEF GoneIdle, IfCond, NoIfCond, OpCondRetry, Powering, Got
  <1>2. ~sdCard.init /\ ~emmc.width4
    BY <1>1, InitInvParts DEF PointInv, BusInv, On, After
  <1>3. ~sdCard.ocr.complete /\ UNCHANGED <<emmc, card, sdCard, ret, mbr, fresh, late>>
    BY InitInvParts DEF GoneIdle, IfCond, NoIfCond, OpCondRetry, OcrInv, On, Got
  <1>4. RETRIES \in 0 .. RETRIES /\ 0 \in 0 .. RETRIES
    BY SdInitAssumption
  <1>5. CASE Send("SEND_IF_COND", "none", 0)
    <2>1. pc' = "wait" /\ call' \in Request /\ call'.cmd = "SEND_IF_COND" /\ ~call'.app
      BY <1>5, PlainEffect, Table DEF AppCommand
    <2> QED
      BY <1>1, <1>2, <1>3, <2>1, AskKeeps
  <1>6. CASE AppSendOpCond("SC") \/ AppSendOpCond("HC")
    <2>1. pc' = "wait" /\ call' \in Request /\ call'.cmd = "APP_SEND_OP_COND" /\ call'.kind \in {"SC", "HC"}
      BY <1>4, <1>6, OpCondEffect DEF AppSendOpCond
    <2> QED
      BY <1>1, <1>2, <1>3, <2>1, AskKeeps
  <1>7. CASE pc' = "reset" /\ call' = [call EXCEPT !.kind = "SC"] /\ NoIfCond
    <2>1. call' \in Request /\ ~call'.app
      BY <1>1, <1>7, InitInvParts DEF Request, NoIfCond, Got, PointInv, AppCommand
    <2> QED
      BY <1>1, <1>2, <1>3, <1>7, <2>1, AskKeeps
  <1>8. CASE OpCondRetry
    <2>1. call.kind \in {"SC", "HC"} /\ call.count - 1 \in 0 .. RETRIES
      BY <1>8, SdInitAssumption, InitInvParts DEF OpCondRetry, Powering, Got, PointInv, On, Request
    <2>2. Send("APP_SEND_OP_COND", call.kind, call.count - 1)
      BY <1>8 DEF OpCondRetry
    <2>3. pc' = "wait" /\ call' \in Request /\ call'.cmd = "APP_SEND_OP_COND" /\ call'.kind \in {"SC", "HC"}
      BY <2>1, <2>2, OpCondEffect
    <2> QED
      BY <1>1, <1>2, <1>3, <2>3, AskKeeps
  <1> QED
    BY <1>5, <1>6, <1>7, <1>8 DEF GoneIdle, IfCond, NoIfCond

(* The end of sdInit, in each way. *)
LEMMA FailureKeeps ==
    ASSUME InitInv, ~sdCard.init,
           \/ Start /\ pc' = "returned"
           \/ ResetFails \/ OpCondFails \/ CommandFails
           \/ ParseCSD /\ pc' = "returned"
           \/ SetClock /\ pc' = "returned"
           \/ ReadSCR /\ pc' = "returned"
           \/ ScrReady /\ pc' = "returned"
           \/ ScrRead /\ pc' = "returned"
    PROVE  InitInv'
  <1>1. \E r \in Result : Return(r)
    BY InitInvParts, Names
       DEF Start, ResetFails, OpCondFails, CommandFails, ParseCSD, SetClock, ReadSCR, ScrReady,
           ScrRead, Send, SetBlocklen, Waits
  <1>2. emmc' \in Emmc /\ TimeoutIsError' /\ UNCHANGED <<card, sdCard, mbr, fresh, late>>
    <2>1. CASE ScrReady
      BY <2>1, InitInvParts, WaitedEffect, Names DEF ScrReady
    <2>2. CASE ~ScrReady
      <3>1. UNCHANGED <<emmc, card, sdCard, mbr, fresh, late>>
        BY <2>2 DEF Start, ResetFails, OpCondFails, CommandFails, ParseCSD, SetClock, ReadSCR,
                    ScrRead, Send, SetBlocklen
      <3> QED
        BY <3>1, InitInvParts DEF TimeoutIsError
    <2> QED
      BY <2>1, <2>2
  <1> QED
    BY <1>1, <1>2, ReturnKeeps

(* sd_init finds a card. *)
LEMMA StartKeeps ==
    ASSUME InitInv, Start, pc' = "reset"
    PROVE  InitInv'
  <1>1. pc = "start" /\ UNCHANGED <<emmc, card, sdCard, call, ret, mbr, fresh, late>>
    BY DEF Start, Return
  <1>2. TypeOK'
    BY <1>1, InitInvParts, TypesNext, Names DEF TimeoutIsError
  <1> QED
    BY <1>1, <1>2, InitInvParts
       DEF InitInv, PointInv, AnswerInv, OcrInv, BusInv, BlockInv, On, GoodAnswer, Succeeded,
           ScrPoints, After

(* sdResetCard. *)
LEMMA ResetKeeps ==
    ASSUME InitInv, ResetCard
    PROVE  InitInv'
  <1>1. pc = "reset" /\ UNCHANGED <<card, ret, mbr, fresh, late>>
    BY DEF ResetCard
  <1>2. /\ pc' = "wait" /\ call' \in Request /\ call'.cmd = "GO_IDLE_STATE" /\ ~call'.app
    <2>1. "GO_IDLE_STATE" \in Command /\ call.kind \in {"none", "SC", "HC"} /\ 0 \in 0 .. RETRIES
      BY InitInvParts, SdInitAssumption, Table DEF Request
    <2>2. Send("GO_IDLE_STATE", call.kind, 0)
      BY DEF ResetCard
    <2> QED
      BY <2>1, <2>2, SendEffect DEF AppCommand
  <1>3. emmc' \in Emmc /\ emmc'.irq = {} /\ ~emmc'.width4 /\ TimeoutIsError'
    BY InitInvParts DEF ResetCard, Emmc, TimeoutIsError
  <1>4. sdCard' \in Descriptor /\ ~sdCard'.ocr.complete /\ sdCard'.init = sdCard.init
    <2>1. NoOcr \in Ocr /\ NoOcr.complete = FALSE
      BY DEF NoOcr, Ocr
    <2>2. sdCard' = [sdCard EXCEPT !.rca = 0, !.ocr = NoOcr, !.app = FALSE, !.type = "0"]
      BY DEF ResetCard
    <2> QED
      BY <2>1, <2>2, InitInvParts DEF Descriptor
  <1>5. ~sdCard.init
    BY <1>1, InitInvParts DEF PointInv, On, After
  <1>6. TypeOK'
    BY <1>1, <1>2, <1>3, <1>4, InitInvParts, TypesNext, Names
  <1>7. PointInv' /\ AnswerInv' /\ OcrInv'
    BY <1>2, <1>4, <1>5 DEF PointInv, AnswerInv, OcrInv, On, TypedCommand, TranCommand, ScrPoints
  <1>8. BusInv'
    BY <1>1, <1>2, <1>3, <1>4, <1>5, InitInvParts
       DEF BusInv, On, GoodAnswer, Succeeded, TranCommand, ScrPoints
  <1>9. BlockInv'
    BY <1>2, <1>4, <1>5 DEF BlockInv, GoodAnswer, Succeeded
  <1> QED
    BY <1>6, <1>7, <1>8, <1>9 DEF InitInv

(* The card is complete: its type is what it is. *)
LEMMA OpCondDoneKeeps ==
    ASSUME InitInv, OpCondDone
    PROVE  InitInv'
  <1>1. /\ pc = "result" /\ call.cmd = "APP_SEND_OP_COND" /\ sdCard.ocr.complete
        /\ UNCHANGED <<emmc, card, ret, mbr, fresh, late>>
    BY DEF OpCondDone, Powering, Got
  <1>2. pc' = "wait" /\ call' \in Request /\ call'.cmd = "ALL_SEND_CID" /\ ~call'.app
    BY PlainEffect, Table DEF OpCondDone, AppCommand
  <1>3. /\ sdCard' \in Descriptor /\ sdCard'.type = CardType
        /\ sdCard'.init = sdCard.init /\ sdCard'.ocr = sdCard.ocr
    BY InitInvParts DEF OpCondDone, Descriptor, CardType
  <1>4. CardType = "2_HC" <=> card.kind = "HC"
    BY <1>1, InitInvParts DEF CardType, OcrInv, PointInv, On
  <1>5. ~sdCard.init
    BY <1>1, InitInvParts DEF PointInv, On, After
  <1>6. TypeOK'
    BY <1>1, <1>2, <1>3, InitInvParts, TypesNext, Names DEF TimeoutIsError
  <1>7. PointInv' /\ AnswerInv' /\ OcrInv'
    BY <1>1, <1>2, <1>3, <1>4, <1>5 DEF PointInv, AnswerInv, OcrInv, On, TranCommand, ScrPoints
  <1>8. BusInv'
    BY <1>1, <1>2, <1>3, <1>5, InitInvParts
       DEF BusInv, On, GoodAnswer, Succeeded, TranCommand, ScrPoints, After
  <1>9. BlockInv'
    BY <1>2, <1>3, <1>5 DEF BlockInv, GoodAnswer, Succeeded
  <1> QED
    BY <1>6, <1>7, <1>8, <1>9 DEF InitInv

(* From one point to the next with the descriptor and the bus as they are. *)
LEMMA IdentifyKeeps ==
    ASSUME InitInv, \/ Identify \/ (ParseCSD /\ pc' = "clock")
                    \/ Selected \/ (ReadSCR /\ pc' = "wait") \/ ScrSent
    PROVE  InitInv'
  <1>1. UNCHANGED <<emmc, card, sdCard, mbr, fresh, late>> /\ ret' = ret
    BY DEF Identify, ParseCSD, Selected, ReadSCR, ScrSent, Return
  <1>2. call' \in Request /\ (call'.app => call'.cmd \in AppCommand)
    BY InitInvParts, PlainEffect, Table
       DEF Identify, ParseCSD, Selected, ReadSCR, ScrSent, Return, PointInv
  <1>3. \/ Succeeded("ALL_SEND_CID") /\ pc' = "wait" /\ call'.cmd = "SEND_REL_ADDR"
        \/ Succeeded("SEND_REL_ADDR") /\ pc' = "wait" /\ call'.cmd = "SEND_CSD"
        \/ Succeeded("SEND_CSD") /\ pc' = "clock"
        \/ Succeeded("CARD_SELECT") /\ pc' = "scr"
        \/ pc = "scr" /\ pc' = "wait" /\ call'.cmd = "SEND_SCR"
        \/ Succeeded("SEND_SCR") /\ pc' = "scr_rdy"
    BY PlainEffect, Table
       DEF Identify, ParseCSD, Selected, ReadSCR, ScrSent, Return, Succeeded, Got
  <1>4. ~sdCard.init
    BY <1>3, InitInvParts DEF Succeeded, PointInv, On, After
  <1>5. TypeOK'
    BY <1>1, <1>2, <1>3, InitInvParts, TypesNext, Names DEF TimeoutIsError, ScrPoints
  <1>6. PointInv' /\ AnswerInv'
    BY <1>1, <1>2, <1>3, <1>4, InitInvParts
       DEF PointInv, AnswerInv, On, Succeeded, TranCommand, ScrPoints
  <1>7. OcrInv'
    BY <1>1, <1>3, <1>4, InitInvParts DEF OcrInv, On, Succeeded, TypedCommand, TranCommand, ScrPoints
  <1>8. BusInv'
    BY <1>1, <1>3, <1>4, InitInvParts
       DEF BusInv, AnswerInv, On, GoodAnswer, Succeeded, TranCommand, ScrPoints, After
  <1>9. BlockInv'
    BY <1>1, <1>3, <1>4, InitInvParts DEF BlockInv, GoodAnswer, Succeeded
  <1> QED
    BY <1>5, <1>6, <1>7, <1>8, <1>9 DEF InitInv

(* The switch of the clock, the SCR, the width of the bus, the block size. *)
LEMMA SetClockKeeps ==
    ASSUME InitInv, SetClock, pc' = "wait"
    PROVE  InitInv'
  <1>1. /\ pc = "clock" /\ Send("CARD_SELECT", "none", 0)
        /\ emmc' = [emmc EXCEPT !.fast = TRUE]
        /\ UNCHANGED <<card, sdCard, ret, mbr, fresh, late>>
    BY DEF SetClock, Return
  <1>2. pc' = "wait" /\ call' \in Request /\ call'.cmd = "CARD_SELECT" /\ ~call'.app
    BY <1>1, PlainEffect, Table DEF AppCommand
  <1>3. /\ emmc' \in Emmc /\ emmc'.fast /\ TimeoutIsError' /\ emmc'.width4 = emmc.width4
    BY <1>1, InitInvParts DEF Emmc, TimeoutIsError
  <1>4. ~sdCard.init
    BY <1>1, InitInvParts DEF PointInv, On, After
  <1>5. TypeOK'
    BY <1>1, <1>2, <1>3, InitInvParts, TypesNext, Names
  <1>6. PointInv' /\ AnswerInv' /\ OcrInv'
    BY <1>1, <1>2, <1>4, InitInvParts
       DEF PointInv, AnswerInv, OcrInv, On, TypedCommand, TranCommand, ScrPoints
  <1>7. BusInv'
    BY <1>1, <1>2, <1>3, <1>4, InitInvParts
       DEF BusInv, On, GoodAnswer, Succeeded, TranCommand, ScrPoints, After
  <1>8. BlockInv'
    BY <1>1, <1>2, <1>4 DEF BlockInv, GoodAnswer, Succeeded
  <1> QED
    BY <1>5, <1>6, <1>7, <1>8 DEF InitInv

(* sdReadSCR waits for its data. *)
LEMMA ScrReadyKeeps ==
    ASSUME InitInv, ScrReady, pc' = "scr_fifo"
    PROVE  InitInv'
  <1>1. /\ pc = "scr_rdy" /\ UNCHANGED <<card, sdCard, call, ret, mbr, fresh, late>>
        /\ \E r \in Waits("READ_RDY") : emmc' = Waited(r, "READ_RDY")
    BY DEF ScrReady, Return
  <1>2. /\ emmc' \in Emmc /\ TimeoutIsError' /\ emmc'.busy = emmc.busy
        /\ emmc'.width4 = emmc.width4 /\ emmc'.fast = emmc.fast
    BY <1>1, InitInvParts, WaitedEffect, Names
  <1>3. ~sdCard.init
    BY <1>1, InitInvParts DEF PointInv, On, After
  <1>4. TypeOK'
    BY <1>1, <1>2, InitInvParts, TypesNext, Names DEF ScrPoints
  <1>5. PointInv' /\ AnswerInv' /\ OcrInv'
    BY <1>1, <1>3, InitInvParts DEF PointInv, AnswerInv, OcrInv, On, ScrPoints
  <1>6. BusInv'
    BY <1>1, <1>2, <1>3, InitInvParts DEF BusInv, On, GoodAnswer, Succeeded, ScrPoints, After
  <1>7. BlockInv'
    BY <1>1, <1>3 DEF BlockInv, GoodAnswer, Succeeded
  <1> QED
    BY <1>4, <1>5, <1>6, <1>7 DEF InitInv

(* sdReadSCR has read its data. *)
LEMMA ScrReadKeeps ==
    ASSUME InitInv, ScrRead, pc' = "wait"
    PROVE  InitInv'
  <1>1. /\ pc = "scr_fifo" /\ UNCHANGED <<card, ret, mbr, fresh, late>>
        /\ emmc' = [emmc EXCEPT !.dat = "drained"]
        /\ sdCard' = [sdCard EXCEPT !.wide = card.wide]
        /\ Send("SET_BUS_WIDTH", "none", 0) \/ Send("SET_BLOCKLEN", "none", 0)
    BY DEF ScrRead, Return, SetBlocklen
  <1>2. /\ call' \in Request /\ call'.cmd \in {"SET_BUS_WIDTH", "SET_BLOCKLEN"}
        /\ call'.app => call'.cmd \in AppCommand
    BY <1>1, PlainEffect, Table
  <1>3. /\ emmc' \in Emmc /\ TimeoutIsError' /\ emmc'.busy = emmc.busy
        /\ emmc'.width4 = emmc.width4 /\ emmc'.fast = emmc.fast
    BY <1>1, InitInvParts DEF Emmc, TimeoutIsError
  <1>4. /\ sdCard' \in Descriptor /\ sdCard'.rca = sdCard.rca /\ sdCard'.ocr = sdCard.ocr
        /\ sdCard'.type = sdCard.type /\ sdCard'.init = sdCard.init
    BY <1>1, InitInvParts DEF Descriptor, Card
  <1>5. ~sdCard.init /\ emmc.width4 = card.width4
    <2>1. ~sdCard.init /\ ~emmc.width4 /\ ~card.width4
      BY <1>1, InitInvParts DEF PointInv, BusInv, On, After, ScrPoints
    <2>2. emmc.width4 \in BOOLEAN /\ card.width4 \in BOOLEAN
      BY InitInvParts DEF Emmc, Card
    <2> QED
      BY <2>1, <2>2
  <1>6. TypeOK'
    BY <1>1, <1>2, <1>3, <1>4, InitInvParts, TypesNext, Names
  <1>7. PointInv' /\ AnswerInv' /\ OcrInv'
    BY <1>1, <1>2, <1>4, <1>5, InitInvParts
       DEF PointInv, AnswerInv, OcrInv, On, TypedCommand, TranCommand, ScrPoints
  <1>8. BusInv'
    BY <1>1, <1>2, <1>3, <1>4, <1>5, InitInvParts
       DEF BusInv, On, GoodAnswer, Succeeded, TranCommand, ScrPoints, After
  <1>9. BlockInv'
    BY <1>1, <1>2, <1>4, <1>5 DEF BlockInv, GoodAnswer, Succeeded
  <1> QED
    BY <1>6, <1>7, <1>8, <1>9 DEF InitInv

(* Card and controller go to four data lines. *)
LEMMA BusWidthSetKeeps ==
    ASSUME InitInv, BusWidthSet
    PROVE  InitInv'
  <1>1. /\ Succeeded("SET_BUS_WIDTH") /\ UNCHANGED <<card, sdCard, ret, mbr, fresh, late>>
        /\ emmc' = [emmc EXCEPT !.width4 = TRUE]
    BY DEF BusWidthSet, Got, Succeeded
  <1>2. pc' = "wait" /\ call' \in Request /\ call'.cmd = "SET_BLOCKLEN" /\ ~call'.app
    BY PlainEffect, Table DEF BusWidthSet, SetBlocklen, AppCommand
  <1>3. /\ emmc' \in Emmc /\ TimeoutIsError' /\ emmc'.busy = "none"
        /\ emmc'.width4 = TRUE /\ emmc'.fast = emmc.fast
    BY <1>1, InitInvParts DEF Emmc, TimeoutIsError, Succeeded, AnswerInv
  <1>4. ~sdCard.init /\ card.width4 = TRUE
    BY <1>1, InitInvParts DEF PointInv, BusInv, On, After, Succeeded, Card
  <1>5. TypeOK'
    BY <1>1, <1>2, <1>3, InitInvParts, TypesNext, Names
  <1>6. PointInv' /\ AnswerInv' /\ OcrInv'
    BY <1>1, <1>2, <1>4, InitInvParts
       DEF PointInv, AnswerInv, OcrInv, On, Succeeded, TypedCommand, TranCommand, ScrPoints
  <1>7. BusInv'
    BY <1>1, <1>2, <1>3, <1>4, InitInvParts
       DEF BusInv, On, GoodAnswer, Succeeded, TranCommand, ScrPoints, After
  <1>8. BlockInv'
    BY <1>1, <1>2, <1>4 DEF BlockInv, GoodAnswer, Succeeded
  <1> QED
    BY <1>5, <1>6, <1>7, <1>8 DEF InitInv

(* sdInit returns. *)
LEMMA BlocklenSetKeeps ==
    ASSUME InitInv, BlocklenSet
    PROVE  InitInv'
  <1>1. /\ Succeeded("SET_BLOCKLEN") /\ UNCHANGED <<emmc, card, mbr, fresh, late>>
        /\ pc' = "returned" /\ ret' \in Result /\ call' = NoCall
    BY Names DEF BlocklenSet, Got, Succeeded, Return
  <1>2. NoCall \in Request /\ ~NoCall.app
    BY SdInitAssumption, Table DEF NoCall, Request
  <1>3. /\ sdCard' \in Descriptor /\ sdCard'.type = sdCard.type /\ sdCard'.init = TRUE
        /\ sdCard'.rca = sdCard.rca
    BY InitInvParts DEF BlocklenSet, Descriptor
  <1>4. emmc.busy = "none" /\ emmc.dat = "none"
    BY <1>1, InitInvParts DEF AnswerInv, BlockInv, Succeeded
  <1>5. TypeOK'
    BY <1>1, <1>2, <1>3, InitInvParts, TypesNext, Names DEF TimeoutIsError, After
  <1>6. PointInv' /\ AnswerInv' /\ OcrInv'
    BY <1>1, <1>2, <1>3, InitInvParts
       DEF PointInv, AnswerInv, OcrInv, On, Succeeded, TypedCommand, TranCommand, ScrPoints, After
  <1>7. BusInv'
    BY <1>1, <1>3, <1>4, InitInvParts
       DEF BusInv, On, GoodAnswer, Succeeded, TranCommand, ScrPoints, After
  <1>8. BlockInv'
    BY <1>1, <1>3, <1>4 DEF BlockInv, GoodAnswer, Succeeded
  <1> QED
    BY <1>5, <1>6, <1>7, <1>8 DEF InitInv

-----------------------------------------------------------------------------
(* sd_init *)
LEMMA StartMbrKeeps ==
    ASSUME InitInv, StartMbr
    PROVE  InitInv'
  <1>1. pc = "returned" /\ UNCHANGED <<emmc, card, sdCard, ret, mbr, fresh, late>>
    BY DEF StartMbr
  <1>2. \/ /\ sdCard.init /\ pc' = "wait" /\ call' \in Request
           /\ call'.cmd = "READ_SINGLE" /\ ~call'.app
        \/ pc' = "panicked" /\ call' = call
    BY PlainEffect, Table DEF StartMbr, AppCommand
  <1>3. call' \in Request
    BY <1>2, InitInvParts
  <1>4. TypeOK'
    BY <1>1, <1>2, <1>3, InitInvParts, TypesNext, Names DEF TimeoutIsError, After
  <1>5. PointInv' /\ AnswerInv' /\ OcrInv'
    <2>1. PointInv'
      BY <1>1, <1>2, InitInvParts DEF PointInv, On, TypedCommand, TranCommand, ScrPoints, After
    <2>2. AnswerInv'
      BY <1>1, <1>2, InitInvParts DEF AnswerInv, After
    <2>3. OcrInv'
      BY <1>1, <1>2, InitInvParts DEF OcrInv, On, TypedCommand, ScrPoints
    <2> QED
      BY <2>1, <2>2, <2>3
  <1>6. BusInv'
    BY <1>1, <1>2, InitInvParts
       DEF BusInv, BlockInv, On, GoodAnswer, Succeeded, TranCommand, ScrPoints, After
  <1>7. BlockInv'
    BY <1>1, <1>2, InitInvParts DEF BlockInv, GoodAnswer, Succeeded
  <1> QED
    BY <1>4, <1>5, <1>6, <1>7 DEF InitInv

(* sd_init has asked for the first block. *)
LEMMA MbrSentKeeps ==
    ASSUME InitInv, MbrSent
    PROVE  InitInv'
  <1>1. /\ pc = "result" /\ call.cmd = "READ_SINGLE" /\ call' = NoCall
        /\ UNCHANGED <<emmc, card, sdCard, ret, mbr, fresh, late>>
        /\ (ret = "OK" /\ pc' = "mbr_rdy") \/ pc' = "panicked"
    BY DEF MbrSent, Got
  <1>2. NoCall \in Request /\ ~NoCall.app
    BY SdInitAssumption, Table DEF NoCall, Request
  <1>3. TypeOK'
    BY <1>1, <1>2, InitInvParts, TypesNext, Names DEF TimeoutIsError, After
  <1>4. PointInv' /\ AnswerInv' /\ OcrInv'
    BY <1>1, <1>2, InitInvParts DEF PointInv, AnswerInv, OcrInv, On, ScrPoints, After
  <1>5. BusInv'
    BY <1>1, InitInvParts DEF BusInv, On, GoodAnswer, Succeeded, ScrPoints, After
  <1>6. BlockInv'
    BY <1>1, InitInvParts DEF BlockInv, AnswerInv, GoodAnswer, Succeeded, Coming
  <1> QED
    BY <1>3, <1>4, <1>5, <1>6 DEF InitInv

(* sd_init waits for the block, and for its end. *)
LEMMA MbrWaitKeeps ==
    ASSUME InitInv, MbrWait
    PROVE  InitInv'
  <1>1. PICK at \in {[pc |-> "mbr_rdy", mask |-> "READ_RDY", next |-> "mbr_data"],
                     [pc |-> "mbr_done", mask |-> "DATA_DONE", next |-> "done"]} :
            /\ pc = at.pc
            /\ \E r \in Waits(at.mask) :
                  /\ emmc' = Waited(r, at.mask)
                  /\ late' = (late \/ r # "OK")
            /\ pc' = at.next
    BY DEF MbrWait
  <1>2. \/ pc = "mbr_rdy" /\ at.mask = "READ_RDY" /\ pc' = "mbr_data"
        \/ pc = "mbr_done" /\ at.mask = "DATA_DONE" /\ pc' = "done"
    BY <1>1
  <1>3. PICK r \in Waits(at.mask) : emmc' = Waited(r, at.mask) /\ late' = (late \/ r # "OK")
    BY <1>1
  <1>4. /\ emmc' \in Emmc /\ TimeoutIsError' /\ r \in Result
        /\ r = "OK" => /\ at.mask \in emmc.irq /\ "ERR" \notin emmc.irq
                       /\ emmc'.irq = emmc.irq \ {at.mask}
        /\ emmc'.busy = emmc.busy /\ emmc'.dat = emmc.dat
        /\ emmc'.width4 = emmc.width4 /\ emmc'.fast = emmc.fast
    BY <1>2, <1>3, InitInvParts, WaitedEffect, Names
  <1>5. UNCHANGED <<card, sdCard, call, ret, mbr, fresh>> /\ late' \in BOOLEAN
    BY <1>3, InitInvParts DEF MbrWait
  <1>6. TypeOK'
    BY <1>2, <1>4, <1>5, InitInvParts, TypesNext, Names DEF After
  <1>7. PointInv' /\ AnswerInv' /\ OcrInv'
    BY <1>2, <1>5, InitInvParts DEF PointInv, AnswerInv, OcrInv, On, ScrPoints, After
  <1>8. BusInv'
    BY <1>2, <1>4, <1>5, InitInvParts DEF BusInv, On, GoodAnswer, Succeeded, ScrPoints, After
  <1>9. BlockInv'
    <2>1. CASE pc = "mbr_rdy"
      <3>1. r = "OK" => emmc.dat = "ready" /\ emmc'.irq = {}
        BY <1>2, <1>4, <2>1, InitInvParts DEF BlockInv, Coming
      <3> QED
        BY <1>2, <1>3, <1>4, <1>5, <2>1, <3>1, InitInvParts DEF BlockInv, GoodAnswer, Succeeded
    <2>2. CASE pc = "mbr_done"
      <3>1. r = "OK" /\ ~late => mbr = "mbr" /\ emmc.dat = "none" /\ emmc'.irq = {}
        BY <1>2, <1>4, <2>2, InitInvParts DEF BlockInv, Leaving
      <3> QED
        BY <1>2, <1>3, <1>4, <1>5, <2>2, <3>1, InitInvParts DEF BlockInv, GoodAnswer, Succeeded
    <2> QED
      BY <1>2, <2>1, <2>2
  <1> QED
    BY <1>6, <1>7, <1>8, <1>9 DEF InitInv

(* sd_init reads the block. *)
LEMMA MbrReadKeeps ==
    ASSUME InitInv, MbrRead
    PROVE  InitInv'
  <1>1. /\ pc = "mbr_data" /\ pc' = "mbr_done" /\ UNCHANGED <<card, sdCard, call, ret, fresh, late>>
        /\ mbr' = IF emmc.dat = "ready" THEN "mbr" ELSE "garbage"
    BY DEF MbrRead
  <1>2. /\ emmc' \in Emmc /\ TimeoutIsError' /\ emmc'.busy = emmc.busy /\ emmc'.irq = emmc.irq
        /\ emmc'.width4 = emmc.width4 /\ emmc'.fast = emmc.fast
        /\ emmc.dat = "ready" => emmc'.dat = "drained"
    BY InitInvParts DEF MbrRead, Emmc, TimeoutIsError
  <1>3. TypeOK'
    BY <1>1, <1>2, InitInvParts, TypesNext, Names DEF After
  <1>4. PointInv' /\ AnswerInv' /\ OcrInv'
    BY <1>1, InitInvParts DEF PointInv, AnswerInv, OcrInv, On, ScrPoints, After
  <1>5. BusInv'
    BY <1>1, <1>2, InitInvParts DEF BusInv, On, GoodAnswer, Succeeded, ScrPoints, After
  <1>6. BlockInv'
    BY <1>1, <1>2, InitInvParts DEF BlockInv, Leaving, GoodAnswer, Succeeded
  <1> QED
    BY <1>3, <1>4, <1>5, <1>6 DEF InitInv

-----------------------------------------------------------------------------
(* sdInit, at each of its points. *)
LEMMA SdInitKeeps ==
    ASSUME InitInv, SdInit
    PROVE  InitInv'
  <1>1. pc \notin After /\ (pc \in {"wait", "sent", "result"} => call.cmd # "READ_SINGLE")
    BY DEF SdInit, Start, ResetCard, ResetFails, GoneIdle, IfCond, NoIfCond, OpCondRetry,
           OpCondFails, OpCondDone, Identify, ParseCSD, SetClock, Selected, ReadSCR, ScrSent,
           ScrReady, ScrRead, BusWidthSet, BlocklenSet, CommandFails, Powering, Got, After
  <1>2. ~sdCard.init
    BY <1>1, InitInvParts DEF PointInv, On
  <1>3. CASE Start
    BY <1>2, <1>3, StartKeeps, FailureKeeps DEF Start, Return
  <1>4. CASE ResetCard \/ ResetFails
    BY <1>2, <1>4, ResetKeeps, FailureKeeps
  <1>5. CASE GoneIdle \/ IfCond \/ NoIfCond \/ OpCondRetry \/ OpCondFails \/ OpCondDone
    BY <1>2, <1>5, DialogueKeeps, FailureKeeps, OpCondDoneKeeps
  <1>6. CASE Identify \/ ParseCSD \/ Selected \/ ReadSCR \/ ScrSent
    <2>1. ParseCSD => pc' \in {"clock", "returned"}
      BY DEF ParseCSD, Return
    <2>2. ReadSCR => pc' \in {"wait", "returned"}
      BY DEF ReadSCR, Return, Send
    <2> QED
      BY <1>2, <1>6, <2>1, <2>2, IdentifyKeeps, FailureKeeps
  <1>7. CASE SetClock
    BY <1>2, <1>7, SetClockKeeps, FailureKeeps DEF SetClock, Return, Send
  <1>8. CASE ScrReady
    BY <1>2, <1>8, ScrReadyKeeps, FailureKeeps DEF ScrReady, Return
  <1>9. CASE ScrRead
    <2>1. pc' \in {"wait", "returned"}
      BY <1>9 DEF ScrRead, Return, Send, SetBlocklen
    <2> QED
      BY <1>2, <1>9, <2>1, ScrReadKeeps, FailureKeeps
  <1>10. CASE BusWidthSet \/ BlocklenSet \/ CommandFails
    BY <1>2, <1>10, BusWidthSetKeeps, BlocklenSetKeeps, FailureKeeps
  <1> QED
    BY <1>3, <1>4, <1>5, <1>6, <1>7, <1>8, <1>9, <1>10 DEF SdInit

(* The invariant is inductive. *)
LEMMA InitInvNext == InitInv /\ [Next]_vars => InitInv'
  <1> SUFFICES ASSUME InitInv, [Next]_vars PROVE InitInv'
    OBVIOUS
  <1>1. CASE Controller
    BY <1>1, ControllerKeeps
  <1>2. CASE Driver
    BY <1>2, IssueKeeps, BusyKeeps, AnswerKeeps, SdInitKeeps, StartMbrKeeps, MbrSentKeeps,
       MbrWaitKeeps, MbrReadKeeps DEF Driver
  <1>3. CASE UNCHANGED vars
    BY <1>3 DEF vars, InitInv, TypeOK, PointInv, AnswerInv, OcrInv, BusInv, BlockInv, On, Current,
                GoodAnswer, Succeeded, Coming, Leaving
  <1> QED
    BY <1>1, <1>2, <1>3 DEF Next

(* ... and holds at the start. *)
LEMMA InitInvInit == Init => InitInv
  <1> SUFFICES ASSUME Init PROVE InitInv
    OBVIOUS
  <1>1. /\ pc = "start" /\ call = NoCall /\ ret = "OK" /\ mbr = "none" /\ fresh = FALSE /\ late = FALSE
        /\ card.width4 => card.state = "tran"
    BY DEF Init
  <1>2. NoCall \in Request /\ ~NoCall.app
    BY SdInitAssumption, Table DEF NoCall, Request
  <1>3. NoOcr \in Ocr /\ NoOcr.complete = FALSE
    BY DEF NoOcr, Ocr
  <1>4. /\ sdCard \in Descriptor /\ sdCard.init = FALSE /\ sdCard.ocr = NoOcr
    BY <1>3 DEF Init, Descriptor
  <1>5. NoAnswer \in Answers
    BY <1>3, Table DEF NoAnswer, Answers
  <1>6. emmc \in Emmc /\ emmc.irq = {} /\ emmc.width4 = FALSE
    BY <1>5 DEF Init, Emmc
  <1>7. card \in Card
    BY DEF Init, Card
  <1>8. TypeOK
    BY <1>1, <1>2, <1>4, <1>6, <1>7, Types, Names DEF TimeoutIsError
  <1>9. PointInv /\ AnswerInv /\ OcrInv /\ BusInv /\ BlockInv
    BY <1>1, <1>2, <1>3, <1>4, <1>6
       DEF PointInv, AnswerInv, OcrInv, BusInv, BlockInv, On, GoodAnswer, Succeeded, ScrPoints, After
  <1> QED
    BY <1>8, <1>9 DEF InitInv

(* The invariant holds in every reachable state of the dialogue of sd_init *)
(* and sd_cmd with the card.                                               *)
THEOREM InitInvariant == Spec => []InitInv
  BY InitInvInit, InitInvNext, PTL DEF Spec

(* For any number of retries, and whatever is lost, garbled, refused or    *)
(* late: an answer is taken for its own command, an initialised card is    *)
(* selected and addressed as what it is, over a bus of one width.          *)
THEOREM DescriptorAgrees == Spec => []DriverAgrees
  <1>1. InitInv => DriverAgrees
    BY DEF InitInv, OcrInv, BusInv, AnswerInv, DriverAgrees, AnswersMatch, AddressingAgrees, BusAgrees
  <1> QED
    BY <1>1, InitInvariant, PTL

(* ... and when the waits of sd_init have not failed, the request queue    *)
(* starts from a controller at rest, with the first block read.            *)
THEOREM StartsAtRest == Spec => []ReadyForRequests
  <1>1. InitInv => ReadyForRequests
    BY DEF InitInv, BlockInv, ReadyForRequests
  <1> QED
    BY <1>1, InitInvariant, PTL
=============================================================================
