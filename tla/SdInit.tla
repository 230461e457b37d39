------------------------------- MODULE SdInit -------------------------------
(***************************************************************************)
(* kern/sd.c below sd_start: commands, answers and their waits, and the    *)
(* dialogue in which sdInit finds out what the card is and selects it,     *)
(* until sd_init has read the first block.  One CPU runs it; what happens  *)
(* at the same time is the controller and the card, which lose, garble,    *)
(* refuse and delay.                                                       *)
(*                                                                         *)
(* A wait with a count may give up at any time.  An answer is reduced to   *)
(* what the driver looks at: good says that the R1 errors are clear, the   *)
(* R7 pattern is echoed, a voltage of R3 is in the window or the file      *)
(* format in the CSD is a known one.  The CID is only printed.             *)
(***************************************************************************)
EXTENDS Naturals

CONSTANT RETRIES  \* of ACMD41 in sdAppSendOpCond: 6 in the code

ASSUME SdInitAssumption == RETRIES \in Nat

VARIABLES
    emmc,    \* the controller: the command in progress, EMMC_INTERRUPT, RESP0,
             \* the state of the data transfer, CONTROL0's width, CONTROL1's clock
    card,    \* the card: its kind, whether it has a 4 bit bus, its state
    sdCard,  \* SDDescriptor
    pc,      \* where the driver is
    call,    \* the command asked for, whether its APP_CMD is still to come, and
             \* for ACMD41 the kind of card asked for and the retries left
    ret,     \* the result of the last call
    mbr,     \* what sd_init has read
    fresh,   \* history: the command in progress has been answered
    late     \* history: sd_init has ignored a failed wait

vars == <<emmc, card, sdCard, pc, call, ret, mbr, fresh, late>>

(* The commands that sdInit sends: code, kind of answer, RCA as argument.  *)
sdCommandTable ==
    LET Cmd(code, resp, rca) == [code |-> code, resp |-> resp, rca |-> rca]
    IN  [GO_IDLE_STATE    |-> Cmd(0, "NO", FALSE),  ALL_SEND_CID |-> Cmd(2, "R2I", FALSE),
         SEND_REL_ADDR    |-> Cmd(3, "R6", FALSE),  CARD_SELECT  |-> Cmd(7, "R1", TRUE),
         SEND_IF_COND     |-> Cmd(8, "R7", FALSE),  SEND_CSD     |-> Cmd(9, "R2S", TRUE),
         SET_BLOCKLEN     |-> Cmd(16, "R1", FALSE), READ_SINGLE  |-> Cmd(17, "R1", FALSE),
         APP_CMD          |-> Cmd(55, "NO", FALSE), APP_CMD_RCA  |-> Cmd(55, "R1", TRUE),
         SET_BUS_WIDTH    |-> Cmd(6, "R1", FALSE),  SEND_SCR     |-> Cmd(51, "R1", FALSE),
         APP_SEND_OP_COND |-> Cmd(41, "R3", FALSE)]

Command == DOMAIN sdCommandTable

(* Indexes from IX_APP_CMD_START: these need an APP_CMD before them. *)
AppCommand == {"SET_BUS_WIDTH", "APP_SEND_OP_COND", "SEND_SCR"}

Flag   == {"CMD_DONE", "CMD_TIMEOUT", "ERR", "READ_RDY", "DATA_DONE"}
Result == {"OK", "ERROR", "TIMEOUT", "BUSY", "ERROR_RESET", "ERROR_CLOCK", "ERROR_VOLTAGE",
           "ERROR_APP_CMD", "CARD_CHANGED"}
Points == {"start", "reset", "wait", "sent", "result", "clock", "scr", "scr_rdy", "scr_fifo",
           "returned", "mbr_rdy", "mbr_data", "mbr_done", "done", "panicked"}
Ocr    == [complete : BOOLEAN, ccs : BOOLEAN, voltage : BOOLEAN]

NoOcr    == [complete |-> FALSE, ccs |-> FALSE, voltage |-> FALSE]
NoCall   == [cmd |-> "GO_IDLE_STATE", app |-> FALSE, kind |-> "none", count |-> 0]
NoAnswer == [of |-> "GO_IDLE_STATE", good |-> FALSE, app |-> FALSE, ocr |-> NoOcr]

TypeOK ==
    /\ emmc \in [busy : Command \cup {"none"}, irq : SUBSET Flag,
                 resp : [of : Command, good : BOOLEAN, app : BOOLEAN, ocr : Ocr],
                 dat : {"none", "read", "ready", "drained"}, width4 : BOOLEAN,
                 fast : BOOLEAN]
    /\ "CMD_TIMEOUT" \in emmc.irq => "ERR" \in emmc.irq
    /\ card \in [kind : {"1", "SC", "HC"}, wide : BOOLEAN, app : BOOLEAN, ifcond : BOOLEAN,
                 width4 : BOOLEAN, state : {"idle", "ready", "ident", "stby", "tran"}]
    /\ sdCard \in [rca : {0, 1}, ocr : Ocr, app : BOOLEAN, format : BOOLEAN,
                   type : {"0", "1", "2_SC", "2_HC"}, wide : BOOLEAN, init : BOOLEAN]
    /\ pc \in Points /\ ret \in Result
    /\ call \in [cmd : Command, app : BOOLEAN, kind : {"none", "SC", "HC"}, count : 0 .. RETRIES]
    /\ mbr \in {"none", "mbr", "garbage"} /\ fresh \in BOOLEAN /\ late \in BOOLEAN

(* At power on the card is idle; the firmware that has loaded the kernel   *)
(* leaves it selected.                                                     *)
Init ==
    /\ emmc = [busy |-> "none", irq |-> {}, resp |-> NoAnswer, dat |-> "none",
               width4 |-> FALSE, fast |-> FALSE]
    /\ card \in [kind : {"1", "SC", "HC"}, wide : BOOLEAN, app : {FALSE}, ifcond : {FALSE},
                 width4 : BOOLEAN, state : {"idle", "tran"}]
    /\ card.width4 => card.wide /\ card.state = "tran"
    /\ sdCard = [rca |-> 0, ocr |-> NoOcr, app |-> FALSE, format |-> FALSE, type |-> "0",
                 wide |-> FALSE, init |-> FALSE]
    /\ pc = "start" /\ call = NoCall /\ ret = "OK"
    /\ mbr = "none" /\ fresh = FALSE /\ late = FALSE

-----------------------------------------------------------------------------
(* The controller and the card.                                            *)

(* Without APP_CMD before it, code 6 is SWITCH_FUNC, and the other         *)
(* application commands are illegal: the card does not answer those.       *)
Misread(c) == c \in AppCommand /\ ~card.app

Legal(c) ==
    /\ c = "SET_BUS_WIDTH" \/ ~Misread(c)
    /\ \/ c = "GO_IDLE_STATE"
       \/ c \in {"APP_CMD", "APP_CMD_RCA"}
       \/ c = "SEND_IF_COND" /\ card.state = "idle" /\ card.kind # "1"
       \/ c = "APP_SEND_OP_COND" /\ card.state = "idle"
       \/ c = "ALL_SEND_CID" /\ card.state = "ready"
       \/ c = "SEND_REL_ADDR" /\ card.state = "ident"
       \/ c \in {"SEND_CSD", "CARD_SELECT"} /\ card.state = "stby"
       \/ /\ c \in {"SEND_SCR", "SET_BUS_WIDTH", "SET_BLOCKLEN", "READ_SINGLE"}
          /\ card.state = "tran" /\ emmc.dat = "none"

(* A card for high capacity powers up only when asked for it after CMD8. *)
PowersUp == card.kind = "HC" => call.kind = "HC" /\ card.ifcond

Obeyed(c, complete) ==
    [card EXCEPT
        !.app    = c \in {"APP_CMD", "APP_CMD_RCA"},
        !.ifcond = IF c = "SEND_IF_COND" THEN TRUE ELSE @ /\ c # "GO_IDLE_STATE",
        !.width4 = IF c = "SET_BUS_WIDTH" THEN @ \/ card.app ELSE @ /\ c # "GO_IDLE_STATE",
        !.state  = CASE c = "GO_IDLE_STATE" -> "idle"
                     [] c = "APP_SEND_OP_COND" /\ complete -> "ready"
                     [] c = "ALL_SEND_CID" -> "ident"
                     [] c = "SEND_REL_ADDR" -> "stby"
                     [] c = "CARD_SELECT" -> "tran"
                     [] OTHER -> @]

(* The answer has arrived; the data of a read come after it. *)
Answered(c, good, app, complete) ==
    /\ emmc' = [emmc EXCEPT
          !.busy = "none", !.irq = @ \cup {"CMD_DONE"},
          !.dat  = IF c \in {"SEND_SCR", "READ_SINGLE"} /\ good THEN "read" ELSE @,
          !.resp = [of |-> c, good |-> good, app |-> app,
                    ocr |-> [complete |-> complete, ccs |-> card.kind = "HC" /\ complete,
                             voltage |-> good]]]
    /\ fresh' = TRUE

(* No answer has arrived: a command without one is done with that. *)
Unanswered(c, flags) ==
    /\ emmc' = [emmc EXCEPT !.busy = "none",
                   !.irq = @ \cup IF sdCommandTable[c].resp = "NO" THEN {"CMD_DONE"} ELSE flags]
    /\ fresh' = TRUE

Nothing == {"CMD_TIMEOUT", "ERR"}

(* The card obeys and answers, or its answer is lost or garbled.           *)
Obey ==
    LET c == emmc.busy IN
    /\ c # "none" /\ Legal(c)
    /\ \E complete \in IF c = "APP_SEND_OP_COND" /\ PowersUp THEN BOOLEAN ELSE {FALSE} :
          /\ card' = Obeyed(c, complete)
          /\ \/ /\ sdCommandTable[c].resp # "NO"
                /\ \E good \in {g \in BOOLEAN : g \/ sdCommandTable[c].resp \in {"R3", "R2S"}} :
                      Answered(c, good, card.app \/ c = "APP_CMD_RCA", complete)
             \/ Unanswered(c, Nothing)
             \/ Unanswered(c, {"ERR"})
    /\ UNCHANGED <<sdCard, pc, call, ret, mbr, late>>

(* The card refuses: errors in its status, another pattern, no ST_APP_CMD. *)
Refuse ==
    LET c == emmc.busy IN
    /\ c # "none" /\ sdCommandTable[c].resp \in {"R1", "R6", "R7"} /\ Legal(c)
    /\ \/ Answered(c, FALSE, FALSE, FALSE)
       \/ c = "APP_CMD_RCA" /\ Answered(c, TRUE, FALSE, FALSE)
    /\ card' = [card EXCEPT !.app = FALSE]
    /\ UNCHANGED <<sdCard, pc, call, ret, mbr, late>>

(* The command is illegal, or does not reach the card. *)
Ignore ==
    /\ emmc.busy # "none"
    /\ Unanswered(emmc.busy, Nothing)
    /\ UNCHANGED <<card, sdCard, pc, call, ret, mbr, late>>

(* The data are there, or in error, or the host has taken them.            *)
DataReady ==
    /\ emmc.dat = "read"
    /\ emmc' = [emmc EXCEPT !.dat = "ready", !.irq = @ \cup {"READ_RDY"}]
    /\ UNCHANGED <<card, sdCard, pc, call, ret, mbr, fresh, late>>

DataError ==
    /\ emmc.dat \in {"read", "drained"}
    /\ emmc' = [emmc EXCEPT !.dat = "none", !.irq = @ \cup {"ERR"}]
    /\ UNCHANGED <<card, sdCard, pc, call, ret, mbr, fresh, late>>

DataDone ==
    /\ emmc.dat = "drained"
    /\ emmc' = [emmc EXCEPT !.dat = "none", !.irq = @ \cup {"DATA_DONE"}]
    /\ UNCHANGED <<card, sdCard, pc, call, ret, mbr, fresh, late>>

Controller == Obey \/ Refuse \/ Ignore \/ DataReady \/ DataError \/ DataDone

-----------------------------------------------------------------------------
(* Commands *)

(* sdSendCommand and sdSendCommandA: c is sent, after an APP_CMD if needed. *)
Send(c, kind, count) ==
    /\ pc' = "wait"
    /\ call' = [cmd |-> c, app |-> c \in AppCommand, kind |-> kind, count |-> count]

(* sdSendAppCommand takes the APP_CMD without RCA until the card has one.  *)
Current ==
    IF ~call.app THEN call.cmd ELSE IF sdCard.rca = 0 THEN "APP_CMD" ELSE "APP_CMD_RCA"

(* The result of the callers is r. *)
Finished(r) == pc' = "result" /\ ret' = r /\ UNCHANGED call

(* Sent, without a look at ST_APP_CMD. *)
SentUnchecked(r, st) ==
    IF call.app /\ (r = "OK" \/ sdCard.rca = 0)
    THEN pc' = "wait" /\ call' = [call EXCEPT !.app = FALSE] /\ UNCHANGED ret
    ELSE Finished(r)

(* What the callers of sdSendCommandP make of its result, when the status  *)
(* of the card has st.app: of an APP_CMD without RCA they ignore it.       *)
Sent(r, st) ==
    IF call.app
    THEN IF r # "OK" /\ sdCard.rca # 0 THEN Finished(r)
         ELSE IF sdCard.rca # 0 /\ ~st.app THEN Finished("ERROR")
         ELSE pc' = "wait" /\ call' = [call EXCEPT !.app = FALSE] /\ UNCHANGED ret
    ELSE IF r = "OK" /\ call.cmd \in AppCommand /\ sdCard.rca # 0 /\ ~st.app
         THEN Finished("ERROR_APP_CMD")
         ELSE Finished(r)

(* sdWaitForCommand has seen no command in progress and no error: the      *)
(* flags are cleared and the command is written.                           *)
Issue ==
    /\ pc = "wait" /\ emmc.busy = "none" /\ "ERR" \notin emmc.irq
    /\ emmc' = [emmc EXCEPT !.irq = {}, !.busy = Current]
    /\ fresh' = FALSE
    /\ pc' = "sent"
    /\ UNCHANGED <<card, sdCard, call, ret, mbr, late>>

(* It gives up: there is still a command, or there is an error, which it   *)
(* leaves in EMMC_INTERRUPT.                                               *)
Busy ==
    /\ pc = "wait" /\ (emmc.busy # "none" \/ "ERR" \in emmc.irq)
    /\ Sent("BUSY", sdCard)
    /\ UNCHANGED <<emmc, card, sdCard, mbr, fresh, late>>

(* sdWaitForInterrupt: its results, and the flags it leaves.  The count    *)
(* may run out just when the flag is set.                                  *)
Waits(mask) ==
    {"TIMEOUT"} \cup IF "CMD_TIMEOUT" \in emmc.irq THEN {}
                     ELSE IF "ERR" \in emmc.irq THEN {"ERROR"}
                     ELSE IF mask \in emmc.irq THEN {"OK"} ELSE {}

(* Waited, always clearing the flag of the command. *)
WaitedCommand(r, mask) == [emmc EXCEPT !.irq = IF r = "OK" THEN @ \ {"CMD_DONE"} ELSE {}]

Waited(r, mask) == [emmc EXCEPT !.irq = IF r = "OK" THEN @ \ {mask} ELSE {}]

(* sdSendCommandP, from RESP0: the descriptor and the result.              *)
Stored(c) ==
    LET resp == emmc.resp IN
    CASE sdCommandTable[c].resp = "R1"  -> [sdCard EXCEPT !.app = resp.app]
      [] sdCommandTable[c].resp = "R2I" -> [sdCard EXCEPT !.app = FALSE]
      [] sdCommandTable[c].resp = "R2S" -> [sdCard EXCEPT !.app = FALSE, !.format = resp.good]
      [] sdCommandTable[c].resp = "R3"  -> [sdCard EXCEPT !.app = FALSE, !.ocr = resp.ocr]
      [] sdCommandTable[c].resp = "R6"  -> [sdCard EXCEPT !.app = resp.app, !.rca = 1]
      [] sdCommandTable[c].resp = "R7"  -> [sdCard EXCEPT !.app = FALSE]
      [] OTHER -> sdCard

Outcome(c) ==
    IF sdCommandTable[c].resp \in {"R1", "R6", "R7"} /\ ~emmc.resp.good THEN "ERROR" ELSE "OK"

Answer ==
    /\ pc = "sent"
    /\ \E r \in Waits("CMD_DONE") :
          /\ emmc' = Waited(r, "CMD_DONE")
          /\ IF r = "OK"
             THEN sdCard' = Stored(Current) /\ Sent(Outcome(Current), Stored(Current))
             ELSE UNCHANGED sdCard /\ Sent(r, sdCard)
    /\ UNCHANGED <<card, mbr, fresh, late>>

-----------------------------------------------------------------------------
(* sdInit *)

Return(r) == pc' = "returned" /\ ret' = r /\ call' = NoCall

(* The base clock comes from the mailbox. *)
Start ==
    /\ pc = "start"
    /\ \/ pc' = "reset" /\ UNCHANGED <<call, ret>>
       \/ Return("ERROR")
    /\ UNCHANGED <<emmc, card, sdCard, mbr, fresh, late>>

(* sdResetCard: controller, clock, descriptor, GO_IDLE_STATE. *)
ResetCard ==
    /\ pc = "reset"
    /\ emmc' = [emmc EXCEPT !.busy = "none", !.irq = {}, !.dat = "none",
                            !.width4 = FALSE, !.fast = FALSE]
    /\ sdCard' = [sdCard EXCEPT !.rca = 0, !.ocr = NoOcr, !.app = FALSE, !.type = "0"]
    /\ Send("GO_IDLE_STATE", call.kind, 0)
    /\ UNCHANGED <<card, ret, mbr, fresh, late>>

ResetFails ==
    /\ pc = "reset"
    /\ Return("ERROR_RESET") \/ Return("ERROR_CLOCK")
    /\ UNCHANGED <<emmc, card, sdCard, mbr, fresh, late>>

Got(c) == pc = "result" /\ call.cmd = c

(* sdAppSendOpCond, called for a kind of card. *)
AppSendOpCond(kind) == Send("APP_SEND_OP_COND", kind, RETRIES)

(* The card is idle: ask for the voltage, or, if it has not answered that  *)
(* before, treat it as an old card.                                        *)
GoneIdle ==
    /\ Got("GO_IDLE_STATE") /\ ret = "OK"
    /\ IF call.kind = "SC" THEN AppSendOpCond("SC") ELSE Send("SEND_IF_COND", "none", 0)
    /\ UNCHANGED <<emmc, card, sdCard, ret, mbr, fresh, late>>

IfCond ==
    /\ Got("SEND_IF_COND") /\ ret = "OK"
    /\ AppSendOpCond("HC")
    /\ UNCHANGED <<emmc, card, sdCard, ret, mbr, fresh, late>>

(* An old card; it is reset first when there still is a command. *)
NoIfCond ==
    /\ Got("SEND_IF_COND") /\ ret \notin {"OK", "BUSY"}
    /\ IF emmc.busy # "none"
       THEN pc' = "reset" /\ call' = [call EXCEPT !.kind = "SC"]
       ELSE AppSendOpCond("SC")
    /\ UNCHANGED <<emmc, card, sdCard, ret, mbr, fresh, late>>

(* sdAppSendOpCond goes on after a timeout: until the card is complete it  *)
(* tries again, a number of times.                                         *)
Powering == Got("APP_SEND_OP_COND") /\ ret \in {"OK", "TIMEOUT"}

(* OpCondRetry, after a timeout without counting it. *)
OpCondRetryUncounted ==
    /\ Powering /\ ~sdCard.ocr.complete /\ call.count > 0
    /\ Send("APP_SEND_OP_COND", call.kind,
             IF ret = "TIMEOUT" THEN call.count ELSE call.count - 1)
    /\ UNCHANGED <<emmc, card, sdCard, ret, mbr, fresh, late>>

OpCondRetry ==
    /\ Powering /\ ~sdCard.ocr.complete /\ call.count > 0
    /\ Send("APP_SEND_OP_COND", call.kind, call.count - 1)
    /\ UNCHANGED <<emmc, card, sdCard, ret, mbr, fresh, late>>

OpCondFails ==
    /\ Powering
    /\ \/ ~sdCard.ocr.complete /\ call.count = 0 /\ Return("TIMEOUT")
       \/ sdCard.ocr.complete /\ ~sdCard.ocr.voltage /\ Return("ERROR_VOLTAGE")
    /\ UNCHANGED <<emmc, card, sdCard, mbr, fresh, late>>

CardType ==
    IF call.kind = "SC" THEN "1" ELSE IF sdCard.ocr.ccs THEN "2_HC" ELSE "2_SC"

OpCondDone ==
    /\ Powering /\ sdCard.ocr.complete /\ sdCard.ocr.voltage
    /\ sdCard' = [sdCard EXCEPT !.type = CardType]
    /\ Send("ALL_SEND_CID", "none", 0)
    /\ UNCHANGED <<emmc, card, ret, mbr, fresh, late>>

Identify ==
    /\ ret = "OK"
    /\ \/ Got("ALL_SEND_CID") /\ Send("SEND_REL_ADDR", "none", 0)
       \/ Got("SEND_REL_ADDR") /\ Send("SEND_CSD", "none", 0)
    /\ UNCHANGED <<emmc, card, sdCard, ret, mbr, fresh, late>>

(* sdParseCSD, and the test of the file format. *)
ParseCSD ==
    /\ Got("SEND_CSD") /\ ret = "OK"
    /\ IF sdCard.format THEN pc' = "clock" /\ UNCHANGED <<call, ret>> ELSE Return("ERROR")
    /\ UNCHANGED <<emmc, card, sdCard, mbr, fresh, late>>

(* sdSetClock, to 25 MHz. *)
SetClock ==
    /\ pc = "clock"
    /\ \/ /\ emmc.busy = "none" /\ emmc.dat = "none"
          /\ emmc' = [emmc EXCEPT !.fast = TRUE]
          /\ Send("CARD_SELECT", "none", 0)
          /\ UNCHANGED ret
       \/ Return("ERROR_CLOCK") /\ UNCHANGED emmc
    /\ UNCHANGED <<card, sdCard, mbr, fresh, late>>

Selected ==
    /\ Got("CARD_SELECT") /\ ret = "OK"
    /\ pc' = "scr"
    /\ UNCHANGED <<emmc, card, sdCard, call, ret, mbr, fresh, late>>

(* sdReadSCR: no data in progress, the command, the wait, two words. *)
ReadSCR ==
    /\ pc = "scr"
    /\ IF emmc.dat = "none" /\ "ERR" \notin emmc.irq
       THEN Send("SEND_SCR", "none", 0) /\ UNCHANGED ret
       ELSE Return("TIMEOUT")
    /\ UNCHANGED <<emmc, card, sdCard, mbr, fresh, late>>

ScrSent ==
    /\ Got("SEND_SCR") /\ ret = "OK"
    /\ pc' = "scr_rdy"
    /\ UNCHANGED <<emmc, card, sdCard, call, ret, mbr, fresh, late>>

ScrReady ==
    /\ pc = "scr_rdy"
    /\ \E r \in Waits("READ_RDY") :
          /\ emmc' = Waited(r, "READ_RDY")
          /\ IF r = "OK" THEN pc' = "scr_fifo" /\ UNCHANGED <<call, ret>> ELSE Return(r)
    /\ UNCHANGED <<card, sdCard, mbr, fresh, late>>

SetBlocklen == Send("SET_BLOCKLEN", "none", 0)

ScrRead ==
    /\ pc = "scr_fifo"
    /\ IF emmc.dat = "ready"
       THEN /\ emmc' = [emmc EXCEPT !.dat = "drained"]
            /\ sdCard' = [sdCard EXCEPT !.wide = card.wide]
            /\ IF card.wide THEN Send("SET_BUS_WIDTH", "none", 0) ELSE SetBlocklen
            /\ UNCHANGED ret
       ELSE Return("TIMEOUT") /\ UNCHANGED <<emmc, sdCard>>
    /\ UNCHANGED <<card, mbr, fresh, late>>

BusWidthSet ==
    /\ Got("SET_BUS_WIDTH") /\ ret = "OK"
    /\ emmc' = [emmc EXCEPT !.width4 = TRUE]
    /\ SetBlocklen
    /\ UNCHANGED <<card, sdCard, ret, mbr, fresh, late>>

(* The card differs from the one before, of which there was none. *)
BlocklenSet ==
    /\ Got("SET_BLOCKLEN") /\ ret = "OK"
    /\ sdCard' = [sdCard EXCEPT !.init = TRUE]
    /\ Return("CARD_CHANGED")
    /\ UNCHANGED <<emmc, card, mbr, fresh, late>>

(* Any other result of a command ends sdInit with it. *)
CommandFails ==
    /\ pc = "result" /\ ret # "OK"
    /\ \/ call.cmd \notin {"SEND_IF_COND", "APP_SEND_OP_COND", "READ_SINGLE"}
       \/ Got("SEND_IF_COND") /\ ret = "BUSY"
       \/ Got("APP_SEND_OP_COND") /\ ret # "TIMEOUT"
    /\ Return(ret)
    /\ UNCHANGED <<emmc, card, sdCard, mbr, fresh, late>>

SdInit ==
    \/ Start \/ ResetCard \/ ResetFails \/ GoneIdle \/ IfCond \/ NoIfCond
    \/ OpCondRetry \/ OpCondFails \/ OpCondDone \/ Identify \/ ParseCSD \/ SetClock
    \/ Selected \/ ReadSCR \/ ScrSent \/ ScrReady \/ ScrRead \/ BusWidthSet
    \/ BlocklenSet \/ CommandFails

-----------------------------------------------------------------------------
(* sd_init *)

(* assert(sdCard.init), and sd_start asserts that no interrupt is pending. *)
StartMbr ==
    /\ pc = "returned"
    /\ IF sdCard.init /\ emmc.irq = {}
       THEN Send("READ_SINGLE", "none", 0)
       ELSE pc' = "panicked" /\ UNCHANGED call
    /\ UNCHANGED <<emmc, card, sdCard, ret, mbr, fresh, late>>

MbrSent ==
    /\ Got("READ_SINGLE")
    /\ pc' = IF ret = "OK" THEN "mbr_rdy" ELSE "panicked"
    /\ call' = NoCall
    /\ UNCHANGED <<emmc, card, sdCard, ret, mbr, fresh, late>>

(* sdWaitForInterrupt, of which sd_init ignores the result. *)
MbrWait ==
    /\ \E at \in {[pc |-> "mbr_rdy", mask |-> "READ_RDY", next |-> "mbr_data"],
                  [pc |-> "mbr_done", mask |-> "DATA_DONE", next |-> "done"]} :
          /\ pc = at.pc
          /\ \E r \in Waits(at.mask) :
                /\ emmc' = Waited(r, at.mask)
                /\ late' = (late \/ r # "OK")
          /\ pc' = at.next
    /\ UNCHANGED <<card, sdCard, call, ret, mbr, fresh>>

(* 128 words, whatever the FIFO holds. *)
MbrRead ==
    /\ pc = "mbr_data"
    /\ mbr' = IF emmc.dat = "ready" THEN "mbr" ELSE "garbage"
    /\ emmc' = [emmc EXCEPT !.dat = IF @ = "ready" THEN "drained" ELSE @]
    /\ pc' = "mbr_done"
    /\ UNCHANGED <<card, sdCard, call, ret, fresh, late>>

Driver == Issue \/ Busy \/ Answer \/ SdInit \/ StartMbr \/ MbrSent \/ MbrWait \/ MbrRead

Next == Controller \/ Driver

Spec == Init /\ [][Next]_vars

(* The driver runs alone on its CPU.  Nothing is expected of the card. *)
FairSpec == Spec /\ WF_vars(Driver)

-----------------------------------------------------------------------------
(* An answer is taken for the command it is the answer to: the answer that *)
(* comes after its command has timed out is not credited to the next.      *)
AnswersMatch == pc = "sent" /\ "CMD_DONE" \in emmc.irq => fresh

(* Whatever is lost, refused or late on the way, the blocks of a card that *)
(* takes block numbers are addressed by number, and only those: sd_start   *)
(* shifts by the type.                                                     *)
AddressingAgrees == sdCard.init => (sdCard.type = "2_HC" <=> card.kind = "HC")

(* An initialised card is selected, at full clock, and both ends of the    *)
(* bus have the same width: no half of the switch to 4 bits is lost.       *)
BusAgrees ==
    sdCard.init => card.state = "tran" /\ emmc.fast /\ emmc.width4 = card.width4

(* What the driver takes the card for is what the card is.                 *)
DriverAgrees == TypeOK /\ AnswersMatch /\ AddressingAgrees /\ BusAgrees

(* When the waits of sd_init have not failed, the first block is read and  *)
(* no interrupt is left that the first request would trip over: what the   *)
(* request queue starts from.                                              *)
ReadyForRequests ==
    pc = "done" /\ ~late =>
        mbr = "mbr" /\ emmc.irq = {} /\ emmc.busy = "none" /\ emmc.dat = "none"

(* sd_init comes to an end, with a panic or without, even if the card      *)
(* never answers: no retry goes on for ever.                               *)
InitEnds == <>(pc \in {"done", "panicked"})
=============================================================================
