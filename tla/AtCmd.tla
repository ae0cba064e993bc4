------------------------------- MODULE AtCmd -------------------------------
(***************************************************************************)
(* The AT command layer of LTEmC (ltemc-atcmd.c): the single command       *)
(* control block g_lqLTEM.atcmd with its lock, the invocation of commands, *)
(* the polling loop that waits for a result, and the automatic data mode.  *)
(*                                                                         *)
(* Callers are Tasks (one Arduino loop(), or the threads of an RTOS).      *)
(* They share one processor: "cpu" is the running task, and it changes     *)
(* hands where the code yields (pYield, pDelay) or, when Preemptive, at    *)
(* every step.  Each call the application makes is a request with a number *)
(* (a history value the code does not keep) so that the properties can say *)
(* whose answer was given to whom.                                         *)
(***************************************************************************)
EXTENDS Naturals, Sequences, FiniteSets

CONSTANTS
    Tasks,       \* callers of the LTEmC API
    Ops,         \* the API functions they call, a subset of AllOps
    Preemptive,  \* TRUE: tasks may be switched between any two steps
    Cancels,     \* TRUE: the application uses cancellationRequest
    MaxCmds      \* bound on the number of requests of a behaviour

(* API functions, one representative for each way the library uses atcmd. *)
AutoOps      == {"file_close", "sckt_open", "mqtt_publish", "sckt_send"}
ManualOps    == {"file_getFSInfo", "ntwk_awaitProvider"}
AllOps       == AutoOps \cup ManualOps

DataOps      == {"mqtt_publish", "sckt_send"}   \* configure data mode before invoking
SkipOps      == {"sckt_send"}                   \* skipParser after data mode
UncheckedOps == {"sckt_open"}                   \* ignore what atcmd_tryInvoke returns
AnyOps       == AllOps                                            \* mutant
ClosingOps   == {"sckt_send", "ntwk_awaitProvider"} \* atcmd_close() even with no lock

(* Operations that take the lock with atcmd_tryInvoke, check it did, and   *)
(* leave its release to the result.                                        *)
PlainOps     == AutoOps \ (UncheckedOps \cup ClosingOps \cup {"mqtt_publish"})

ASSUME AtCmdAssumption ==
    /\ Ops \subseteq AllOps
    /\ Preemptive \in BOOLEAN
    /\ Cancels \in BOOLEAN
    /\ MaxCmds \in Nat

VARIABLES
    isOpenLocked, autoLock, resultCode, respParser, elapsed,  \* atcmd_t
    dataMode, rawResponse,
    cancellationRequest,        \* ltemDevice_t
    rxBffr, tx,                 \* iop_t: received lines; the transmission in progress
    modem,                      \* transmissions the module has not finished with
    cpu, pc, op, step, rslt,    \* callers: the running task and its locals
    cmds, cmd, owner, from, abandoned, last     \* history, read by the properties only

atcmdVars == <<isOpenLocked, autoLock, resultCode, respParser, elapsed, dataMode, rawResponse>>
callVars  == <<pc, op, step, rslt>>
histVars  == <<cmds, cmd, owner, from, abandoned, last>>
vars == <<atcmdVars, cancellationRequest, rxBffr, tx, modem, cpu, callVars, histVars>>

-----------------------------------------------------------------------------
(* Requests are numbered from 1; 0 is "none".  A line received from the    *)
(* module is the final OK or SEND OK, an ERROR, the line that follows OK   *)
(* when the command completes later, or the data prompt.                   *)

Cmds    == 1..MaxCmds
Cmds0   == 0..MaxCmds
ResultCodes == {"none", "success", "cmError", "internalError", "timeout", "cancelled"}
Codes   == ResultCodes \cup {"conflict", "undefined", "unknown"}
Parsers == {"OK", "SEND_OK", "QIOPEN", "QMTPUB"}   \* each named for what ends the response
Lines   == [kind : Parsers \cup {"ERROR", "PROMPT"}, cmd : Cmds]
Orders  == {"plain", "open", "send", "publish"}
Stages  == {"opening", "sendInput", "publishInput", "publishing"}
Sends   == [kind : Orders \cup Stages \cup {"payload", "cut", "cutPayload"}, cmd : Cmds]
NoTx    == [kind |-> "none", cmd |-> 0]
NoData  == [cmd |-> 0, skip |-> FALSE]
PCs     == {"idle", "try", "lock", "lockYield", "take", "send", "reuse",
            "read", "dataWait", "readYield", "return", "pollDelay", "halt"}

(* What the module will do with the command of operation o, and the parser *)
(* that the operation waits with.                                          *)
Order(o) == CASE o = "sckt_open"    -> "open"
              [] o = "sckt_send"    -> "send"
              [] o = "mqtt_publish" -> "publish"
              [] OTHER              -> "plain"
Parser(o) == CASE o = "sckt_open"    -> "QIOPEN"
               [] o = "sckt_send"    -> "SEND_OK"
               [] o = "mqtt_publish" -> "QMTPUB"
               [] OTHER              -> "OK"

(* pYield() or pDelay() was called, or the task is outside the library. *)
YieldPoints == {"idle", "lockYield", "readYield", "dataWait", "pollDelay"}

Goto(t, l) == pc' = [pc EXCEPT ![t] = l]

(* The call of t returns code c to the application. *)
Finish(t, c, f) ==
    /\ Goto(t, "idle")
    /\ last' = [last EXCEPT ![t] = [code |-> c, cmd |-> cmd[t], from |-> f]]

-----------------------------------------------------------------------------
Init ==
    /\ isOpenLocked = FALSE
    /\ autoLock = FALSE
    /\ resultCode = "none"
    /\ respParser = "OK"
    /\ elapsed = TRUE
    /\ dataMode = NoData
    /\ rawResponse = {}
    /\ cancellationRequest = FALSE
    /\ rxBffr = <<>>
    /\ tx = NoTx
    /\ modem = <<>>
    /\ cpu \in Tasks
    /\ pc = [t \in Tasks |-> "idle"]
    /\ op = [t \in Tasks |-> "file_close"]
    /\ step = [t \in Tasks |-> 1]
    /\ rslt = [t \in Tasks |-> "none"]
    /\ cmds = 0
    /\ cmd = [t \in Tasks |-> 0]
    /\ owner = cpu
    /\ from = 0
    /\ abandoned = {}
    /\ last = [t \in Tasks |-> [code |-> "none", cmd |-> 0, from |-> 0]]

-----------------------------------------------------------------------------
(* Mutant: the text received for the last command is not cleared. *)
ResetKeepsText(releaseLock) ==
    /\ isOpenLocked' = (isOpenLocked /\ ~releaseLock)
    /\ resultCode' = "none"
    /\ from' = 0
    /\ respParser' = "OK"
    /\ UNCHANGED rawResponse

(* atcmd_reset(): dataMode and the received text are left as they are.     *)
(* invokedAt becomes 0, so that any timeout counts as elapsed.             *)
Reset(releaseLock) ==
    /\ isOpenLocked' = (isOpenLocked /\ ~releaseLock)
    /\ rawResponse' = {}
    /\ resultCode' = "none"
    /\ from' = 0
    /\ respParser' = "OK"

(* atcmd_reset() also clears txPending: a text that is still going out is  *)
(* cut short, unless the UART has the rest of it already.                  *)
CutShort(x) == [x EXCEPT !.kind = IF @ \in {"payload", "cutPayload"} THEN "cutPayload" ELSE "cut"]
Truncated   == IF tx = NoTx THEN {NoTx} ELSE {tx, CutShort(tx)}

(* IOP_startTx(): the text is dropped, and nothing reports it, unless the  *)
(* UART is idle.                                                           *)
StartTx(x) == tx' = IF tx = NoTx THEN x ELSE tx

(* A new request of t: the number under which the module's answers to it   *)
(* are known to the properties.                                            *)
NewRequest(t) ==
    /\ cmds < MaxCmds
    /\ cmds' = cmds + 1
    /\ cmd' = [cmd EXCEPT ![t] = cmds + 1]

(* atcmd_configDataMode().  Mutant: settings already there stay. *)
ConfigDataModeOnce(o) ==
    dataMode' = IF o \in DataOps /\ dataMode = NoData
                THEN [cmd |-> cmds + 1, skip |-> o \in SkipOps] ELSE dataMode
ConfigDataMode(o) ==
    dataMode' = IF o \in DataOps THEN [cmd |-> cmds + 1, skip |-> o \in SkipOps] ELSE dataMode

(* The application calls operation o.  mqtt_publish() and sckt_send() set  *)
(* the data mode up before they ask for the lock.                          *)
Call(t, o) ==
    /\ cpu = t /\ pc[t] = "idle"
    /\ o = "file_getFSInfo" => cmds + 2 <= MaxCmds     \* room for both of its commands
    /\ NewRequest(t)
    /\ op' = [op EXCEPT ![t] = o]
    /\ step' = [step EXCEPT ![t] = 1]
    /\ ConfigDataMode(o)
    /\ Goto(t, IF o \in ManualOps THEN "lock" ELSE "try")
    /\ UNCHANGED <<isOpenLocked, autoLock, resultCode, respParser, elapsed, rawResponse,
                   cancellationRequest, rxBffr, tx, modem, cpu, rslt, owner, from, abandoned, last>>

(* What operation op[t] does when it could not have the lock: it waits all *)
(* the same, or gives the request up.                                      *)
NotInvoked(t) ==
    \/ /\ op[t] \in UncheckedOps
       /\ Goto(t, "read")
       /\ respParser' = Parser(op[t])
       /\ UNCHANGED <<isOpenLocked, abandoned, last>>
    \/ /\ op[t] \notin UncheckedOps
       /\ isOpenLocked' = (isOpenLocked /\ op[t] \notin ClosingOps)
       /\ Finish(t, CASE op[t] = "sckt_send"          -> "undefined"  \* rslt never assigned
                      [] op[t] = "ntwk_awaitProvider" -> "none"       \* returns providerInfo
                      [] OTHER                        -> "conflict", 0)
       /\ abandoned' = abandoned \cup {cmd[t]}
       /\ UNCHANGED respParser

(* The test of the lock.  Mutant: it is never found taken. *)
LockIgnored == TRUE
LockIsFree  == ~isOpenLocked

(* atcmd_tryInvoke() finds a command open and gives up at once.            *)
TryInvokeLocked(t) ==
    /\ cpu = t /\ pc[t] = "try"
    /\ ~LockIsFree
    /\ NotInvoked(t)
    /\ UNCHANGED <<autoLock, resultCode, elapsed, dataMode, rawResponse, cancellationRequest,
                   rxBffr, tx, modem, cpu, op, step, rslt, cmds, cmd, owner, from>>

(* atcmd_tryInvoke() finds none: clear the control block, format the text. *)
TryInvoke(t) ==
    /\ cpu = t /\ pc[t] = "try"
    /\ LockIsFree
    /\ Reset(TRUE)
    /\ elapsed' = TRUE
    /\ autoLock' = TRUE
    /\ tx' \in Truncated
    /\ Goto(t, "lock")
    /\ UNCHANGED <<dataMode, cancellationRequest, rxBffr, modem, cpu, op, step, rslt,
                   cmds, cmd, owner, abandoned, last>>

(* ATCMD_awaitLock(): test, take, or yield and try again until timeout.    *)
TestLock(t) ==
    /\ cpu = t /\ pc[t] = "lock"
    /\ Goto(t, IF LockIsFree THEN "take" ELSE "lockYield")
    /\ UNCHANGED <<atcmdVars, cancellationRequest, rxBffr, tx, modem, cpu, op, step, rslt, histVars>>

TakeLock(t) ==
    /\ cpu = t /\ pc[t] = "take"
    /\ isOpenLocked' = TRUE
    /\ owner' = t
    /\ Goto(t, IF op[t] \in ManualOps THEN "reuse" ELSE "send")
    /\ UNCHANGED <<autoLock, resultCode, respParser, elapsed, dataMode, rawResponse,
                   cancellationRequest, rxBffr, tx, modem, cpu, op, step, rslt,
                   cmds, cmd, from, abandoned, last>>

RetryLock(t) ==
    /\ cpu = t /\ pc[t] = "lockYield"
    /\ Goto(t, "lock")
    /\ UNCHANGED <<atcmdVars, cancellationRequest, rxBffr, tx, modem, cpu, op, step, rslt, histVars>>

LockTimeout(t) ==
    /\ cpu = t /\ pc[t] = "lockYield"
    /\ NotInvoked(t)
    /\ UNCHANGED <<autoLock, resultCode, elapsed, dataMode, rawResponse, cancellationRequest,
                   rxBffr, tx, modem, cpu, op, step, rslt, cmds, cmd, owner, from>>

(* atcmd_tryInvoke() with the lock sends the command; the caller goes on   *)
(* to wait, with its own parser if it has one.                             *)
Send(t) ==
    /\ cpu = t /\ pc[t] = "send"
    /\ elapsed' = FALSE
    /\ StartTx([kind |-> Order(op[t]), cmd |-> cmd[t]])
    /\ respParser' = Parser(op[t])
    /\ Goto(t, "read")
    /\ UNCHANGED <<isOpenLocked, autoLock, resultCode, dataMode, rawResponse, cancellationRequest,
                   rxBffr, modem, cpu, op, step, rslt, histVars>>

(* atcmd_invokeReuseLock() inside a sequence of commands.                  *)
InvokeReuseLock(t) ==
    /\ cpu = t /\ pc[t] = "reuse"
    /\ isOpenLocked
    /\ Reset(FALSE)
    /\ autoLock' = FALSE
    /\ elapsed' = FALSE
    /\ tx' \in IF tx = NoTx THEN {[kind |-> Order(op[t]), cmd |-> cmd[t]]} ELSE Truncated
    /\ Goto(t, "read")
    /\ UNCHANGED <<dataMode, cancellationRequest, rxBffr, modem, cpu, op, step, rslt,
                   cmds, cmd, owner, abandoned, last>>

(* ASSERT(isOpenLocked) fails: the application stops or restarts.          *)
ReuseLockAssert(t) ==
    /\ cpu = t /\ pc[t] = "reuse"
    /\ ~isOpenLocked
    /\ Goto(t, "halt")
    /\ UNCHANGED <<atcmdVars, cancellationRequest, rxBffr, tx, modem, cpu, op, step, rslt, histVars>>

-----------------------------------------------------------------------------
(* Waiting for the result: S__readResult() in the loop of                  *)
(* atcmd_awaitResult().                                                    *)

Has(lines, k) == \E x \in lines : x.kind = k
InRx(K)       == \E i \in 1..Len(rxBffr) : rxBffr[i].kind \in K
FirstRx(K)    == {i \in 1..Len(rxBffr) : /\ rxBffr[i].kind \in K
                                         /\ \A j \in 1..(i - 1) : rxBffr[j].kind \notin K}
RxFrom(i)     == SubSeq(rxBffr, i, Len(rxBffr))
LinesOf(s)    == {s[i] : i \in 1..Len(s)}

Ends(k)       == k = respParser \/ (k = "SEND_OK" /\ respParser = "OK")

(* The parsers of results that come later require a preamble, and fail as  *)
(* soon as more was received than the preamble is long.                    *)
Preambled     == respParser \in {"QIOPEN", "QMTPUB"}
Ample(lines)  == \/ \E x \in lines : x.kind \notin {"OK", "PROMPT"}
                 \/ \E x, y \in lines : x.kind = "OK" /\ x # y

(* The result codes with which S__readResult() releases the lock, whoever  *)
(* holds it: a success does so only if the lock is automatic.  Mutants: a  *)
(* timeout leaves the lock; every result releases it.                      *)
UnlocksUnlessTimeout(c) == c \in {"cmError", "internalError"} \/ (c = "success" /\ autoLock)
UnlocksAlways(c)        == c \in {"cmError", "internalError", "timeout", "success"}
Unlocks(c) == c \in {"cmError", "internalError", "timeout"} \/ (c = "success" /\ autoLock)

(* What the control block records of c.  Mutant: a pending result, too. *)
RecordedAsIs(c) == c
Recorded(c)     == IF c = "unknown" THEN "none" ELSE c

(* S__readResult() returns c, decided by the answer to request f.  A       *)
(* cancellation overrides the result, is tested before the yield, and does *)
(* not touch the lock.                                                     *)
Conclude(t, c, f) ==
    /\ isOpenLocked' = (isOpenLocked /\ ~Unlocks(c))
    /\ IF cancellationRequest
       THEN /\ resultCode' = "cancelled" /\ from' = 0
            /\ Goto(t, "return")
            /\ UNCHANGED rslt
       ELSE /\ resultCode' = Recorded(c) /\ from' = f
            /\ rslt' = [rslt EXCEPT ![t] = c]
            /\ Goto(t, "readYield")

(* The timeout of the running command.  Mutant: looked at only when there  *)
(* is something to read.                                                   *)
TimedOutOnText == elapsed /\ rxBffr # <<>>
TimedOut       == elapsed

(* The parser looks at all the text of the response so far: an error wins, *)
(* then the text that ends the response.                                   *)
Settle(t, lines, parsed) ==
    LET failed    == parsed /\ Has(lines, "ERROR")
        succeeded == parsed /\ ~failed /\ \E x \in lines : Ends(x.kind)
        missed    == parsed /\ ~failed /\ ~succeeded /\ Preambled /\ Ample(lines)
        pending   == ~failed /\ ~succeeded /\ ~missed
    IN  \/ failed    /\ \E x \in lines : x.kind = "ERROR" /\ Conclude(t, "cmError", x.cmd)
        \/ succeeded /\ \E x \in lines : Ends(x.kind) /\ Conclude(t, "success", x.cmd)
        \/ missed    /\ Conclude(t, "internalError", 0)
        \/ pending   /\ TimedOut  /\ Conclude(t, "timeout", 0)
        \/ pending   /\ ~TimedOut /\ Conclude(t, "unknown", 0)

DataTriggered == dataMode.cmd # 0 /\ InRx({"PROMPT"})

(* No data mode, or its trigger has not come: move what was received to    *)
(* rawResponse and parse it.                                               *)
ReadResult(t) ==
    /\ cpu = t /\ pc[t] = "read"
    /\ ~DataTriggered
    /\ LET lines == rawResponse \cup LinesOf(rxBffr)
       IN  rawResponse' = lines /\ Settle(t, lines, rxBffr # <<>>)
    /\ rxBffr' = <<>>
    /\ UNCHANGED <<autoLock, respParser, elapsed, dataMode, cancellationRequest, tx, modem, cpu,
                   op, step, cmds, cmd, owner, abandoned, last>>

(* The trigger came: atcmd_stdTxDataHndlr() sends the data.                *)
EnterDataMode(t) ==
    /\ cpu = t /\ pc[t] = "read"
    /\ DataTriggered
    /\ \E i \in FirstRx({"PROMPT"}) : rxBffr' = RxFrom(i)
    /\ StartTx([kind |-> "payload", cmd |-> dataMode.cmd])
    /\ resultCode' = "none" /\ from' = 0
    /\ Goto(t, "dataWait")
    /\ UNCHANGED <<isOpenLocked, autoLock, respParser, elapsed, dataMode, rawResponse,
                   cancellationRequest, modem, cpu, op, step, rslt, cmds, cmd, owner, abandoned, last>>

(* The data handler ran: the settings are cleared.  Mutant: they are not.  *)
KeepDataMode  == UNCHANGED dataMode
ClearDataMode == dataMode' = NoData

(* The handler finds the OK that acknowledges the data and drops what      *)
(* stands before it; the parser runs on the rest unless it is skipped.     *)
DataSent(t) ==
    /\ cpu = t /\ pc[t] = "dataWait"
    /\ ClearDataMode
    /\ \E i \in FirstRx({"OK", "SEND_OK"}) :
        LET lines == rawResponse \cup LinesOf(RxFrom(i + 1))
        IN  IF dataMode.skip
            THEN /\ rxBffr' = RxFrom(i + 1)
                 /\ Conclude(t, "success", rxBffr[i].cmd)
                 /\ UNCHANGED rawResponse
            ELSE /\ rxBffr' = <<>>
                 /\ rawResponse' = lines
                 /\ Settle(t, lines, TRUE)
    /\ UNCHANGED <<autoLock, respParser, elapsed, cancellationRequest, tx, modem, cpu,
                   op, step, cmds, cmd, owner, abandoned, last>>

(* The handler gives up: it waits as long as the command may take and      *)
(* started later.  Its result is not looked at.                            *)
DataTimeout(t) ==
    /\ cpu = t /\ pc[t] = "dataWait"
    /\ ~InRx({"OK", "SEND_OK"}) /\ TimedOut
    /\ ClearDataMode
    /\ LET lines == rawResponse \cup LinesOf(rxBffr)
       IN  rawResponse' = lines /\ Settle(t, lines, TRUE)
    /\ rxBffr' = <<>>
    /\ UNCHANGED <<autoLock, respParser, elapsed, cancellationRequest, tx, modem, cpu,
                   op, step, cmds, cmd, owner, abandoned, last>>

(* After pYield(): the loop of atcmd_awaitResult() looks at its own copy   *)
(* of the result.                                                          *)
ResumeAwait(t) ==
    /\ cpu = t /\ pc[t] = "readYield"
    /\ Goto(t, IF rslt[t] = "unknown" THEN "read" ELSE "return")
    /\ UNCHANGED <<atcmdVars, cancellationRequest, rxBffr, tx, modem, cpu, op, step, rslt, histVars>>

(* atcmd_awaitResult() restores the default parser and returns the result  *)
(* of the control block.  What follows belongs to the operation.           *)
AwaitReturns(t) ==
    /\ cpu = t /\ pc[t] = "return"
    /\ respParser' = "OK"
    /\ abandoned' = IF resultCode \in {"success", "cmError"} /\ from = cmd[t]
                    THEN abandoned ELSE abandoned \cup {cmd[t]}
    /\ UNCHANGED <<autoLock, resultCode, elapsed, dataMode, rawResponse, cancellationRequest,
                   rxBffr, tx, modem, cpu, op, rslt, owner, from>>

(* One command and the call is over; sckt_send() closes in every case,     *)
(* mqtt_publish() when it succeeded, and any failure of it is a conflict.  *)
ReturnAuto(t) ==
    /\ AwaitReturns(t)
    /\ op[t] \in AutoOps
    /\ LET success == resultCode = "success"
           closes  == op[t] \in ClosingOps \/ (op[t] = "mqtt_publish" /\ success)
       IN  /\ isOpenLocked' = (isOpenLocked /\ ~closes)
           /\ Finish(t, IF op[t] = "mqtt_publish" /\ ~success THEN "conflict" ELSE resultCode, from)
    /\ UNCHANGED <<step, cmds, cmd>>

(* A sequence that stops at the first failure, and closes at its end.      *)
ReturnSequence(t) ==
    /\ AwaitReturns(t)
    /\ op[t] = "file_getFSInfo"
    /\ \/ /\ resultCode = "success" /\ step[t] = 1
          /\ NewRequest(t)
          /\ step' = [step EXCEPT ![t] = 2]
          /\ Goto(t, "reuse")
          /\ UNCHANGED <<isOpenLocked, last>>
       \/ /\ resultCode # "success" \/ step[t] = 2
          /\ isOpenLocked' = FALSE
          /\ Finish(t, resultCode, from)
          /\ UNCHANGED <<step, cmds, cmd>>

(* ntwk_awaitProvider() repeats AT+COPS? (step 1) until it has a name; then *)
(* AT+CGACT? (2), and AT+CGPADDR (3) for every active context it found,    *)
(* whatever the results of those.                                          *)
ReturnProvider(t) ==
    /\ AwaitReturns(t)
    /\ op[t] = "ntwk_awaitProvider"
    /\ \/ /\ step[t] = 1                             \* no name yet: pDelay(1000)
          /\ Goto(t, "pollDelay")
          /\ UNCHANGED <<isOpenLocked, last, step, cmds, cmd>>
       \/ /\ resultCode = "success" \/ step[t] = 3
          /\ NewRequest(t)
          /\ step' = [step EXCEPT ![t] = IF @ = 3 THEN 3 ELSE @ + 1]
          /\ Goto(t, "reuse")
          /\ UNCHANGED <<isOpenLocked, last>>
       \/ /\ step[t] > 1
          /\ isOpenLocked' = FALSE
          /\ Finish(t, "none", from)
          /\ UNCHANGED <<step, cmds, cmd>>

(* The end of the poll: another turn while time remains or a cancellation  *)
(* is requested, else the operation closes.                                *)
PollProvider(t) ==
    /\ cpu = t /\ pc[t] = "pollDelay"
    /\ \/ /\ NewRequest(t)
          /\ Goto(t, "reuse")
          /\ UNCHANGED <<isOpenLocked, last>>
       \/ /\ ~cancellationRequest
          /\ isOpenLocked' = FALSE
          /\ Finish(t, "none", 0)
          /\ UNCHANGED <<cmds, cmd>>
    /\ UNCHANGED <<autoLock, resultCode, respParser, elapsed, dataMode, rawResponse,
                   cancellationRequest, rxBffr, tx, modem, cpu, op, step, rslt, owner, from, abandoned>>

-----------------------------------------------------------------------------
(* The rest of the system: time, the scheduler, the UART and the module.   *)

(* The running command's timeout elapses. *)
Elapse ==
    /\ ~elapsed
    /\ elapsed' = TRUE
    /\ UNCHANGED <<isOpenLocked, autoLock, resultCode, respParser, dataMode, rawResponse,
                   cancellationRequest, rxBffr, tx, modem, cpu, callVars, histVars>>

(* The application raises or clears cancellationRequest. *)
RequestCancel ==
    /\ Cancels
    /\ cancellationRequest' = ~cancellationRequest
    /\ UNCHANGED <<atcmdVars, rxBffr, tx, modem, cpu, callVars, histVars>>

Switch(t) ==
    /\ cpu # t
    /\ pc[cpu] \in YieldPoints \/ (Preemptive /\ pc[cpu] # "halt")
    /\ cpu' = t
    /\ UNCHANGED <<atcmdVars, cancellationRequest, rxBffr, tx, modem, callVars, histVars>>

(* The UART has sent the whole text. *)
TxDone ==
    /\ tx # NoTx
    /\ tx' = NoTx
    /\ modem' = Append(modem, tx)
    /\ UNCHANGED <<atcmdVars, cancellationRequest, rxBffr, cpu, callVars, histVars>>

(* The module works through what it was sent, one thing at a time.  After  *)
(* a prompt it takes whatever comes next as the data.  A text that was cut *)
(* short has no end: the next one is taken for the rest of it, and makes   *)
(* it a line that the module does not understand.                          *)
Whole(texts) == texts # <<>> /\ Head(texts).kind \notin {"cut", "cutPayload"}

Emit(k, m, rest) ==
    /\ rxBffr' = Append(rxBffr, [kind |-> k, cmd |-> m.cmd])
    /\ modem' = rest

ModemStep ==
    /\ modem # <<>>
    /\ LET m         == Head(modem)
           rest      == Tail(modem)
           become(k) == <<[m EXCEPT !.kind = k]>> \o rest
       IN  \/ m.kind \in Orders /\ Emit("ERROR", m, rest)
           \/ m.kind = "plain" /\ Emit("OK", m, rest)
           \/ m.kind = "open" /\ Emit("OK", m, become("opening"))
           \/ m.kind = "opening" /\ Emit("QIOPEN", m, rest)
           \/ m.kind = "send" /\ Emit("PROMPT", m, become("sendInput"))
           \/ m.kind = "sendInput" /\ Whole(rest) /\ Emit("SEND_OK", m, Tail(rest))
           \/ m.kind = "publish" /\ Emit("PROMPT", m, become("publishInput"))
           \/ /\ m.kind = "publishInput" /\ Whole(rest)
              /\ Emit("OK", m, <<[m EXCEPT !.kind = "publishing"]>> \o Tail(rest))
           \/ m.kind = "publishing" /\ Emit("QMTPUB", m, rest)
           \/ m.kind = "cut" /\ Whole(rest) /\ Emit("ERROR", Head(rest), Tail(rest))
           \/ /\ m.kind \in {"sendInput", "publishInput", "cut"} /\ rest # <<>> /\ ~Whole(rest)
              /\ modem' = <<m>> \o Tail(rest) /\ UNCHANGED rxBffr
           \/ m.kind \in {"payload", "cutPayload"} /\ modem' = rest /\ UNCHANGED rxBffr
    /\ UNCHANGED <<atcmdVars, cancellationRequest, tx, cpu, callVars, histVars>>

-----------------------------------------------------------------------------
Invoke(t)  == TryInvokeLocked(t) \/ TryInvoke(t) \/ TestLock(t) \/ TakeLock(t) \/ RetryLock(t)
              \/ LockTimeout(t) \/ Send(t) \/ InvokeReuseLock(t) \/ ReuseLockAssert(t)
Await(t)   == ReadResult(t) \/ EnterDataMode(t) \/ DataSent(t) \/ DataTimeout(t) \/ ResumeAwait(t)
Resume(t)  == ReturnAuto(t) \/ ReturnSequence(t) \/ ReturnProvider(t) \/ PollProvider(t)

Caller(t)  == (\E o \in Ops : Call(t, o)) \/ Invoke(t) \/ Await(t) \/ Resume(t)
Outside    == Elapse \/ RequestCancel \/ TxDone \/ ModemStep

Next == (\E t \in Tasks : Caller(t) \/ Switch(t)) \/ Outside

Spec == Init /\ [][Next]_vars

(* The processor runs the caller, the clock advances, and a lock wait      *)
(* ends after its timeout.  Nothing is assumed of the module.              *)
Fairness ==
    /\ \A t \in Tasks : /\ WF_vars(Invoke(t) \/ Await(t) \/ Resume(t))
                        /\ SF_vars(LockTimeout(t))
    /\ WF_vars(Elapse)

LiveSpec == Spec /\ Fairness

-----------------------------------------------------------------------------
AtcmdTypeOK ==
    /\ isOpenLocked \in BOOLEAN
    /\ autoLock \in BOOLEAN
    /\ resultCode \in ResultCodes
    /\ respParser \in Parsers
    /\ elapsed \in BOOLEAN
    /\ dataMode \in [cmd : Cmds0, skip : BOOLEAN]
    /\ rawResponse \subseteq Lines
    /\ cancellationRequest \in BOOLEAN

LinkTypeOK ==
    /\ rxBffr \in Seq(Lines)
    /\ tx \in Sends \cup {NoTx}
    /\ modem \in Seq(Sends)

CallTypeOK ==
    /\ cpu \in Tasks
    /\ pc \in [Tasks -> PCs]
    /\ op \in [Tasks -> AllOps]
    /\ step \in [Tasks -> 1..3]
    /\ rslt \in [Tasks -> Codes]

HistTypeOK ==
    /\ cmds \in Cmds0
    /\ cmd \in [Tasks -> Cmds0]
    /\ owner \in Tasks
    /\ from \in Cmds0
    /\ abandoned \subseteq Cmds0
    /\ last \in [Tasks -> [code : Codes, cmd : Cmds0, from : Cmds0]]

(* Every variable of the control block, the link and the callers has its   *)
(* type; in particular the control block never records a pending result.   *)
TypeOK == AtcmdTypeOK /\ LinkTypeOK /\ CallTypeOK /\ HistTypeOK

-----------------------------------------------------------------------------
(* Properties of the command interface.                                    *)

Busy(t) == pc[t] \in {"send", "read", "dataWait"} \/ (pc[t] = "readYield" /\ rslt[t] = "unknown")

(* At most one task has a command open: the lock taken by ATCMD_awaitLock() *)
(* keeps every other caller out from the moment the command is sent until   *)
(* S__readResult() has a result for it, "AT commands are single threaded".  *)
OneCommandOpen ==
    \A t, u \in Tasks : Busy(t) /\ Busy(u) => t = u

(* A result that awaitResult() reports to its caller was decided by the    *)
(* module's answer to that very command; the only exception is the late    *)
(* answer to a request that was given up before: timed out, cancelled, or  *)
(* refused the lock, when the payload it had configured is sent after all. *)
AnswerIsOwn ==
    \A t \in Tasks :
        last[t].code \in {"success", "cmError"} =>
            last[t].from = last[t].cmd \/ last[t].from \in abandoned

(* The data the module takes after a prompt is the payload configured for  *)
(* the command that prompted, unless that request was given up before.     *)
PayloadReachesItsCommand ==
    Len(modem) > 1 /\ modem[1].kind \in {"sendInput", "publishInput"} =>
        \/ modem[2] = [kind |-> "payload", cmd |-> modem[1].cmd]
        \/ modem[1].cmd \in abandoned

(* An API call that waited for a result leaves the command interface free  *)
(* for the next caller, by whatever path it ended; only a cancellation,    *)
(* which leaves the loop without a word about the lock, keeps it taken.    *)
LockFreeOnReturn ==
    [][\A t \in Tasks :
        pc[t] = "return" /\ pc'[t] = "idle" /\ resultCode # "cancelled" => ~isOpenLocked']_vars

(* The lock a sequence of commands opened is still held at each command    *)
(* of the sequence: the assertion in atcmd_invokeReuseLock().              *)
SequenceHoldsLock ==
    \A t \in Tasks : pc[t] = "reuse" => isOpenLocked

(* So it is in a sequence that stops at the first command that fails.      *)
CheckedSequenceHoldsLock ==
    \A t \in Tasks :
        pc[t] = "reuse" /\ op[t] # "ntwk_awaitProvider" => isOpenLocked

(* A lock is released by the task that took it, never by another one.      *)
ReleasedByOwner ==
    [][isOpenLocked /\ ~isOpenLocked' => cpu = owner]_vars

(* A call that succeeded on the module's own answer leaves no data mode    *)
(* settings behind for the prompt of a later one.                          *)
DataModeEndsWithSuccess ==
    \A t \in Tasks :
        pc[t] = "idle" /\ last[t].code = "success" /\ last[t].from = last[t].cmd
            => dataMode.cmd # last[t].cmd

(* Every call returns: the module may stay silent, the timeouts do not.    *)
(* Only ntwk_awaitProvider() may poll on, or fail the assertion of         *)
(* SequenceHoldsLock.                                                      *)
CallReturns ==
    \A t \in Tasks : pc[t] # "idle" ~> pc[t] = "idle" \/ op[t] = "ntwk_awaitProvider"
=============================================================================
