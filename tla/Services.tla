------------------------------ MODULE Services ------------------------------
(***************************************************************************)
(* The API functions of LTEmC that talk to the module by AT commands:      *)
(* files, GNSS, geo-fences, GPIO, modem information, TLS options, HTTP and *)
(* network settings.  Each is a script: the commands it sends, how it      *)
(* takes the lock, what it does when the lock or a command fails, and what *)
(* it reports.  The engine that runs a script is the command interface of  *)
(* ltemc-atcmd.c with its response parser.                                 *)
(*                                                                         *)
(* Tasks are cooperative: one gives way to another only where the code     *)
(* yields.  Module AtCmd has the same interface with preemptive tasks,     *)
(* cancellation and transmissions that are cut short.                      *)
(***************************************************************************)
EXTENDS Parser

CONSTANTS
    Tasks,
    CallsOf,     \* the API functions a task calls, [Tasks -> SUBSET Names]
    MaxCalls,    \* bound on the calls of all tasks
    MaxCmds      \* bound on their commands

-----------------------------------------------------------------------------
(* Scripts.  A command: what it asks the module (k), the parser it waits   *)
(* with, the handler of data mode and whether the parser is skipped then.  *)
(* The command "again" sends nothing: it waits for more of the response.   *)

Ask(k)       == [k |-> k, p |-> ATCMD_okResponseParser, h |-> "none", skip |-> FALSE]
AskFor(k, p) == [Ask(k) EXCEPT !.p = p]
Feed(k, p, skip)   == [AskFor(k, p) EXCEPT !.h = "stdTx", !.skip = skip]
Stream(k, handler) == [Ask(k) EXCEPT !.h = handler, !.skip = TRUE]

(* An automatic command releases the lock itself; a call that could not    *)
(* invoke it reports a conflict, and passes any other result on.           *)
Automatic(cmds) ==
    [manual |-> FALSE, cmds |-> cmds,
     goesOn |-> FALSE,        \* sends the next command after a failed one
     refused |-> "conflict",  \* reported without the lock; "wait", "skip": goes on
     closes |-> {},           \* calls atcmd_close(): when "refused", "failed", "ended"
     won |-> "success", lost |-> "same"]    \* reported; "same": the result

(* A sequence under one lock, closed at its end. *)
Sequence(cmds) == [Automatic(cmds) EXCEPT !.manual = TRUE, !.closes = {"failed", "ended"}]

file_getFSInfo   == Sequence(<<Ask("plain"), Ask("plain")>>)
file_getFilelist == [Sequence(<<Ask("list")>>) EXCEPT !.closes = @ \cup {"refused"}]
file_open        == [Automatic(<<Ask("plain")>>) EXCEPT !.closes = {"failed", "ended"}]
file_getOpenFiles == [Automatic(<<Ask("list")>>) EXCEPT !.lost = "conflict"]
file_close       == Automatic(<<Ask("plain")>>)
file_seek        == Automatic(<<Ask("plain")>>)
file_delete      == Automatic(<<Ask("plain")>>)

(* The list of open files (one file here), then its files one by one,      *)
(* whatever the results; a list that could not be had is an empty one.     *)
file_closeAll == [Automatic(<<Ask("list"), Ask("plain")>>) EXCEPT !.refused = "undefined", !.lost = "success"]

(* The result, if the command could not be invoked, was never assigned.    *)
file_getPosition == [Automatic(<<Ask("plain")>>) EXCEPT !.refused = "undefined"]

file_read == [Automatic(<<Stream("QFREAD", "S__filesRxHndlr")>>) EXCEPT !.won = "true", !.lost = "false"]

(* The second wait is for the line +QFWRITE.                               *)
file_write ==
    [Sequence(<<Feed("QFWRITE", ATCMD_okResponseParser, FALSE), AskFor("again", S__writeStatusParser)>>)
        EXCEPT !.goesOn = TRUE]

gnss_on  == Automatic(<<Ask("plain")>>)
gnss_off == Automatic(<<Ask("plain")>>)

(* Returns on failure without atcmd_close(), which S__readResult() did.    *)
gnss_getLocation ==
    [Sequence(<<AskFor("QGPSLOC", gnssLocCompleteParser)>>)
        EXCEPT !.refused = "undefined", !.closes = {"ended"}]

geo_query == [Automatic(<<Ask("plain")>>) EXCEPT !.lost = "unknown position"]

(* Looks for the preamble in a response that has lost it.                  *)
gpio_adcRead ==
    [Automatic(<<AskFor("QADC", S__adcValueParser)>>) EXCEPT !.won = "badRequest", !.lost = "conflict"]
gpio_configPort == [Automatic(<<Ask("plain")>>) EXCEPT !.lost = "badRequest"]
gpio_read  == [Automatic(<<AskFor("QCFG", S__ioValueParser)>>) EXCEPT !.lost = "conflict"]
gpio_write == [Automatic(<<Ask("plain")>>) EXCEPT !.lost = "conflict"]

(* Each text is asked for if it is not known, whatever became of the last. *)
mdminfo_ltem ==
    [Sequence(<<Ask("GSN"), Ask("QGMR"), Ask("ATI"), AskFor("ICCID", S__iccidCompleteParser)>>)
        EXCEPT !.goesOn = TRUE, !.refused = "none", !.won = "none", !.lost = "none"]

(* The signal is computed from an unassigned value if the command failed.  *)
mdmInfo_signalPercent ==
    [Automatic(<<Ask("plain")>>) EXCEPT !.refused = "none", !.closes = {"failed", "ended"}, !.lost = "undefined"]
mdminfo_signalRSSI == mdmInfo_signalPercent
mdminfo_signalBars == mdmInfo_signalPercent

(* Settings of a ready module: whether the command was invoked is not      *)
(* looked at, nor is its result.                                           *)
ltem_setProviderScanMode ==
    [Automatic(<<Ask("plain")>>) EXCEPT !.refused = "wait", !.won = "none", !.lost = "none"]
ltem_setProviderScanSeq == ltem_setProviderScanMode
ltem_setIotMode         == ltem_setProviderScanMode

(* Four settings; one that finds the lock taken is left out.               *)
tls_configure ==
    [Automatic([i \in 1..4 |-> Ask("plain")]) EXCEPT !.refused = "skip", !.won = "true", !.lost = "false"]
tlsGetOptions ==
    [Automatic(<<Ask("plain")>>) EXCEPT !.refused = "none", !.closes = {"failed", "ended"},
                                   !.won = "none", !.lost = "none"]

NTWK_applyDefaulNetwork ==
    [Automatic(<<Ask("plain")>>) EXCEPT !.refused = "none", !.closes = {"refused", "failed", "ended"},
                                   !.won = "none", !.lost = "none"]
ntwk_setNetworkConfig == [NTWK_applyDefaulNetwork EXCEPT !.refused = "undefined", !.won = "success", !.lost = "same"]

(* Activate and deactivate wait with a parser that is given no delimiters. *)
ntwk_activateNetwork ==
    [Automatic(<<AskFor("plain", S__contextStatusCompleteParser)>>)
        EXCEPT !.refused = "none", !.won = "none", !.lost = "none"]
ntwk_deactivateNetwork == ntwk_activateNetwork
ntwk_getRegistrationStatus == [Automatic(<<Ask("plain")>>) EXCEPT !.refused = "none", !.won = "none", !.lost = "none"]

(* Asks only while the IMEI is not known, closes in every case.            *)
ntwkDIAG_getProviders ==
    [Sequence(<<Ask("COPS")>>)
        EXCEPT !.refused = "none", !.closes = @ \cup {"refused"}, !.won = "none", !.lost = "none"]

(* Waits for a result even if the command was not invoked.                 *)
sckt_open == [Automatic(<<AskFor("QIOPEN", S__udptcpOpenCompleteParser)>>) EXCEPT !.refused = "wait"]

(* The HTTP requests depend on the settings of the control. *)
Given(condition, cmds) == IF condition THEN cmds ELSE <<>>
S__setUrl == Feed("QHTTPURL", ATCMD_okResponseParser, TRUE)
http_configure(h) == Given(h.responseHdrs, <<Ask("plain")>>) \o Given(h.useTls, <<Ask("plain")>>)

http_get(h) ==
    [Sequence(http_configure(h) \o
              <<S__setUrl, Ask("plain"),
                IF h.cstmHdrs THEN Feed("QHTTPGET+", S__httpGetStatusParser, FALSE)
                              ELSE AskFor("QHTTPGET", S__httpGetStatusParser)>>)
        EXCEPT !.refused = "timeout"]
http_post(h) ==
    [Sequence(http_configure(h) \o <<S__setUrl, Feed("QHTTPPOST", S__httpPostStatusParser, FALSE)>>)
        EXCEPT !.refused = "timeout"]

http_readPage == Automatic(<<Stream("QHTTPREAD", "S__httpRxHndlr")>>)

(* The functions whose script is fixed. *)
Fixed == {
    "file_getFSInfo", "file_getFilelist", "file_open", "file_getOpenFiles", "file_close", "file_seek",
    "file_delete", "file_closeAll", "file_getPosition", "file_read", "file_write", "gnss_on", "gnss_off",
    "gnss_getLocation", "geo_query", "gpio_adcRead", "gpio_configPort", "gpio_read", "gpio_write",
    "mdminfo_ltem", "mdmInfo_signalPercent", "mdminfo_signalRSSI", "mdminfo_signalBars",
    "ltem_setProviderScanMode", "ltem_setProviderScanSeq", "ltem_setIotMode", "tls_configure",
    "tlsGetOptions", "NTWK_applyDefaulNetwork", "ntwk_setNetworkConfig", "ntwk_activateNetwork",
    "ntwk_deactivateNetwork", "ntwk_getRegistrationStatus", "ntwkDIAG_getProviders", "sckt_open",
    "http_readPage"}

Scripts == [n \in Fixed |->
    CASE n = "file_getFSInfo" -> file_getFSInfo [] n = "file_getFilelist" -> file_getFilelist
      [] n = "file_open" -> file_open [] n = "file_getOpenFiles" -> file_getOpenFiles
      [] n = "file_close" -> file_close [] n = "file_seek" -> file_seek [] n = "file_delete" -> file_delete
      [] n = "file_closeAll" -> file_closeAll [] n = "file_getPosition" -> file_getPosition
      [] n = "file_read" -> file_read [] n = "file_write" -> file_write [] n = "gnss_on" -> gnss_on
      [] n = "gnss_off" -> gnss_off [] n = "gnss_getLocation" -> gnss_getLocation
      [] n = "geo_query" -> geo_query [] n = "gpio_adcRead" -> gpio_adcRead
      [] n = "gpio_configPort" -> gpio_configPort [] n = "gpio_read" -> gpio_read
      [] n = "gpio_write" -> gpio_write [] n = "mdminfo_ltem" -> mdminfo_ltem
      [] n = "mdmInfo_signalPercent" -> mdmInfo_signalPercent [] n = "mdminfo_signalRSSI" -> mdminfo_signalRSSI
      [] n = "mdminfo_signalBars" -> mdminfo_signalBars
      [] n = "ltem_setProviderScanMode" -> ltem_setProviderScanMode
      [] n = "ltem_setProviderScanSeq" -> ltem_setProviderScanSeq [] n = "ltem_setIotMode" -> ltem_setIotMode
      [] n = "tls_configure" -> tls_configure [] n = "tlsGetOptions" -> tlsGetOptions
      [] n = "NTWK_applyDefaulNetwork" -> NTWK_applyDefaulNetwork
      [] n = "ntwk_setNetworkConfig" -> ntwk_setNetworkConfig
      [] n = "ntwk_activateNetwork" -> ntwk_activateNetwork
      [] n = "ntwk_deactivateNetwork" -> ntwk_deactivateNetwork
      [] n = "ntwk_getRegistrationStatus" -> ntwk_getRegistrationStatus
      [] n = "ntwkDIAG_getProviders" -> ntwkDIAG_getProviders [] n = "sckt_open" -> sckt_open
      [] n = "http_readPage" -> http_readPage]

Requests == {"http_get", "http_post"}
Names    == Fixed \cup Requests

Nobody == "nobody"

ASSUME ServicesAssumption ==
    /\ Nobody \notin Tasks
    /\ CallsOf \in [Tasks -> SUBSET Names]
    /\ MaxCalls \in Nat /\ MaxCmds \in Nat

-----------------------------------------------------------------------------
VARIABLES
    isOpenLocked, autoLock, resultCode, rawResponse, retValue, parser, elapsed, dataMode,  \* atcmd_t
    rxBffr,                     \* the text received and not yet read, as pieces
    http, known,                \* httpCtrl_t of the application; texts mdminfo_ltem() has
    pc, call, step, rslt,       \* callers: where they are, in which command of which call
    inbox, out,                 \* the module: texts it was sent; what it still answers
    asserted,                   \* the assertion that failed, after which all stops
    cmds, mine, got, good, answered, loose, owner, robber, disturbed, misled, last, calls  \* history

cmdVars  == <<isOpenLocked, autoLock, resultCode, rawResponse, retValue, parser, elapsed, dataMode>>
callVars == <<pc, call, step, rslt>>
modVars  == <<inbox, out, good, answered>>
histVars == <<cmds, mine, got, loose, owner, robber, disturbed, misled, last, calls>>
vars == <<cmdVars, rxBffr, http, known, callVars, modVars, asserted, histVars>>

Cmds    == 1..MaxCmds
NoCmd   == 0
Missed  == MaxCmds + 1
NoData  == [h |-> "none", skip |-> FALSE, c |-> NoCmd]
Codes   == {"none", "success", "cmError", "internalError", "notFound", "timeout", "conflict",
            "undefined", "badRequest", "unknown position", "true", "false", "status"}
YieldPoints == {"idle", "lock", "yield", "data"}

Script(t)  == CASE call[t] = "http_get"  -> http_get(http)
                [] call[t] = "http_post" -> http_post(http)
                [] OTHER                 -> Scripts[call[t]]
Command(t) == Script(t).cmds[step[t]]

(* t runs, as no other task does: they are where the code yields. *)
At(t, l) == pc[t] = l /\ asserted = "none" /\ \A u \in Tasks \ {t} : pc[u] \in YieldPoints
Goto(t, l) == pc' = [pc EXCEPT ![t] = l]

(* A task has a command open from when it was sent until S__readResult()   *)
(* has a result for it.                                                    *)
Open(t) == pc[t] \in {"read", "data", "stream"} \/ (pc[t] = "yield" /\ rslt[t] = "unknown")

(* The control as the functions that set it up leave it; the application   *)
(* does so before a request, and not while another one uses it.            *)
http_initControl == [requestState |-> "idle", useTls |-> FALSE, cstmHdrs |-> FALSE, responseHdrs |-> FALSE]
http_setConnection(h, https) == [h EXCEPT !.useTls = https]
http_enableCustomHdrs(h) == [h EXCEPT !.cstmHdrs = TRUE]

Controls == {http_initControl,
             [http_enableCustomHdrs(http_setConnection(http_initControl, TRUE)) EXCEPT !.responseHdrs = TRUE]}

Init ==
    /\ isOpenLocked = FALSE /\ autoLock = FALSE
    /\ resultCode = "none" /\ rawResponse = <<>> /\ retValue = 0
    /\ parser = ATCMD_okResponseParser
    /\ elapsed = TRUE
    /\ dataMode = NoData
    /\ rxBffr = <<>>
    /\ http = http_initControl
    /\ known = {}
    /\ pc = [t \in Tasks |-> "idle"]
    /\ call = [t \in Tasks |-> "file_close"]
    /\ step = [t \in Tasks |-> 1]
    /\ rslt = [t \in Tasks |-> "none"]
    /\ inbox = <<>> /\ out = [c |-> NoCmd, chunks |-> <<>>]
    /\ asserted = "none"
    /\ cmds = 0 /\ calls = 0
    /\ mine = [t \in Tasks |-> {}]
    /\ got = [c \in Cmds |-> NoCmd]
    /\ good = {} /\ answered = {} /\ loose = {}
    /\ owner = Nobody /\ robber = "none"
    /\ disturbed = [t \in Tasks |-> FALSE] /\ misled = {}
    /\ last = "none"

-----------------------------------------------------------------------------
(* Calls, the lock and the sending of commands.                            *)

Call(t, n) ==
    /\ At(t, "idle")
    /\ calls < MaxCalls
    /\ n = "http_readPage" => http.requestState = "requestComplete"
    /\ calls' = calls + 1
    /\ call' = [call EXCEPT ![t] = n]
    /\ http' \in (IF n \in Requests /\ \A u \in Tasks : call[u] \notin Requests THEN Controls ELSE {http})
    /\ Goto(t, "next")
    /\ UNCHANGED <<cmdVars, rxBffr, known, step, rslt, modVars, asserted, cmds, mine, got, loose,
                   owner, robber, disturbed, misled, last>>

(* atcmd_reset(): the data mode and what was received stay. *)
Reset ==
    /\ rawResponse' = <<>>
    /\ resultCode' = "none"
    /\ retValue' = 0

(* t waits for a result.  A call that waits for one too, or has one that   *)
(* it has not taken, shares the control block with t from now on.          *)
StartToRead(t) ==
    LET others == {u \in Tasks \ {t} : pc[u] \in {"yield", "data"}}
    IN  /\ Goto(t, "read")
        /\ disturbed' = [u \in Tasks |-> disturbed[u] \/ (others # {} /\ u \in others \cup {t})]

(* The command of t goes to the module, and t waits with its parser.       *)
SendCommand(t) ==
    LET c == cmds + 1
    IN  /\ cmds < MaxCmds
        /\ Reset
        /\ inbox' = Append(inbox, [k |-> Command(t).k, c |-> c])
        /\ elapsed' = FALSE
        /\ parser' = Command(t).p
        /\ dataMode' = IF Command(t).h = "none" THEN dataMode
                       ELSE [h |-> Command(t).h, skip |-> Command(t).skip, c |-> c]
        /\ cmds' = c
        /\ mine' = [mine EXCEPT ![t] = @ \cup {c}]
        /\ StartToRead(t)
        /\ UNCHANGED <<rxBffr, http, known, call, step, rslt, out, good, answered, asserted,
                       got, loose, robber, misled, last, calls>>

(* On to the next command of the script, or to its end. *)
Advance(t) ==
    /\ step' = [step EXCEPT ![t] = @ + 1]
    /\ Goto(t, IF step[t] < Len(Script(t).cmds) THEN "next" ELSE "end")

(* A text that is cached is not asked for; the providers are, until the    *)
(* IMEI is.                                                                *)
IsKnown(k) == k \in known \/ (k = "COPS" /\ "GSN" \in known)

(* The lock.  Mutant: taken whoever holds it. *)
LockIgnored == TRUE
LockIsFree  == ~isOpenLocked

(* atcmd_tryInvoke() *)
TryInvoke(t) ==
    /\ At(t, "next") /\ ~Script(t).manual
    /\ LockIsFree
    /\ isOpenLocked' = TRUE /\ autoLock' = TRUE /\ owner' = t
    /\ SendCommand(t)

(* ATCMD_awaitLock() has it, and the first command of a sequence goes out. *)
TakeLock(t) ==
    /\ At(t, "next") \/ At(t, "lock")
    /\ Script(t).manual /\ step[t] = 1
    /\ LockIsFree
    /\ ~IsKnown(Command(t).k)
    /\ isOpenLocked' = TRUE /\ autoLock' = FALSE /\ owner' = t
    /\ SendCommand(t)

(* A text that is known: no command, and on to the next. *)
SkipKnown(t) ==
    /\ At(t, "next") \/ At(t, "lock")
    /\ Script(t).manual /\ IsKnown(Command(t).k)
    /\ IF step[t] = 1 THEN LockIsFree /\ isOpenLocked' = TRUE /\ owner' = t
                      ELSE UNCHANGED <<isOpenLocked, owner>>
    /\ Advance(t)
    /\ UNCHANGED <<autoLock, resultCode, rawResponse, retValue, parser, elapsed, dataMode, rxBffr,
                   http, known, call, rslt, modVars, asserted, cmds, mine, got, loose, robber,
                   disturbed, misled, last, calls>>

WaitForLock(t) ==
    /\ At(t, "next") /\ Script(t).manual /\ step[t] = 1
    /\ ~LockIsFree
    /\ Goto(t, "lock")
    /\ UNCHANGED <<cmdVars, rxBffr, http, known, call, step, rslt, modVars, asserted, histVars>>

(* atcmd_invokeReuseLock() *)
InvokeReuseLock(t) ==
    /\ At(t, "next") /\ Script(t).manual /\ step[t] > 1
    /\ Command(t).k # "again" /\ ~IsKnown(Command(t).k)
    /\ isOpenLocked
    /\ autoLock' = FALSE
    /\ UNCHANGED <<isOpenLocked, owner>>
    /\ SendCommand(t)

ReuseLockAssert(t) ==
    /\ At(t, "next") /\ Script(t).manual /\ step[t] > 1
    /\ Command(t).k # "again" /\ ~IsKnown(Command(t).k)
    /\ ~isOpenLocked
    /\ asserted' = "isOpenLocked"
    /\ UNCHANGED <<cmdVars, rxBffr, http, known, callVars, modVars, histVars>>

(* file_write() waits again: a success is cleared, and with it the time of *)
(* the command, so that its timeout counts as elapsed.                     *)
AwaitAgain(t) ==
    /\ At(t, "next") /\ Command(t).k = "again"
    /\ IF resultCode = "success" THEN Reset /\ elapsed' = TRUE
                                 ELSE UNCHANGED <<rawResponse, resultCode, retValue, elapsed>>
    /\ parser' = Command(t).p
    /\ StartToRead(t)
    /\ UNCHANGED <<isOpenLocked, autoLock, dataMode, rxBffr, http, known, call, step, rslt,
                   modVars, asserted, cmds, mine, got, loose, owner, robber, misled, last, calls>>

(* atcmd_close(), when the script has one at this point.                   *)
Closes(t, when) == when \in Script(t).closes

(* The first task to release a lock that another one took is remembered. *)
Release(t, releases) ==
    /\ isOpenLocked' = (isOpenLocked /\ ~releases)
    /\ owner' = IF releases THEN Nobody ELSE owner
    /\ robber' = IF releases /\ owner \notin {t, Nobody} /\ robber = "none"
               THEN IF disturbed[t] THEN "disturbed" ELSE call[t]
               ELSE robber

Finish(t, code) ==
    /\ Goto(t, "return")
    /\ last' = code

(* atcmd_tryInvoke() finds the lock taken, or the time to wait for it is   *)
(* over: the script says what becomes of the call.                         *)
Refused(t) ==
    /\ \/ At(t, "next") /\ ~Script(t).manual /\ ~LockIsFree
       \/ At(t, "lock")
    /\ Release(t, Closes(t, "refused"))
    /\ CASE Script(t).refused = "wait" ->
              /\ parser' = Command(t).p
              /\ StartToRead(t)
              /\ UNCHANGED <<step, rslt, last>>
         [] Script(t).refused # "wait" /\ (Script(t).refused = "skip" \/ step[t] > 1) ->
              /\ rslt' = [rslt EXCEPT ![t] = "success"]
              /\ Advance(t)
              /\ UNCHANGED <<parser, disturbed, last>>
         [] OTHER ->
              /\ Finish(t, Script(t).refused)
              /\ UNCHANGED <<parser, disturbed, step, rslt>>
    /\ UNCHANGED <<autoLock, resultCode, rawResponse, retValue, elapsed, dataMode, rxBffr, http,
                   known, call, modVars, asserted, cmds, mine, got, loose, misled, calls>>

-----------------------------------------------------------------------------
(* The result: S__readResult() in the loop of atcmd_awaitResult().         *)

Current(t)  == IF mine[t] = {} THEN NoCmd ELSE Max(mine[t])
ResultOf(v) == CASE v = "moduleError" -> "cmError"
                 [] v = "countShort"  -> "notFound"
                 [] v = "preambleMissing" -> "internalError"
                 [] OTHER -> "success"

(* Which results release the lock, whoever holds it.  Mutant: a success    *)
(* does in a sequence, too.                                                *)
UnlocksAlways(r) == r # "unknown"
Unlocks(r) == r \notin {"unknown", "success"} \/ (r = "success" /\ autoLock)

(* Parsers that are satisfied before the OK at the end of the response.    *)
EarlyParsers == {gnssLocCompleteParser, S__adcValueParser, S__ioValueParser, S__udptcpOpenCompleteParser}

(* A pending result is returned, not recorded.  Mutant: recorded, too. *)
RecordedAsIs(r) == r
Recorded(r) == IF r = "unknown" THEN "none" ELSE r

(* S__readResult() returns r, which the answer to command c decided.  What *)
(* an earlier command left behind is loose: its wait was not ended by the  *)
(* last line of its own answer, or was shared.                             *)
EndedByItself(t, r, c) ==
    /\ r \in {"success", "cmError"} /\ c = Current(t) /\ Command(t).p \notin EarlyParsers
    /\ got[c] \notin loose /\ ~disturbed[t]

Conclude(t, r, c) ==
    /\ Release(t, Unlocks(r))
    /\ resultCode' = Recorded(r)
    /\ rslt' = [rslt EXCEPT ![t] = r]
    /\ got' = IF r = "unknown" \/ Current(t) = NoCmd THEN got
              ELSE [got EXCEPT ![Current(t)] = CASE @ \in loose -> @
                                                 [] @ \notin loose /\ c # NoCmd -> c
                                                 [] @ \notin loose /\ c = NoCmd /\ Current(t) \notin answered -> Missed
                                                 [] OTHER -> @]
    /\ loose' = IF r = "unknown" \/ Current(t) = NoCmd \/ EndedByItself(t, r, c) THEN loose
                ELSE loose \cup {Current(t)}
    /\ Goto(t, "yield")

(* The parser judges the text so far; pending, the timeout is looked at.   *)
Settle(t, text, parsed) ==
    LET verdict == IF parsed THEN Verdict(parser, text) ELSE "pending"
    IN  /\ retValue' = IF verdict = "success" THEN ValueOf(parser, text) ELSE retValue
        /\ CASE verdict # "pending" -> Conclude(t, ResultOf(verdict), Decider(parser, text))
             [] verdict = "pending" /\ elapsed  -> Conclude(t, "timeout", NoCmd)
             [] verdict = "pending" /\ ~elapsed -> Conclude(t, "unknown", NoCmd)

(* The size of the response.  Mutant: a location fills it. *)
HalfBuffer   == 60
respBufferSz == 120
Fits(more)   == strlen(rawResponse) + strlen(more) < respBufferSz

(* What was received goes to the response, which is parsed.  The ASSERTs   *)
(* on the way: room in the response, and a parser that has delimiters.     *)
Parse(t, received) ==
    IF ~Fits(received) \/ parser.pre = "QIACT"
    THEN /\ asserted' = IF ~Fits(received) THEN "respBufferSz" ELSE "pDelimeters"
         /\ rxBffr' = received
         /\ UNCHANGED <<isOpenLocked, resultCode, rawResponse, retValue, rslt, got, loose, pc, owner, robber>>
    ELSE /\ rawResponse' = rawResponse \o received
         /\ rxBffr' = <<>>
         /\ Settle(t, rawResponse \o received, TRUE)
         /\ UNCHANGED asserted

ReadFrame == UNCHANGED <<autoLock, parser, elapsed, http, known, call, step, out, good, answered,
                         cmds, mine, disturbed, misled, last, calls>>

Triggered == dataMode.h # "none" /\ Has(rxBffr, "CONNECT")

(* Nothing was received. *)
ReadNothing(t) ==
    /\ At(t, "read") /\ rxBffr = <<>>
    /\ Settle(t, rawResponse, FALSE)
    /\ UNCHANGED <<rawResponse, dataMode, rxBffr, inbox, asserted>>
    /\ ReadFrame

ReadResult(t) ==
    /\ At(t, "read") /\ rxBffr # <<>> /\ ~Triggered
    /\ Parse(t, rxBffr)
    /\ UNCHANGED <<dataMode, inbox>>
    /\ ReadFrame

(* The trigger of data mode came.  atcmd_stdTxDataHndlr() sends the data,  *)
(* a receive handler starts with the text behind the trigger.              *)
EnterDataMode(t) ==
    /\ At(t, "read") /\ Triggered
    /\ resultCode' = "none"
    /\ IF dataMode.h = "stdTx"
       THEN inbox' = Append(inbox, [k |-> "data", c |-> dataMode.c]) /\ Goto(t, "data")
       ELSE UNCHANGED inbox /\ Goto(t, "stream")
    /\ LET i == Min(Places(rxBffr, <<"CONNECT">>))
       IN  /\ rxBffr' = Rest(rxBffr, i)
           /\ got' = IF Current(t) \in {NoCmd, rxBffr[i].c} THEN got ELSE [got EXCEPT ![Current(t)] = rxBffr[i].c]
    /\ UNCHANGED <<isOpenLocked, rawResponse, retValue, dataMode, rslt, loose, owner, robber, asserted>>
    /\ ReadFrame

(* A handler ends with success: the parser is skipped, or runs on what is  *)
(* left; else the response is parsed as it stands.                         *)
HandlerEnds(t, success, c, left) ==
    /\ dataMode' = NoData
    /\ IF success /\ dataMode.skip
       THEN /\ IF Fits(left) THEN Conclude(t, "success", c) /\ UNCHANGED asserted
                             ELSE /\ asserted' = "respBufferSz"
                                  /\ UNCHANGED <<isOpenLocked, resultCode, rslt, got, loose, pc, owner, robber>>
            /\ rxBffr' = left
            /\ UNCHANGED <<rawResponse, retValue>>
       ELSE Parse(t, left)
    /\ UNCHANGED inbox
    /\ ReadFrame

(* The OK for the data: it and all before it is dropped.  Mutant: and all  *)
(* behind it.                                                              *)
DropAll(i)  == <<>>
BehindOK(i) == Rest(rxBffr, i + 2)

DataSent(t) ==
    /\ At(t, "data") /\ Has(rxBffr, "OK")
    /\ LET i == Min(Places(rxBffr, <<"OK">>))
       IN  HandlerEnds(t, TRUE, rxBffr[i].c, BehindOK(i))

DataTimeout(t) ==
    /\ At(t, "data") /\ ~Has(rxBffr, "OK") /\ elapsed
    /\ HandlerEnds(t, FALSE, NoCmd, rxBffr)

(* The receive handlers (in detail in module Transfers).  That of a file   *)
(* takes what comes until nothing does for 100 ms, and so never succeeds.  *)
FileStreamed(t) ==
    /\ At(t, "stream") /\ dataMode.h = "S__filesRxHndlr"
    /\ HandlerEnds(t, FALSE, NoCmd, <<>>)

(* That of a page waits for the line that ends it, without a timeout.      *)
PageStreamed(t) ==
    /\ At(t, "stream") /\ dataMode.h = "S__httpRxHndlr"
    /\ Places(rxBffr, <<"QHTTPREAD", "tok", "eol">>) # {}
    /\ LET i == Min(Places(rxBffr, <<"QHTTPREAD", "tok", "eol">>))
       IN  HandlerEnds(t, rxBffr[i + 1].v = 0, rxBffr[i].c, Rest(rxBffr, i + 3))

-----------------------------------------------------------------------------
(* After the yield: another turn, or the script goes on with the result    *)
(* that now stands in the control block: another call's, perhaps, which    *)
(* misleads it if its own was a failure.                                   *)
ReadAgain(t) ==
    /\ At(t, "yield") /\ rslt[t] = "unknown"
    /\ Goto(t, "read")
    /\ UNCHANGED <<cmdVars, rxBffr, http, known, call, step, rslt, modVars, asserted, histVars>>

AwaitReturns(t) ==
    /\ At(t, "yield") /\ rslt[t] # "unknown"
    /\ rslt' = [rslt EXCEPT ![t] = resultCode]
    /\ misled' = IF resultCode = "success" /\ rslt[t] # "success" THEN misled \cup {t} ELSE misled
    /\ parser' = ATCMD_okResponseParser
    /\ known' = known \cup ({"GSN", "QGMR", "ATI", "ICCID"} \cap
                            IF resultCode = "success" THEN {Command(t).k} ELSE {})
    /\ IF resultCode = "success" \/ Script(t).goesOn
       THEN Advance(t)
       ELSE Goto(t, "end") /\ UNCHANGED step
    /\ UNCHANGED <<isOpenLocked, autoLock, resultCode, rawResponse, retValue, elapsed, dataMode, rxBffr,
                   http, call, modVars, asserted, cmds, mine, got, loose, owner, robber, disturbed, last, calls>>

(* The status in the line that ends a request: its second token. *)
S__parseResponseForHttpStatus(text) ==
    TokenAt(Response(IF Has(text, "QHTTPGET") THEN S__httpGetStatusParser ELSE S__httpPostStatusParser, text), 2)

(* An error of the module is the value of the status line.  http_post()    *)
(* returns the success its parser had.  Mutant: so does http_get().        *)
ErrorIgnored(t) == "success"
ErrorReported(t) == IF call[t] = "http_post" THEN "success" ELSE "status"

(* What a request reports: its HTTP status, or that of its failure.        *)
StatusOf(t) ==
    CASE rslt[t] = "success" /\ retValue # 0 -> ErrorReported(t)
      [] rslt[t] = "success" /\ retValue = 0 ->
            IF S__parseResponseForHttpStatus(rawResponse) = 200 THEN "success" ELSE "status"
      [] rslt[t] # "success" /\ step[t] < Len(Script(t).cmds) -> rslt[t]
      [] OTHER -> IF call[t] = "http_post" THEN "internalError" ELSE "status"

Reported(t) ==
    IF call[t] \in Requests        THEN StatusOf(t)
    ELSE IF rslt[t] = "success"    THEN Script(t).won
    ELSE IF Script(t).lost = "same" THEN rslt[t]
    ELSE Script(t).lost

EndCall(t) ==
    /\ At(t, "end")
    /\ Release(t, Closes(t, IF rslt[t] = "success" THEN "ended" ELSE "failed"))
    /\ Finish(t, Reported(t))
    /\ http' = IF call[t] \in Requests /\ rslt[t] = "success" /\ retValue = 0 /\ StatusOf(t) = "success"
               THEN [http EXCEPT !.requestState = "requestComplete"] ELSE http
    /\ UNCHANGED <<autoLock, resultCode, rawResponse, retValue, parser, elapsed, dataMode, rxBffr, known,
                   call, step, rslt, modVars, asserted, cmds, mine, got, loose, disturbed, misled, calls>>

(* A socket that was opened is added to the table of streams, which has it *)
(* since its initialization: the assertion of ltem_addStream() fails,      *)
(* unless the search for it ends at an empty entry before it.              *)
StreamAssert(t) ==
    /\ At(t, "end") /\ call[t] = "sckt_open" /\ rslt[t] = "success"
    /\ asserted' = "streams"
    /\ UNCHANGED <<cmdVars, rxBffr, http, known, callVars, modVars, histVars>>

(* The caller has what was reported. *)
Return(t) ==
    /\ At(t, "return")
    /\ Goto(t, "idle")
    /\ last' = "none"
    /\ call' = [call EXCEPT ![t] = "file_close"]
    /\ step' = [step EXCEPT ![t] = 1]
    /\ rslt' = [rslt EXCEPT ![t] = "none"]
    /\ mine' = [mine EXCEPT ![t] = {}]
    /\ got'  = [c \in Cmds |-> IF c \in mine[t] THEN NoCmd ELSE got[c]]
    /\ disturbed' = [disturbed EXCEPT ![t] = FALSE]
    /\ misled' = misled \ {t}
    /\ UNCHANGED <<cmdVars, rxBffr, http, known, modVars, asserted, cmds, loose, owner, robber, calls>>

-----------------------------------------------------------------------------
(* The module.  It takes one text at a time and answers it in chunks that  *)
(* arrive one by one; the empty chunk is the data it waits for.            *)

P(k)        == Piece(k, 0, NoCmd)
Line(ks)    == [i \in DOMAIN ks |-> P(ks[i])]
Okay        == Line(<<"eol", "OK", "eol">>)
Refusal     == Line(<<"eol", "ERROR", "eol">>)
Prompt      == Line(<<"eol", "CONNECT", "eol">>)
Data        == <<>>
Info(pre)   == Line(<<"eol", pre, "tok", "dlm", "tok", "eol">>)
Items(n)    == [i \in 1..n |-> P("item")]
Position    == <<Line(<<"eol", "QGPSLOC", "tok", "dlm", "tok", "dlm", "tok", "dlm", "tok", "dlm", "tok">>),
                 Line(<<"dlm", "tok", "dlm", "tok", "dlm", "tok", "dlm", "tok", "dlm", "tok", "dlm", "tok", "eol">>)>>
Outcome(pre, err, status) ==
    IF err = 0 THEN <<P("eol"), P(pre), P("tok"), P("dlm"), Piece("tok", status, NoCmd), P("eol")>>
               ELSE <<P("eol"), P(pre), Piece("tok", err, NoCmd), P("eol")>>

Yes(chunks) == [good |-> TRUE, chunks |-> chunks]
No(chunks)  == [good |-> FALSE, chunks |-> chunks]
Replies(k) == {No(<<Refusal>>)} \cup
    CASE k = "list"    -> {Yes(<<Items(n), Okay>>) : n \in {1, 4}}
      [] k = "COPS"    -> {Yes(<<Items(4), Okay>>)}
      [] k = "QADC"    -> {Yes(<<Info("QADC"), Okay>>)}
      [] k = "QCFG"    -> {Yes(<<Info("QCFG"), Okay>>)}
      [] k = "QGPSLOC" -> {Yes(Append(Position, Okay)), Yes(<<Position[1] \o Position[2], Okay>>)}
      [] k = "ICCID"   -> {Yes(<<Line(<<"eol", "ICCID", "item", "eol">>), Okay>>)}
      [] k = "QIOPEN"  -> {Yes(<<Okay, Info("QIOPEN")>>), No(<<Okay, Outcome("QIOPEN", 0, 563)>>)}
      [] k = "QFWRITE" -> {Yes(<<Prompt, Data, Info("QFWRITE"), Okay>>), No(<<Prompt, Data, Refusal>>)}
      [] k = "QFREAD"  -> {Yes(<<Prompt, Items(1), Okay>>)}
      [] k = "QHTTPURL" -> {Yes(<<Prompt, Data, Okay>>), No(<<Prompt, Data, Refusal>>)}
      [] k = "QHTTPREAD" -> {Yes(<<Prompt, Items(1), Okay, Line(<<"eol", "QHTTPREAD", "tok", "eol">>)>>),
                             No(<<Prompt, Items(1), Okay, Outcome("QHTTPREAD", 3, 0)>>)}
      [] k \in {"QHTTPGET", "QHTTPGET+", "QHTTPPOST"} ->
            LET pre   == IF k = "QHTTPPOST" THEN k ELSE "QHTTPGET"
                first == IF k = "QHTTPGET" THEN <<Okay>> ELSE <<Prompt, Data, Okay>>
            IN  {Yes(Append(first, Outcome(pre, 0, 200))), No(Append(first, Outcome(pre, 0, 404))),
                 No(Append(first, Outcome(pre, 702, 0)))}
      [] OTHER -> {Yes(<<Okay>>)}

ModFrame == UNCHANGED <<cmdVars, http, known, callVars, asserted, histVars>>

Serve ==
    /\ out.chunks = <<>> /\ inbox # <<>>
    /\ inbox' = Tail(inbox)
    /\ LET text == Head(inbox)
       IN  IF text.k = "data" THEN UNCHANGED <<out, good>>
           ELSE \E reply \in Replies(text.k) :
                    /\ out' = [c |-> text.c, chunks |-> reply.chunks]
                    /\ good' = IF reply.good THEN good \cup {text.c} ELSE good
    /\ UNCHANGED <<rxBffr, answered>>
    /\ ModFrame

Emit ==
    /\ out.chunks # <<>> /\ Head(out.chunks) # Data
    /\ rxBffr' = rxBffr \o [i \in DOMAIN Head(out.chunks) |-> [Head(out.chunks)[i] EXCEPT !.c = out.c]]
    /\ out' = [out EXCEPT !.chunks = Tail(@)]
    /\ answered' = IF Len(out.chunks) = 1 THEN answered \cup {out.c} ELSE answered
    /\ UNCHANGED <<inbox, good>>
    /\ ModFrame

(* Whatever comes next is taken for the data; if nothing does, the module  *)
(* gives up.                                                               *)
TakeData ==
    /\ out.chunks # <<>> /\ Head(out.chunks) = Data
    /\ IF inbox # <<>>
       THEN /\ inbox' = Tail(inbox)
            /\ out' = [out EXCEPT !.chunks = Tail(@)]
            /\ good' = IF Head(inbox) = [k |-> "data", c |-> out.c] THEN good ELSE good \ {out.c}
       ELSE /\ out' = [out EXCEPT !.chunks = <<Refusal>>]
            /\ good' = good \ {out.c}
            /\ UNCHANGED inbox
    /\ UNCHANGED <<rxBffr, answered>>
    /\ ModFrame

Elapse ==
    /\ ~elapsed
    /\ elapsed' = TRUE
    /\ UNCHANGED <<isOpenLocked, autoLock, resultCode, rawResponse, retValue, parser, dataMode, rxBffr,
                   http, known, callVars, modVars, asserted, histVars>>

-----------------------------------------------------------------------------
Caller(t) ==
    \/ \E n \in CallsOf[t] : Call(t, n)
    \/ TryInvoke(t) \/ TakeLock(t) \/ SkipKnown(t) \/ WaitForLock(t) \/ InvokeReuseLock(t)
    \/ ReuseLockAssert(t) \/ AwaitAgain(t) \/ Refused(t)
    \/ ReadNothing(t) \/ ReadResult(t) \/ EnterDataMode(t) \/ DataSent(t) \/ DataTimeout(t)
    \/ FileStreamed(t) \/ PageStreamed(t) \/ ReadAgain(t) \/ AwaitReturns(t) \/ EndCall(t) \/ StreamAssert(t) \/ Return(t)

Next == (\E t \in Tasks : Caller(t)) \/ Serve \/ Emit \/ TakeData \/ Elapse

Spec == Init /\ [][Next]_vars

-----------------------------------------------------------------------------
(* Every variable has its type; the control block never records a result   *)
(* that is still pending.                                                  *)
TypeOK ==
    /\ {isOpenLocked, autoLock, elapsed} \subseteq BOOLEAN
    /\ resultCode \in Codes
    /\ dataMode.c \in 0..cmds
    /\ \A i \in DOMAIN rawResponse : rawResponse[i].c \in 1..cmds
    /\ \A i \in DOMAIN rxBffr : rxBffr[i].c \in 1..cmds
    /\ good \cup answered \cup loose \subseteq 0..cmds
    /\ known \subseteq {"GSN", "QGMR", "ATI", "ICCID"}
    /\ \A t \in Tasks : /\ rslt[t] \in Codes \cup {"unknown"}
                        /\ step[t] \in 1..(1 + Len(Script(t).cmds))
                        /\ mine[t] \subseteq 1..cmds
    /\ last \in Codes

(* A call that reports success did what it was called for: each command of *)
(* it was carried out, or its wait was ended, or its data handler started, *)
(* by what an earlier command left behind: one that failed or timed out,   *)
(* one of the four whose parser is satisfied before the response ends, or  *)
(* one whose wait was ended by such leftovers, or shared.  sckt_open()     *)
(* never sees the error of the connection, http_post() takes an error for  *)
(* a success, file_closeAll() looks at no result.                          *)
Returns(t, except) == pc[t] = "return" /\ ~disturbed[t] /\ call[t] \notin except
SuccessIsEarned ==
    \A t \in Tasks :
        Returns(t, {"sckt_open", "http_post", "file_closeAll"}) /\ last \in {"success", "true"} =>
            \A c \in mine[t] : IF got[c] = c THEN c \in good ELSE got[c] \in loose

(* A call that reports a failure has one: a command of it was refused, was *)
(* not answered in full while the call waited, or had its wait ended by an *)
(* earlier command's leftovers.  Not so file_write(), whose data handler   *)
(* drops the result it then waits for, file_read(), whose handler waits    *)
(* for six characters more than there are, and gpio_adcRead(), which looks *)
(* for a preamble that the parser took away: these three never succeed.    *)
Failure(code) == code \notin {"none", "success", "true", "undefined"}
FailureIsReal ==
    \A t \in Tasks :
        Returns(t, {"file_write", "file_read", "gpio_adcRead"}) /\ mine[t] # {} /\ Failure(last) =>
            \E c \in mine[t] : c \notin good \/ got[c] \notin {c, NoCmd}

(* Two commands are open at once only after a call has released a lock     *)
(* that another task held, in calls that go on without the lock, or in one *)
(* misled by another's result.  And only these calls release another's     *)
(* lock: they close without having it, wait without having it for a result *)
(* that releases it, or close once more after a failure has released it;   *)
(* or a call does that was given another one's result.                     *)
UnlockedCalls ==
    {"sckt_open", "file_write", "mdminfo_ltem", "ltem_setProviderScanMode", "ltem_setProviderScanSeq", "ltem_setIotMode"}
CarelessClosers == UnlockedCalls \cup
    {"file_getFSInfo", "file_getFilelist", "file_open", "mdmInfo_signalPercent", "mdminfo_signalRSSI",
     "mdminfo_signalBars", "tlsGetOptions", "NTWK_applyDefaulNetwork", "ntwk_setNetworkConfig",
     "ntwkDIAG_getProviders", "http_get", "http_post"}
CommandsExclusive ==
    /\ \A t, u \in Tasks : Open(t) /\ Open(u) /\ t # u =>
            robber # "none" \/ {call[t], call[u]} \cap UnlockedCalls # {} \/ {t, u} \cap misled # {}
    /\ robber \in CarelessClosers \cup {"none", "disturbed"}

(* The assertion that a sequence still has its lock fails only in one that *)
(* goes on after a failure, which released it, was robbed of the lock, or  *)
(* was misled: no other call's result takes the lock from a sequence.      *)
SequenceHasLock ==
    asserted = "isOpenLocked" =>
        \E t \in Tasks : pc[t] = "next" /\ (t \in misled \/ robber # "none" \/ call[t] = "mdminfo_ltem")

(* The other assertions of the command interface hold: the response has    *)
(* room for what answers one command, unless it is a list of files or      *)
(* providers, and a parser has its delimiters unless a data context is     *)
(* being activated.  (That of ltem_addStream() is StreamAssert.)           *)
OfOneCommand(text) == \A i, j \in DOMAIN text : text[i].c = text[j].c
AssertionsHold ==
    /\ asserted = "respBufferSz" => Has(rawResponse \o rxBffr, "item") \/ ~OfOneCommand(rawResponse \o rxBffr)
    /\ asserted = "pDelimeters" => \E t \in Tasks : call[t] \in {"ntwk_activateNetwork", "ntwk_deactivateNetwork"}
=============================================================================
