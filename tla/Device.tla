------------------------------- MODULE Device -------------------------------
(***************************************************************************)
(* Start, reset and stop of the modem: ltem_start(), ltem_reset() and      *)
(* ltem_stop() of ltemc.c with the power, reset and option functions of    *)
(* ltemc-quectel-bg.c, IOP_awaitAppReady() and the start of the SPI-UART   *)
(* bridge.  The module is an actor of its own: it takes its time to come   *)
(* up and go down, may restart by itself, ignore a pulse of the power key, *)
(* and be stuck in a data state.  Start-up ends in module Network.         *)
(*                                                                         *)
(* resetAction_t is in no header of the repository; its values are those   *)
(* the code uses.                                                          *)
(***************************************************************************)
EXTENDS Network

CONSTANTS
    ResetActions,   \* reset actions the application uses, a subset of AllActions
    MaxCalls,       \* bound on the calls of the application
    MaxRestarts,    \* bound on the restarts the module makes by itself
    MaxText,        \* bound on the texts the module sends before APP RDY
    ReadyBuf        \* texts that fill the buffer of IOP_awaitAppReady()

AllActions == {"skipIfOn", "swReset", "hwReset", "powerReset"}

ASSUME DeviceAssumption ==
    /\ ResetActions \subseteq AllActions
    /\ MaxCalls \in Nat /\ MaxRestarts \in Nat /\ MaxText \in Nat /\ ReadyBuf \in Nat \ {0}

VARIABLES
    deviceState,                    \* g_lqLTEM.deviceState
    scanMode,                       \* g_lqLTEM.modemSettings
    pc, call, resetAction,          \* where the application is, in which call
    ltemReset, initError, tries, cmdIndx, \* locals of ltem_start(), QBG_setOptions()
    readyText,                      \* texts IOP_awaitAppReady() has in its buffer
    module, stuck,                  \* module: what it is doing; in a data state
    config, moduleScan,             \* module: options it has, scan mode (kept when off)
    bridge, irqOn, fifo,            \* bridge: off, raw or set; interrupts on; texts received
    calls, restarts, texts,         \* bounds
    rose, lost, gaveUp,             \* history: see the properties that use them
    assumed, unseen, sawRising, wanted, unconfirmed

initVars    == <<initError, tries, cmdIndx, readyText>>
locals      == <<call, resetAction, ltemReset, initVars>>
stateVars   == <<deviceState, assumed, unseen, sawRising>>
settingVars == <<scanMode, moduleScan, wanted, unconfirmed>>
bridgeVars  == <<bridge, irqOn, fifo>>
powerVars   == <<module, stuck, config, bridgeVars, restarts, texts, lost>>
devVars == <<pc, locals, stateVars, settingVars, powerVars, calls, rose, gaveUp>>
vars    == <<devVars, netVars>>

powerOff == 0
powerOn  == 1
appReady == 2

(* off; rising (powered, status pin low); boot (pin high); run (APP RDY    *)
(* sent); falling (pin still high); restarting (AT+CFUN taken); held by    *)
(* the reset pin.                                                          *)
StatusPin == module \in {"boot", "run", "falling", "restarting"}

(* The bridge has the module's power, and after power-up no settings. *)
Init ==
    /\ NetInit
    /\ deviceState = powerOff /\ scanMode = 0
    /\ pc = "idle" /\ call = "none" /\ resetAction = "skipIfOn"
    /\ ltemReset = FALSE /\ initError = FALSE /\ tries = 0 /\ cmdIndx = 0 /\ readyText = 0
    /\ module \in {"off", "boot", "run"} /\ stuck \in {FALSE, module = "run"}
    /\ config = {} /\ moduleScan \in {0, 1}
    /\ bridge = (IF module = "off" THEN "off" ELSE "raw") /\ irqOn = FALSE /\ fifo = <<>>
    /\ calls = 0 /\ restarts = 0 /\ texts = 0
    /\ rose = FALSE /\ lost = FALSE /\ gaveUp = FALSE
    /\ assumed = FALSE /\ unseen = FALSE /\ sawRising = FALSE /\ wanted = 0 /\ unconfirmed = FALSE

-----------------------------------------------------------------------------
(* QBG_isPowerOn(), which every look at the status pin goes through, and   *)
(* ltem_getDeviceState(): deviceState rises to powerOn or falls to         *)
(* powerOff.                                                               *)
Sampled == IF ~StatusPin THEN powerOff ELSE IF deviceState = powerOff THEN powerOn ELSE deviceState
Sample ==
    /\ deviceState' = Sampled
    /\ assumed' = (assumed /\ StatusPin) /\ unseen' = (unseen /\ StatusPin)
    /\ sawRising' = IF StatusPin THEN sawRising ELSE module = "rising"

(* The library takes the module for ready without its word. *)
Assume == deviceState' = appReady /\ assumed' = TRUE /\ UNCHANGED <<unseen, sawRising>>

At(p) == pc = p
Go(p) == pc' = p

(* What a pulse of the power key can do, by its end. *)
PulseEffect(m) == CASE m = "off"        -> {"off", "rising"}
                    [] m = "boot"       -> {"boot", "falling"}
                    [] m = "run"        -> {"run", "falling"}
                    [] m = "restarting" -> {"restarting", "falling"}
                    [] OTHER            -> {m}

Pulse ==
    /\ module' \in PulseEffect(module)
    /\ UNCHANGED <<stuck, config, bridgeVars, restarts, texts, lost, rose>>

(* A command: sent over a bridge that is set up, answered by a module that *)
(* is not stuck.                                                           *)
Answers == module \in {"boot", "run"} /\ ~stuck /\ bridge = "set" /\ irqOn

(* A command that fails was refused or timed out; a time-out looks at the  *)
(* device state.                                                           *)
FailLooks == Sample \/ (Answers /\ UNCHANGED stateVars)

-----------------------------------------------------------------------------
(* Calls of the application.  ltem_reset() hands its bool on as a          *)
(* resetAction_t: any action may come of it.                               *)
Enter(c, p) == /\ At("idle") /\ calls < MaxCalls /\ calls' = calls + 1
               /\ call' = c /\ Go(p) /\ rose' = FALSE /\ gaveUp' = FALSE

EnterReset(c, p, reset) ==
    /\ \E a \in ResetActions : resetAction' = a
    /\ Enter(c, p) /\ ltemReset' = reset
    /\ UNCHANGED <<initVars, stateVars, settingVars, powerVars, netVars>>

Start == EnterReset("ltem_start", "start", TRUE)
Reset == EnterReset("ltem_reset", "reset", FALSE)

Stop ==
    /\ Enter("ltem_stop", "powerOff")
    /\ irqOn' = FALSE /\ deviceState' = powerOff
    /\ UNCHANGED <<resetAction, ltemReset, initVars, assumed, unseen, sawRising, settingVars, netVars,
                   module, stuck, config, bridge, fifo, restarts, texts, lost>>

(* ltem_setProviderScanMode(), for the three settings: kept, and sent if   *)
(* the module is ready.  Mutant: kept only then.                           *)
KeptIfReady(m) == IF Sampled = appReady THEN m ELSE scanMode
Kept(m)        == m

SetScanMode(m) ==
    /\ Enter("ltem_setProviderScanMode", IF Sampled = appReady THEN "setting" ELSE "idle")
    /\ Sample /\ scanMode' = Kept(m) /\ wanted' = m /\ unconfirmed' = TRUE
    /\ UNCHANGED <<resetAction, ltemReset, initVars, moduleScan, powerVars, netVars>>

CallAwaitProvider ==
    /\ Enter("ntwk_awaitProvider", "provider") /\ step' = "clear"
    /\ UNCHANGED <<resetAction, ltemReset, initVars, stateVars, settingVars, powerVars,
                   tableVars, answer, ntwk, cancelVars, contextVars>>

(* Another task, or the application's yield callback, asks for the state.  *)
Yields == {"idle", "waitOff", "waitOn", "offWait", "onWait", "appReady", "options", "clear", "setting", "provider"}
GetDeviceState == pc \in Yields /\ Sample
                  /\ UNCHANGED <<pc, locals, settingVars, powerVars, calls, rose, gaveUp, netVars>>

-----------------------------------------------------------------------------
(* Most steps inside a call leave all of this alone.                       *)
Inside == UNCHANGED <<call, calls, ltemReset, settingVars, netVars, rose>>
Plain  == Inside /\ UNCHANGED <<resetAction, initVars, gaveUp>>
Looks(p) == Plain /\ Go(p) /\ Sample /\ UNCHANGED powerVars

(* ltem_start(): pins and SPI, then what the module's power calls for. *)
StartTest ==
    /\ At("start") /\ Sample /\ Go(IF ~StatusPin THEN "powerOn"
                                   ELSE IF resetAction = "skipIfOn" THEN "init"
                                   ELSE IF resetAction = "swReset" THEN "testBridge" ELSE "reset")
    /\ ltemReset' = (~StatusPin \/ resetAction # "skipIfOn")
    /\ UNCHANGED <<call, calls, resetAction, initVars, settingVars, powerVars, rose, gaveUp, netVars>>

(* SC16IS7xx_isAvailable(): a bridge without power never answers. *)
BridgeStart == /\ bridge' = (IF bridge = "off" THEN "off" ELSE "set") /\ irqOn' = FALSE /\ fifo' = <<>>
               /\ UNCHANGED <<module, stuck, config, restarts, texts>>

TestBridge ==
    /\ At("testBridge") /\ Go("reset")
    /\ \/ bridge # "off" /\ UNCHANGED resetAction
       \/ resetAction' = "powerReset"
    /\ BridgeStart
    /\ Inside /\ UNCHANGED <<initVars, gaveUp, stateVars, lost>>

(* QBG_reset() *)
ResetTest ==
    /\ At("reset")
    /\ \/ resetAction = "swReset" /\ Looks(IF StatusPin THEN "cfun" ELSE "powerOff")
       \/ /\ resetAction # "swReset" /\ Go(IF resetAction = "hwReset" THEN "pin" ELSE "powerOff")
          /\ Plain /\ UNCHANGED <<stateVars, powerVars>>

(* AT+CFUN=1,1: taken as data by a stuck module, and lost on a bridge that *)
(* is not set up.                                                          *)
SendCfun ==
    /\ At("cfun") /\ Go("waitOff")
    /\ \/ module \in {"boot", "run"} /\ ~stuck /\ bridge = "set" /\ module' = "restarting"
       \/ UNCHANGED module
    /\ Plain /\ UNCHANGED <<stateVars, stuck, config, bridgeVars, restarts, texts, lost>>

SeenOff == At("waitOff") /\ Looks(IF StatusPin THEN "waitOff" ELSE "waitOn")
SeenOn  == At("waitOn")  /\ Looks(IF StatusPin THEN "init" ELSE "waitOn")

(* 3 s later: the module is power-cycled instead.  Mutant: it is not. *)
AfterOffTimeout == "init"
OffTimeoutGoes  == "powerOff"
OffTimeout == /\ At("waitOff") /\ StatusPin /\ Sample /\ Go(OffTimeoutGoes)
              /\ resetAction' = "powerReset"
              /\ Inside /\ UNCHANGED <<initVars, gaveUp, powerVars>>
OnTimeout  == At("waitOn") /\ ~StatusPin /\ Looks("init")

(* The pin goes low: what the module and the bridge had is gone. *)
Down(m) == /\ module' = m /\ stuck' = FALSE /\ config' = {} /\ texts' = 0 /\ lost' = TRUE /\ unseen' = TRUE
           /\ bridge' = "off" /\ irqOn' = FALSE /\ fifo' = <<>>

PinHigh ==
    /\ At("pin") /\ Go("pinLow") /\ Plain
    /\ \/ module # "off" /\ Down("held") /\ UNCHANGED <<restarts, deviceState, assumed, sawRising>>
       \/ module = "off" /\ UNCHANGED <<powerVars, stateVars>>

PinLow ==
    /\ At("pinLow") /\ Go("init") /\ Plain
    /\ module' = IF module = "held" THEN "rising" ELSE module
    /\ UNCHANGED <<stateVars, stuck, config, bridgeVars, restarts, texts, lost>>

(* QBG_powerOff().  Mutant: a failure leaves the state off. *)
AfterPowerOff == IF call = "ltem_stop" THEN "idle" ELSE "powerOn"
PowerOffTest  == At("powerOff") /\ Looks(IF StatusPin THEN "offKey" ELSE AfterPowerOff)
OffKey  == At("offKey") /\ Go("offWait") /\ Plain /\ Pulse /\ UNCHANGED stateVars
OffSeen == At("offWait") /\ Looks(IF StatusPin THEN "offWait" ELSE AfterPowerOff)

FailedIsOff   == powerOff
FailedPowerOff == Sampled
OffFailed ==
    /\ At("offWait") /\ StatusPin /\ Go(AfterPowerOff)
    /\ deviceState' = FailedPowerOff /\ gaveUp' = TRUE
    /\ Inside /\ UNCHANGED <<resetAction, initVars, powerVars, assumed, unseen, sawRising>>

(* QBG_powerOn().  A module found on has sent APP RDY before, it is        *)
(* assumed.  Mutants: on is ready; the wait has no end.                    *)
PowerOnTest ==
    \/ At("powerOn") /\ ~StatusPin /\ Looks("onKey")
    \/ At("powerOn") /\ StatusPin /\ Go("init") /\ Assume /\ Plain /\ UNCHANGED powerVars
OnKey  == At("onKey") /\ Go("onWait") /\ Plain /\ Pulse /\ UNCHANGED stateVars

OnIsReady == appReady
StateOn   == powerOn
OnSeen ==
    \/ At("onWait") /\ ~StatusPin /\ Looks("onWait")
    \/ /\ At("onWait") /\ StatusPin /\ Go("init") /\ deviceState' = StateOn /\ assumed' = FALSE
       /\ Plain /\ UNCHANGED <<powerVars, unseen, sawRising>>

EndlessWait == FALSE
WaitSpent   == TRUE
OnFailed == At("onWait") /\ ~StatusPin /\ WaitSpent /\ Looks("init")

-----------------------------------------------------------------------------
(* S__initLTEmDevice().  An assertion that fails stops the host. *)
InitPower == At("init") /\ Looks(IF StatusPin THEN "bridge" ELSE "halt")

InitBridge ==
    \/ /\ At("bridge") /\ bridge # "off" /\ BridgeStart /\ lost' = FALSE
       /\ readyText' = 0 /\ Go(IF ltemReset THEN "appReady" ELSE "irq")
       /\ IF ltemReset THEN UNCHANGED stateVars ELSE Assume
       /\ Inside /\ UNCHANGED <<resetAction, initError, tries, cmdIndx, gaveUp>>
    \/ At("bridge") /\ Go("halt") /\ Plain /\ UNCHANGED <<stateVars, powerVars>>

(* IOP_awaitAppReady().  What does not fit the buffer is never read. *)
ReadReady ==
    /\ At("appReady") /\ fifo # <<>> /\ readyText + Len(fifo) < ReadyBuf
    /\ fifo' = <<>> /\ readyText' = readyText + Len(fifo)
    /\ IF "APP_RDY" \in Range(fifo)
       THEN Go("irq") /\ deviceState' = appReady /\ assumed' = FALSE /\ unseen' = FALSE /\ UNCHANGED sawRising
       ELSE UNCHANGED <<pc, stateVars>>
    /\ Inside /\ UNCHANGED <<resetAction, initError, tries, cmdIndx, gaveUp,
                             module, stuck, config, bridge, irqOn, restarts, texts, lost>>

ReadyTimeout ==
    /\ At("appReady") /\ Go("irq") /\ Plain /\ UNCHANGED powerVars
    /\ IF deviceState = powerOn THEN Assume ELSE UNCHANGED stateVars

EnableIrq ==
    /\ At("irq") /\ Go("options") /\ irqOn' = (bridge = "set")
    /\ initError' = FALSE /\ tries' = 1 /\ cmdIndx' = 1
    /\ resetAction' = "skipIfOn" /\ readyText' = 0      \* their functions have returned
    /\ Inside /\ UNCHANGED <<gaveUp, stateVars,
                             module, stuck, config, bridge, fifo, restarts, texts, lost>>

(* QBG_setOptions(): initError is set once and for all, so that a pass     *)
(* without a failure after one with a failure hangs like two failures.     *)
(* Mutants: passes without end; the caller goes on after the last.         *)
InitCmds == <<"ATE0", "QURCCFG">>
EveryPass(t)   == TRUE
AnotherPass(t) == t = 1
GoesOn    == "setting"
PassesEnd == "hang"

Taken == \/ Answers /\ config' = config \cup {InitCmds[cmdIndx]}
         \/ UNCHANGED config
OptionQuiet == Inside /\ UNCHANGED <<resetAction, readyText, gaveUp, module, bridgeVars, restarts, texts, lost>>

OptionOk ==
    /\ At("options") /\ Answers /\ config' = config \cup {InitCmds[cmdIndx]}
    /\ IF cmdIndx < Len(InitCmds) THEN cmdIndx' = cmdIndx + 1 /\ UNCHANGED <<pc, tries>>
       ELSE IF initError THEN Go("clear") /\ UNCHANGED <<cmdIndx, tries>>
       ELSE Go("setting") /\ cmdIndx' = 0 /\ tries' = 0
    /\ OptionQuiet /\ UNCHANGED <<initError, stateVars, stuck>>

OptionFails ==
    /\ At("options") /\ Taken /\ FailLooks /\ initError' = TRUE /\ Go("clear")
    /\ OptionQuiet /\ UNCHANGED <<tries, cmdIndx, stuck>>

(* QBG_clearDataState(): the escape ends a data state; what AT is answered *)
(* is only told to the application.                                        *)
ClearDataState ==
    /\ At("clear")
    /\ stuck' \in {stuck, stuck /\ bridge # "set"}
    /\ Sample \/ (~stuck' /\ UNCHANGED stateVars)
    /\ IF AnotherPass(tries) THEN Go("options") /\ tries' = tries + 1 /\ cmdIndx' = 1
       ELSE Go(PassesEnd) /\ tries' = 0 /\ cmdIndx' = 0
    /\ OptionQuiet /\ UNCHANGED <<initError, config>>

(* A setting: in start-up only if the module is ready (NTWK_initRatOptions *)
(* calls the functions of the application); results are ignored.           *)
AfterSetting == IF call = "ltem_setProviderScanMode" THEN "idle" ELSE "network"
SettingQuiet == /\ UNCHANGED <<call, calls, ltemReset, resetAction, initVars, netVars, powerVars, rose, gaveUp,
                               scanMode, wanted>>
                /\ Go(AfterSetting)

SettingSkipped == /\ At("setting") /\ call # "ltem_setProviderScanMode" /\ Sampled # appReady
                  /\ Sample /\ unconfirmed' = TRUE /\ UNCHANGED moduleScan /\ SettingQuiet
SettingOk    == /\ At("setting") /\ Answers /\ deviceState = appReady
                /\ moduleScan' = scanMode /\ unconfirmed' = FALSE /\ UNCHANGED stateVars /\ SettingQuiet
SettingFails == /\ At("setting") /\ (call = "ltem_setProviderScanMode" \/ Sampled = appReady)
                /\ moduleScan' \in {moduleScan} \cup (IF Answers THEN {scanMode} ELSE {})
                /\ unconfirmed' = TRUE /\ FailLooks /\ SettingQuiet

(* NTWK_applyDefaulNetwork(), one command, then ntwk_awaitProvider(2). *)
ApplyNetwork ==
    /\ At("network") /\ Go("provider") /\ step' = "clear" /\ FailLooks
    /\ UNCHANGED <<locals, settingVars, powerVars, calls, rose, gaveUp, tableVars, answer, ntwk, cancelVars, contextVars>>

Provider ==
    /\ At("provider") /\ ProviderStep(Answers)
    /\ Sample \/ UNCHANGED stateVars
    /\ UNCHANGED <<pc, locals, settingVars, powerVars, calls, rose, gaveUp>>

Return == At("provider") /\ step = "off" /\ Go("idle") /\ Plain /\ UNCHANGED <<stateVars, powerVars>>

(* A host that has stopped is reset; the module is not. *)
HostReset ==
    /\ pc \in {"halt", "hang"}
    /\ Go("idle") /\ call' = "none" /\ deviceState' = powerOff
    /\ scanMode' = 0 /\ wanted' = 0 /\ unconfirmed' = FALSE /\ irqOn' = FALSE
    /\ assumed' = FALSE /\ unseen' = FALSE
    /\ providerName' = FALSE /\ networks' = [i \in 1..TableSize |-> NoEntry] /\ networkCnt' = 0
    /\ UNCHANGED <<resetAction, ltemReset, initVars, sawRising, moduleScan, calls, rose, gaveUp,
                   module, stuck, config, bridge, fifo, restarts, texts, lost,
                   step, answer, ntwk, cancelVars, contextVars>>

-----------------------------------------------------------------------------
(* The module. *)
ModuleQuiet == UNCHANGED <<pc, locals, settingVars, calls, gaveUp, deviceState, assumed, sawRising, netVars>>

Rise == /\ module = "rising" /\ module' = "boot" /\ bridge' = "raw" /\ rose' = TRUE
        /\ ModuleQuiet /\ UNCHANGED <<stuck, config, irqOn, fifo, restarts, texts, lost, unseen>>

(* Characters reach the FIFO of a bridge that is set up; with interrupts   *)
(* on they go on to the receive buffer, which modules Iop and AtCmd model. *)
Receives(t) == fifo' = IF bridge = "set" /\ ~irqOn THEN Append(fifo, t) ELSE fifo
BootText == /\ module = "boot" /\ texts < MaxText /\ texts' = texts + 1 /\ Receives("text")
            /\ ModuleQuiet /\ UNCHANGED <<module, stuck, config, bridge, irqOn, restarts, lost, unseen, rose>>
Ready    == /\ module = "boot" /\ module' = "run" /\ Receives("APP_RDY")
            /\ ModuleQuiet /\ UNCHANGED <<stuck, config, bridge, irqOn, restarts, texts, lost, unseen, rose>>

Fall    == module = "falling" /\ Down("off") /\ ModuleQuiet /\ UNCHANGED <<restarts, rose>>
Restart == module = "restarting" /\ Down("rising") /\ ModuleQuiet /\ UNCHANGED <<restarts, rose>>
SelfRestart == /\ module \in {"boot", "run"} /\ restarts < MaxRestarts /\ restarts' = restarts + 1
               /\ Down("rising") /\ ModuleQuiet /\ UNCHANGED rose

Module == Rise \/ BootText \/ Ready \/ Fall \/ Restart \/ SelfRestart

Environment == /\ NetEnvironment /\ At("provider")
               /\ UNCHANGED devVars

Calls == Start \/ Reset \/ Stop \/ (\E m \in {0, 1} : SetScanMode(m)) \/ CallAwaitProvider \/ GetDeviceState
Library ==
    \/ StartTest \/ TestBridge \/ ResetTest \/ SendCfun \/ SeenOff \/ SeenOn \/ OffTimeout \/ OnTimeout
    \/ PinHigh \/ PinLow \/ PowerOffTest \/ OffKey \/ OffSeen \/ OffFailed \/ PowerOnTest \/ OnKey \/ OnSeen \/ OnFailed
    \/ InitPower \/ InitBridge \/ ReadReady \/ ReadyTimeout \/ EnableIrq
    \/ OptionOk \/ OptionFails \/ ClearDataState \/ SettingSkipped \/ SettingOk \/ SettingFails
    \/ ApplyNetwork \/ Provider \/ Return

Next == Calls \/ Library \/ HostReset \/ Module \/ Environment
Spec == Init /\ [][Next]_vars

(* The host runs, its clock advances, and a cancellation is withdrawn: by  *)
(* then a wait has ended.  The module owes nothing.                        *)
Fairness ==
    /\ WF_vars(Library) /\ WF_vars(OffTimeout) /\ WF_vars(OnTimeout) /\ WF_vars(OffFailed)
    /\ WF_vars(OnFailed) /\ WF_vars(ReadyTimeout)
    /\ WF_vars(At("provider") /\ GiveUpProvider /\ UNCHANGED devVars)
    /\ WF_vars(Withdraw /\ At("provider") /\ UNCHANGED devVars)
LiveSpec == Spec /\ Fairness

-----------------------------------------------------------------------------
TypeOK ==
    /\ NetTypeOK
    /\ deviceState \in {powerOff, powerOn, appReady} /\ {scanMode, moduleScan, wanted} \subseteq {0, 1}
    /\ pc \in Yields \cup {"start", "testBridge", "reset", "cfun", "pin", "pinLow", "powerOff", "offKey", "powerOn",
                           "onKey", "init", "bridge", "irq", "network", "halt", "hang"}
    /\ call \in {"none", "ltem_start", "ltem_reset", "ltem_stop", "ltem_setProviderScanMode", "ntwk_awaitProvider"}
    /\ resetAction \in AllActions /\ tries \in 0..2 /\ cmdIndx \in 0..Len(InitCmds)
    /\ {ltemReset, initError, stuck, irqOn, rose, lost, gaveUp, assumed, unseen, sawRising, unconfirmed}
           \subseteq BOOLEAN
    /\ readyText \in 0..ReadyBuf /\ texts \in 0..MaxText /\ Len(fifo) <= MaxText + 1
    /\ module \in {"off", "rising", "boot", "run", "falling", "restarting", "held"}
    /\ config \subseteq Range(InitCmds) /\ bridge \in {"off", "raw", "set"}
    /\ calls \in 0..MaxCalls /\ restarts \in 0..MaxRestarts

(* When ltem_start() or ltem_reset() has returned, the module has taken    *)
(* every initial option, the bridge is set up and its interrupts are on,   *)
(* unless the module went down after the bridge was started.               *)
Initialized ==
    At("idle") /\ call \in {"ltem_start", "ltem_reset"} /\ ~lost
        => config = Range(InitCmds) /\ bridge = "set" /\ irqOn

(* A start or reset that was to restart the module and has returned, has:  *)
(* the module came up during the call, whichever of the resets was taken   *)
(* and whatever state it was in, unless 61 looks found it still on after   *)
(* the pulse of the power key (gaveUp).                                    *)
ResetRestarts ==
    At("idle") /\ (call = "ltem_reset" \/ (call = "ltem_start" /\ ltemReset)) => rose \/ gaveUp

(* deviceState is appReady only if the module has sent APP RDY since it    *)
(* came up, or the code has assumed so (a module found on, a time-out,     *)
(* ltem_reset()), or it went down and nobody has looked since.             *)
AppReadyWasSaid ==
    deviceState = appReady => module \in {"run", "falling", "restarting"} \/ assumed \/ unseen

(* The module has the scan mode the application asked for last, stored     *)
(* before the start or sent after it, once a ready module has confirmed.   *)
SettingsAgree == At("idle") /\ deviceState = appReady /\ ~unconfirmed => moduleScan = wanted

(* After ltem_stop(), a state of off means that the module is off and will *)
(* stay so, unless it was on its way up when it was looked at.             *)
StoppedIsOff == At("idle") /\ call = "ltem_stop" /\ deviceState = powerOff /\ ~sawRising => module = "off"

(* ntwk_awaitProvider() stores with a context an address that was given to *)
(* that context, whatever the network does between its commands.           *)
AddressOfContext ==
    \A i \in 1..TableSize : networks[i].ipAddress > 0 => given[networks[i].ipAddress] = networks[i].pdpContextId

(* Once the count is set, the application finds exactly those contexts in  *)
(* use in the table that the module answered are, as far as its lines fit  *)
(* the table, and none if it did not answer; and rows behind the table are *)
(* gone through or counted only if the module answered with more lines.    *)
TableMatchesAnswer ==
    /\ ntwk_getActiveNetworkCount > 0 =>
           \A c \in Contexts : \A row \in ntwk_getNetworkInfo(c) \ {Behind} :
               (row # NULL /\ networks[row].isActive)
                   <=> \E n \in DOMAIN answer : n <= TableSize /\ answer[n] = [id |-> c, isActive |-> TRUE]
    /\ Behind \in {ntwk.count, networkCnt} => Len(answer) > TableSize

(* A task that reads the table while it is being filled sees none of it.   *)
TableWhole == networkCnt > 0 => step \in {"off", "clear"}

(* Every call of start, reset, stop and the others returns, or the host is *)
(* stopped by an assertion or hangs where the code gives up for good.      *)
CallEnds == ~At("idle") ~> pc \in {"idle", "halt", "hang"}
=============================================================================
