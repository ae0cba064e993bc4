---------------------------- MODULE DeviceProofs ----------------------------
(***************************************************************************)
(* Theorems about Device itself: the types, and the start, reset and stop  *)
(* of the modem, for every set of reset actions and every bound.           *)
(***************************************************************************)
EXTENDS NetworkProofs

-----------------------------------------------------------------------------
(* The types, in three parts: the calls, what the library believes, and    *)
(* the module with its bridge.  The FIFO of the bridge holds at most what  *)
(* the module has sent since it came up: boot texts and one APP RDY.       *)
PCs == Yields \cup {"start", "testBridge", "reset", "cfun", "pin", "pinLow", "powerOff", "offKey", "powerOn",
                    "onKey", "init", "bridge", "irq", "network", "halt", "hang"}
CallNames == {"none", "ltem_start", "ltem_reset", "ltem_stop", "ltem_setProviderScanMode", "ntwk_awaitProvider"}
Modules   == {"off", "rising", "boot", "run", "falling", "restarting", "held"}

CallType ==
    /\ pc \in PCs /\ call \in CallNames /\ resetAction \in AllActions
    /\ tries \in 0..2 /\ cmdIndx \in 0..2 /\ readyText \in 0..ReadyBuf /\ calls \in 0..MaxCalls
    /\ ltemReset \in BOOLEAN /\ initError \in BOOLEAN /\ rose \in BOOLEAN /\ gaveUp \in BOOLEAN
    /\ pc = "options" => cmdIndx \in 1..2

StateType ==
    /\ deviceState \in {powerOff, powerOn, appReady}
    /\ scanMode \in {0, 1} /\ moduleScan \in {0, 1} /\ wanted \in {0, 1} /\ unconfirmed \in BOOLEAN
    /\ assumed \in BOOLEAN /\ unseen \in BOOLEAN /\ sawRising \in BOOLEAN

PowerType ==
    /\ module \in Modules /\ config \subseteq {"ATE0", "QURCCFG"}
    /\ stuck \in BOOLEAN /\ irqOn \in BOOLEAN /\ lost \in BOOLEAN
    /\ bridge \in {"off", "raw", "set"} /\ restarts \in 0..MaxRestarts /\ texts \in 0..MaxText

Held == /\ fifo \in Seq({"text", "APP_RDY"})
        /\ module \in {"off", "rising", "held"} => fifo = <<>>
        /\ Len(fifo) <= IF module = "boot" THEN texts ELSE texts + 1

TypeInv == NetInv /\ CallType /\ StateType /\ PowerType /\ Held

LEMMA CmdFacts ==
    /\ InitCmds[1] = "ATE0" /\ InitCmds[2] = "QURCCFG" /\ Len(InitCmds) = 2
    /\ Range(InitCmds) = {"ATE0", "QURCCFG"}
<1>1. InitCmds[1] = "ATE0" /\ InitCmds[2] = "QURCCFG" /\ Len(InitCmds) = 2 /\ DOMAIN InitCmds = {1, 2}
  BY DEF InitCmds
<1> QED BY <1>1 DEF Range

LEMMA TypeInvOK == TypeInv => TypeOK
<1> SUFFICES ASSUME TypeInv PROVE TypeOK
  OBVIOUS
<1>1. Len(fifo) <= MaxText + 1
  <2>1. Len(fifo) \in Nat /\ texts \in 0..MaxText /\ MaxText \in Nat
    BY DeviceAssumption DEF TypeInv, Held, PowerType
  <2> QED BY <2>1 DEF TypeInv, Held
<1>2. /\ {ltemReset, initError, stuck, irqOn, rose, lost, gaveUp, assumed, unseen, sawRising, unconfirmed}
             \subseteq BOOLEAN
      /\ {scanMode, moduleScan, wanted} \subseteq {0, 1}
  BY DEF TypeInv, CallType, StateType, PowerType
<1> QED
  BY <1>1, <1>2, CmdFacts
  DEF TypeInv, NetInv, CallType, StateType, PowerType, PCs, CallNames, Modules, TypeOK

LEMMA TypeInit == Init => TypeInv
<1> SUFFICES ASSUME Init PROVE TypeInv
  OBVIOUS
<1>1. CallType
  <2>1. 0 \in 0..ReadyBuf /\ 0 \in 0..MaxCalls
    BY DeviceAssumption
  <2>2. /\ pc = "idle" /\ call = "none" /\ resetAction = "skipIfOn" /\ tries = 0 /\ cmdIndx = 0 /\ readyText = 0
        /\ calls = 0 /\ ltemReset = FALSE /\ initError = FALSE /\ rose = FALSE /\ gaveUp = FALSE
    BY DEF Init
  <2>3. pc \in PCs /\ call \in CallNames /\ resetAction \in AllActions /\ pc # "options"
    BY <2>2 DEF PCs, Yields, CallNames, AllActions
  <2>4. tries \in 0..2 /\ cmdIndx \in 0..2 /\ readyText \in 0..ReadyBuf /\ calls \in 0..MaxCalls
    BY <2>1, <2>2
  <2>5. ltemReset \in BOOLEAN /\ initError \in BOOLEAN /\ rose \in BOOLEAN /\ gaveUp \in BOOLEAN
    BY <2>2
  <2> QED BY <2>3, <2>4, <2>5 DEF CallType
<1>2. StateType
  BY DEF Init, StateType
<1>3. PowerType
  <2>1. 0 \in 0..MaxRestarts /\ 0 \in 0..MaxText
    BY DeviceAssumption
  <2> QED BY <2>1 DEF Init, PowerType, Modules
<1>4. Held
  BY DEF Init, Held
<1> QED BY <1>1, <1>2, <1>3, <1>4, NetInit0 DEF TypeInv

(* What the library believes. *)
LEMMA SampleType ==
    ASSUME StateType, Sample
    PROVE  /\ deviceState' \in {powerOff, powerOn, appReady}
           /\ assumed' \in BOOLEAN /\ unseen' \in BOOLEAN /\ sawRising' \in BOOLEAN
<1>1. deviceState' \in {powerOff, powerOn, appReady}
  BY DEF Sample, Sampled, StateType
<1>2. assumed' \in BOOLEAN /\ unseen' \in BOOLEAN /\ sawRising' \in BOOLEAN
  BY DEF Sample, StateType
<1> QED BY <1>1, <1>2

LEMMA StateTypeStep ==
    ASSUME StateType, [Next]_vars PROVE StateType'
<1> DEFINE Believes == /\ deviceState' \in {powerOff, powerOn, appReady}
                       /\ assumed' \in BOOLEAN /\ unseen' \in BOOLEAN /\ sawRising' \in BOOLEAN
           Settings == /\ scanMode' \in {0, 1} /\ moduleScan' \in {0, 1} /\ wanted' \in {0, 1}
                       /\ unconfirmed' \in BOOLEAN
<1>0. SUFFICES Believes /\ Settings
  BY DEF StateType
<1>1. /\ Sample => Believes
      /\ Assume => Believes
      /\ UNCHANGED stateVars => Believes
  <2>1. Assume => Believes
    BY DEF Assume, StateType
  <2>2. UNCHANGED stateVars => Believes
    BY DEF stateVars, StateType
  <2> QED BY <2>1, <2>2, SampleType
<1>2. UNCHANGED settingVars => Settings
  BY DEF settingVars, StateType
<1> HIDE DEF Believes, Settings
<1>3. CASE Calls
  <2>1. CASE Start \/ Reset \/ CallAwaitProvider \/ GetDeviceState
    BY <1>1, <1>2, <2>1 DEF Start, Reset, EnterReset, CallAwaitProvider, GetDeviceState
  <2>2. CASE Stop
    <3>1. Believes
      BY <2>2 DEF Stop, Believes, StateType
    <3> QED BY <1>2, <2>2, <3>1 DEF Stop
  <2>3. ASSUME NEW m \in {0, 1}, SetScanMode(m) PROVE Believes /\ Settings
    <3>1. Settings
      BY <2>3 DEF SetScanMode, Kept, Settings, StateType
    <3> QED BY <1>1, <2>3, <3>1 DEF SetScanMode
  <2> QED BY <1>3, <2>1, <2>2, <2>3 DEF Calls
<1>4. CASE Library
  <2>1. CASE SettingSkipped \/ SettingOk \/ SettingFails
    <3>1. Settings
      BY <2>1 DEF SettingSkipped, SettingOk, SettingFails, SettingQuiet, Settings, StateType
    <3> QED BY <1>1, <2>1, <3>1 DEF SettingSkipped, SettingOk, SettingFails, FailLooks
  <2>2. CASE PinHigh \/ OffFailed \/ OnSeen \/ ReadReady
    <3>1. Settings
      BY <1>2, <2>2 DEF PinHigh, OffFailed, OnSeen, ReadReady, Looks, Plain, Inside
    <3>2. CASE PinHigh
      <4>1. UNCHANGED stateVars \/ (unseen' = TRUE /\ UNCHANGED <<deviceState, assumed, sawRising>>)
        BY <3>2 DEF PinHigh, Down
      <4>2. ASSUME unseen' = TRUE, UNCHANGED <<deviceState, assumed, sawRising>> PROVE Believes
        BY <4>2 DEF Believes, StateType
      <4> QED BY <1>1, <3>1, <4>1, <4>2
    <3>3. CASE OffFailed
      <4>1. deviceState' \in {powerOff, powerOn, appReady} /\ UNCHANGED <<assumed, unseen, sawRising>>
        BY <3>3 DEF OffFailed, FailedPowerOff, Sampled, StateType
      <4>2. Believes
        BY <4>1 DEF Believes, StateType
      <4> QED BY <3>1, <4>2
    <3>4. CASE OnSeen
      <4>1. Sample \/ (deviceState' = powerOn /\ assumed' = FALSE /\ UNCHANGED <<unseen, sawRising>>)
        BY <3>4 DEF OnSeen, StateOn, Looks
      <4>2. ASSUME deviceState' = powerOn, assumed' = FALSE, UNCHANGED <<unseen, sawRising>> PROVE Believes
        BY <4>2 DEF Believes, StateType
      <4> QED BY <1>1, <3>1, <4>1, <4>2
    <3>5. CASE ReadReady
      <4>1. \/ UNCHANGED stateVars
            \/ deviceState' = appReady /\ assumed' = FALSE /\ unseen' = FALSE /\ UNCHANGED sawRising
        BY <3>5 DEF ReadReady
      <4>2. ASSUME deviceState' = appReady, assumed' = FALSE, unseen' = FALSE, UNCHANGED sawRising PROVE Believes
        BY <4>2 DEF Believes, StateType
      <4> QED BY <1>1, <3>1, <4>1, <4>2
    <3> QED BY <2>2, <3>1, <3>2, <3>3, <3>4, <3>5
  <2>3. CASE ~(PinHigh \/ OffFailed \/ OnSeen \/ ReadReady \/ SettingSkipped \/ SettingOk \/ SettingFails)
    <3>1. Settings
      BY <1>2, <1>4, <2>3
      DEF Library, StartTest, TestBridge, ResetTest, SendCfun, SeenOff, SeenOn, OffTimeout, OnTimeout, PinLow,
          PowerOffTest, OffKey, OffSeen, PowerOnTest, OnKey, OnFailed, InitPower, InitBridge, ReadyTimeout,
          EnableIrq, OptionOk, OptionFails, ClearDataState, ApplyNetwork, Provider, Return, OptionQuiet,
          Looks, Plain, Inside
    <3>2. (Sample \/ Assume \/ UNCHANGED stateVars)
      BY <1>4, <2>3
      DEF Library, StartTest, TestBridge, ResetTest, SendCfun, SeenOff, SeenOn, OffTimeout, OnTimeout, PinLow,
          PowerOffTest, OffKey, OffSeen, PowerOnTest, OnKey, OnFailed, InitPower, InitBridge, ReadyTimeout,
          EnableIrq, OptionOk, OptionFails, ClearDataState, ApplyNetwork, Provider, Return, FailLooks, Looks
    <3> QED BY <1>1, <3>1, <3>2
  <2> QED BY <2>1, <2>2, <2>3
<1>5. CASE HostReset
  BY <1>5 DEF HostReset, Believes, Settings, StateType
<1>6. CASE Module
  <2>1. /\ UNCHANGED <<settingVars, deviceState, assumed, sawRising>> /\ unseen' \in {unseen, TRUE}
    BY <1>6 DEF Module, Rise, BootText, Ready, Fall, Restart, SelfRestart, Down, ModuleQuiet
  <2>2. Believes
    BY <2>1 DEF Believes, StateType
  <2> QED BY <1>2, <2>1, <2>2
<1>7. CASE Environment \/ UNCHANGED vars
  BY <1>1, <1>2, <1>7 DEF Environment, vars, devVars
<1> QED BY <1>3, <1>4, <1>5, <1>6, <1>7 DEF Next

(* The module and its bridge. *)
LEMMA BridgeKeeps ==
    ASSUME PowerType, Held, UNCHANGED <<module, restarts, texts>>, fifo' \in {fifo, <<>>},
           config' \subseteq {"ATE0", "QURCCFG"}, stuck' \in BOOLEAN, irqOn' \in BOOLEAN, lost' \in BOOLEAN,
           bridge' \in {"off", "raw", "set"}
    PROVE  PowerType' /\ Held'
<1>1. PowerType'
  BY DEF PowerType
<1>2. Held'
  <2>1. CASE fifo' = fifo
    BY <2>1 DEF Held
  <2>2. CASE fifo' = <<>>
    <3>1. texts \in Nat
      BY DeviceAssumption DEF PowerType
    <3>2. fifo' \in Seq({"text", "APP_RDY"}) /\ Len(fifo') = 0 /\ texts' = texts
      BY <2>2
    <3> QED BY <2>2, <3>1, <3>2 DEF Held
  <2> QED BY <2>1, <2>2
<1> QED BY <1>1, <1>2

LEMMA PowerKeeps ==
    ASSUME PowerType, Held, UNCHANGED <<stuck, config, bridgeVars, restarts, texts, lost>>, module' \in Modules,
           module' = "boot" => module = "boot",
           module' \in {"off", "rising", "held"} => module \in {"off", "rising", "held"}
    PROVE  PowerType' /\ Held'
<1>1. PowerType'
  BY DEF PowerType, bridgeVars
<1>2. Len(fifo) \in Nat /\ texts \in Nat /\ Len(fifo) <= texts + 1 /\ (module = "boot" => Len(fifo) <= texts)
  <2>1. Len(fifo) \in Nat /\ texts \in Nat
    BY DeviceAssumption DEF Held, PowerType
  <2> QED BY <2>1 DEF Held
<1>3. Held'
  BY <1>2 DEF Held, bridgeVars
<1> QED BY <1>1, <1>3

LEMMA DownKeeps ==
    ASSUME PowerType, NEW m \in {"off", "rising", "held"}, Down(m), restarts' \in 0..MaxRestarts
    PROVE  PowerType' /\ Held'
<1>1. /\ module' = m /\ stuck' = FALSE /\ config' = {} /\ texts' = 0 /\ lost' = TRUE
      /\ bridge' = "off" /\ irqOn' = FALSE /\ fifo' = <<>>
  BY DEF Down
<1>2. 0 \in 0..MaxText
  BY DeviceAssumption
<1>3. PowerType'
  BY <1>1, <1>2 DEF PowerType, Modules
<1>4. Held'
  BY <1>1 DEF Held
<1> QED BY <1>3, <1>4

LEMMA ReceivesKeeps ==
    ASSUME PowerType, Held, module = "boot", NEW t \in {"text", "APP_RDY"}, Receives(t),
           texts' \in 0..MaxText, UNCHANGED <<stuck, config, bridge, irqOn, restarts, lost>>,
           \/ module' = "boot" /\ texts' = texts + 1
           \/ module' = "run" /\ texts' = texts
    PROVE  PowerType' /\ Held'
<1>1. PowerType'
  BY DEF PowerType, Modules
<1>2. fifo \in Seq({"text", "APP_RDY"}) /\ Len(fifo) \in Nat /\ texts \in Nat /\ Len(fifo) <= texts
  BY DeviceAssumption DEF Held, PowerType
<1>3. fifo' \in Seq({"text", "APP_RDY"}) /\ Len(fifo') \in Nat /\ Len(fifo') <= Len(fifo) + 1
  <2>1. fifo' \in {fifo, Append(fifo, t)}
    BY DEF Receives
  <2> QED BY <1>2, <2>1
<1>4. Len(fifo') <= IF module' = "boot" THEN texts' ELSE texts' + 1
  BY <1>2, <1>3
<1> QED BY <1>1, <1>3, <1>4 DEF Held

LEMMA PowerTypeStep ==
    ASSUME CallType, PowerType, Held, [Next]_vars PROVE PowerType' /\ Held'
<1>1. CASE UNCHANGED powerVars
  BY <1>1, BridgeKeeps DEF powerVars, bridgeVars, PowerType
<1>2. CASE \/ Stop \/ HostReset \/ TestBridge \/ InitBridge \/ ReadReady \/ EnableIrq
           \/ OptionOk \/ OptionFails \/ ClearDataState
  <2>1. UNCHANGED <<module, restarts, texts>> /\ fifo' \in {fifo, <<>>}
    BY <1>1, <1>2 DEF Stop, HostReset, TestBridge, InitBridge, ReadReady, EnableIrq, OptionOk, OptionFails,
                      ClearDataState, BridgeStart, OptionQuiet, powerVars, bridgeVars
  <2>2. config' \subseteq {"ATE0", "QURCCFG"}
    <3>1. CASE OptionOk \/ OptionFails
      <4>1. InitCmds[cmdIndx] \in {"ATE0", "QURCCFG"}
        <5>1. cmdIndx = 1 \/ cmdIndx = 2
          BY <3>1 DEF OptionOk, OptionFails, At, CallType
        <5> QED BY <5>1, CmdFacts
      <4> QED BY <3>1, <4>1 DEF OptionOk, OptionFails, Taken, PowerType
    <3>2. CASE ~(OptionOk \/ OptionFails)
      BY <1>2, <3>2 DEF Stop, HostReset, TestBridge, InitBridge, ReadReady, EnableIrq, ClearDataState,
                        BridgeStart, powerVars, PowerType
    <3> QED BY <3>1, <3>2
  <2>3. stuck' \in BOOLEAN
    <3>1. CASE ClearDataState
      BY <3>1 DEF ClearDataState, PowerType
    <3>2. CASE ~ClearDataState
      BY <1>2, <3>2 DEF Stop, HostReset, TestBridge, InitBridge, ReadReady, EnableIrq, OptionOk, OptionFails,
                        BridgeStart, powerVars, PowerType
    <3> QED BY <3>1, <3>2
  <2>4. lost' \in BOOLEAN
    BY <1>2 DEF Stop, HostReset, TestBridge, InitBridge, ReadReady, EnableIrq, OptionOk, OptionFails,
                ClearDataState, OptionQuiet, powerVars, PowerType
  <2>5. irqOn' \in BOOLEAN /\ bridge' \in {"off", "raw", "set"}
    BY <1>2 DEF Stop, HostReset, TestBridge, InitBridge, ReadReady, EnableIrq, OptionOk, OptionFails,
                ClearDataState, BridgeStart, OptionQuiet, powerVars, bridgeVars, PowerType
  <2> QED BY <2>1, <2>2, <2>3, <2>4, <2>5, BridgeKeeps
<1>3. CASE SendCfun \/ PinLow \/ OffKey \/ OnKey
  <2>1. /\ UNCHANGED <<stuck, config, bridgeVars, restarts, texts, lost>>
        /\ module' \in Modules /\ (module' = "boot" => module = "boot")
        /\ module' \in {"off", "rising", "held"} => module \in {"off", "rising", "held"}
    BY <1>3 DEF SendCfun, PinLow, OffKey, OnKey, Pulse, PulseEffect, Modules, PowerType
  <2> QED BY <2>1, PowerKeeps
<1>4. CASE PinHigh
  <2>1. CASE UNCHANGED powerVars
    BY <1>1, <2>1
  <2>2. CASE Down("held") /\ UNCHANGED restarts
    BY <2>2, DownKeeps DEF PowerType
  <2> QED BY <1>4, <2>1, <2>2 DEF PinHigh
<1>5. CASE Module
  <2>1. CASE Rise
    <3>1. /\ module = "rising" /\ module' = "boot" /\ bridge' = "raw"
          /\ UNCHANGED <<stuck, config, irqOn, fifo, restarts, texts, lost>>
      BY <2>1 DEF Rise
    <3>2. fifo = <<>> /\ texts \in Nat
      BY <3>1, DeviceAssumption DEF Held, PowerType
    <3>3. PowerType'
      BY <3>1 DEF PowerType, Modules
    <3>4. Len(fifo') <= texts'
      BY <3>1, <3>2
    <3> QED BY <3>1, <3>3, <3>4 DEF Held
  <2>2. CASE BootText
    <3>1. texts' \in 0..MaxText
      BY <2>2, DeviceAssumption DEF BootText, PowerType
    <3> QED BY <2>2, <3>1, ReceivesKeeps DEF BootText
  <2>3. CASE Ready
    BY <2>3, ReceivesKeeps DEF Ready, PowerType
  <2>4. CASE Fall \/ Restart
    BY <2>4, DownKeeps DEF Fall, Restart, PowerType
  <2>5. CASE SelfRestart
    <3>1. restarts' \in 0..MaxRestarts
      BY <2>5, DeviceAssumption DEF SelfRestart, PowerType
    <3> QED BY <2>5, <3>1, DownKeeps DEF SelfRestart
  <2> QED BY <1>5, <2>1, <2>2, <2>3, <2>4, <2>5 DEF Module
<1>6. CASE (Calls /\ ~Stop) \/ Environment \/ UNCHANGED vars
  BY <1>1, <1>6 DEF Calls, Start, Reset, EnterReset, SetScanMode, CallAwaitProvider, GetDeviceState,
                    Environment, vars, devVars
<1>7. CASE \/ StartTest \/ ResetTest \/ SeenOff \/ SeenOn \/ OffTimeout \/ OnTimeout
           \/ PowerOffTest \/ OffSeen \/ OffFailed \/ PowerOnTest \/ OnSeen \/ OnFailed
           \/ InitPower \/ ReadyTimeout \/ SettingSkipped \/ SettingOk \/ SettingFails
           \/ ApplyNetwork \/ Provider \/ Return
  BY <1>1, <1>7 DEF StartTest, ResetTest, SeenOff, SeenOn, OffTimeout, OnTimeout, PowerOffTest, OffSeen, OffFailed,
                    PowerOnTest, OnSeen, OnFailed, InitPower, ReadyTimeout, SettingSkipped, SettingOk, SettingFails,
                    SettingQuiet, ApplyNetwork, Provider, Return, Looks
<1> QED BY <1>2, <1>3, <1>4, <1>5, <1>6, <1>7 DEF Next, Library

(* The calls. *)
LEMMA CallTypeStep ==
    ASSUME CallType, Held, [Next]_vars PROVE CallType'
<1>0. /\ pc \in PCs /\ call \in CallNames /\ resetAction \in AllActions
      /\ tries \in 0..2 /\ cmdIndx \in 0..2 /\ readyText \in 0..ReadyBuf /\ calls \in 0..MaxCalls
      /\ ltemReset \in BOOLEAN /\ initError \in BOOLEAN /\ rose \in BOOLEAN /\ gaveUp \in BOOLEAN
  BY DEF CallType
<1>1. ASSUME pc' \in PCs, pc' # "options", UNCHANGED <<tries, cmdIndx, readyText, initError>>,
             call' \in CallNames, resetAction' \in AllActions, calls' \in 0..MaxCalls,
             ltemReset' \in BOOLEAN, rose' \in BOOLEAN, gaveUp' \in BOOLEAN
      PROVE  CallType'
  BY <1>0, <1>1 DEF CallType
<1>2. CASE UNCHANGED <<pc, locals, calls, rose, gaveUp>>
  BY <1>2 DEF CallType, locals, initVars
<1>3. CASE Calls
  <2>1. ASSUME NEW c \in CallNames, NEW p \in PCs \ {"options"}, Enter(c, p)
        PROVE  /\ pc' \in PCs /\ pc' # "options" /\ call' \in CallNames /\ calls' \in 0..MaxCalls
               /\ rose' \in BOOLEAN /\ gaveUp' \in BOOLEAN
    <3>1. calls' \in 0..MaxCalls
      BY <1>0, <2>1, DeviceAssumption DEF Enter
    <3>2. rose' = FALSE /\ gaveUp' = FALSE /\ pc' = p /\ call' = c
      BY <2>1 DEF Enter, Go
    <3> QED BY <3>1, <3>2
  <2>2. {"start", "reset", "powerOff", "setting", "idle", "provider"} \subseteq PCs \ {"options"}
    BY DEF PCs, Yields
  <2>3. {"ltem_start", "ltem_reset", "ltem_stop", "ltem_setProviderScanMode", "ntwk_awaitProvider"} \subseteq CallNames
    BY DEF CallNames
  <2>4. CASE Start \/ Reset
    <3>1. PICK c \in CallNames, p \in PCs \ {"options"}, b \in BOOLEAN : EnterReset(c, p, b)
      BY <2>2, <2>3, <2>4 DEF Start, Reset
    <3>2. Enter(c, p) /\ ltemReset' \in BOOLEAN /\ UNCHANGED initVars
      BY <3>1 DEF EnterReset
    <3>3. resetAction' \in AllActions
      BY <3>1, DeviceAssumption DEF EnterReset
    <3> QED BY <1>1, <2>1, <3>2, <3>3 DEF initVars
  <2>5. CASE Stop \/ CallAwaitProvider \/ \E m \in {0, 1} : SetScanMode(m)
    <3>1. PICK c \in CallNames, p \in PCs \ {"options"} : Enter(c, p)
      BY <2>2, <2>3, <2>5 DEF Stop, CallAwaitProvider, SetScanMode
    <3>2. UNCHANGED <<resetAction, ltemReset, initVars>>
      BY <2>5 DEF Stop, CallAwaitProvider, SetScanMode
    <3> QED BY <1>0, <1>1, <2>1, <3>1, <3>2 DEF initVars
  <2>6. CASE GetDeviceState
    BY <1>2, <2>6 DEF GetDeviceState
  <2> QED BY <1>3, <2>4, <2>5, <2>6 DEF Calls
<1>4. CASE Library
  <2>1. {"idle", "waitOff", "waitOn", "offWait", "onWait", "appReady", "clear", "setting", "provider",
         "start", "testBridge", "reset", "cfun", "pin", "pinLow", "powerOff", "offKey", "powerOn",
         "onKey", "init", "bridge", "irq", "network", "halt", "hang"} \subseteq PCs \ {"options"}
    BY DEF PCs, Yields
  <2>2. CASE EnableIrq
    <3>1. /\ pc' = "options" /\ initError' = FALSE /\ tries' = 1 /\ cmdIndx' = 1
          /\ resetAction' = "skipIfOn" /\ readyText' = 0 /\ UNCHANGED <<call, calls, ltemReset, rose, gaveUp>>
      BY <2>2 DEF EnableIrq, Inside, Go
    <3>2. pc' \in PCs /\ resetAction' \in AllActions
      BY <3>1 DEF PCs, Yields, AllActions
    <3>3. readyText' \in 0..ReadyBuf /\ tries' \in 0..2 /\ cmdIndx' \in 1..2 /\ cmdIndx' \in 0..2
      BY <3>1, DeviceAssumption
    <3> QED BY <1>0, <3>1, <3>2, <3>3 DEF CallType
  <2>3. CASE ReadReady \/ InitBridge
    <3>1. /\ pc' \in PCs /\ pc' # "options" /\ UNCHANGED <<call, calls, ltemReset, rose, resetAction, initError, gaveUp>>
          /\ UNCHANGED <<tries, cmdIndx>>
      BY <1>0, <2>1, <2>3 DEF ReadReady, InitBridge, Plain, Inside, At, Go, initVars
    <3>2. readyText' \in 0..ReadyBuf
      <4>1. CASE ReadReady
        <5>1. Len(fifo) \in Nat
          BY DEF Held
        <5> QED BY <1>0, <4>1, <5>1, DeviceAssumption DEF ReadReady
      <4>2. CASE InitBridge
        BY <1>0, <4>2, DeviceAssumption DEF InitBridge, Plain, initVars
      <4> QED BY <2>3, <4>1, <4>2
    <3> QED BY <1>0, <3>1, <3>2 DEF CallType
  <2>4. CASE OptionOk
    <3>1. /\ At("options") /\ UNCHANGED <<call, calls, ltemReset, rose, resetAction, readyText, gaveUp, initError>>
      BY <2>4 DEF OptionOk, OptionQuiet, Inside
    <3>2. \/ cmdIndx < 2 /\ cmdIndx' = cmdIndx + 1 /\ UNCHANGED <<pc, tries>>
          \/ pc' = "clear" /\ UNCHANGED <<cmdIndx, tries>>
          \/ pc' = "setting" /\ cmdIndx' = 0 /\ tries' = 0
      BY <2>4, CmdFacts DEF OptionOk, Go
    <3>3. /\ cmdIndx' \in 0..2 /\ tries' \in 0..2 /\ (pc' = "options" => cmdIndx' \in 1..2)
      BY <1>0, <3>2
    <3>4. pc' \in PCs
      BY <1>0, <2>1, <3>2
    <3> QED BY <1>0, <3>1, <3>3, <3>4 DEF CallType
  <2>5. CASE OptionFails
    <3>1. /\ UNCHANGED <<call, calls, ltemReset, rose, resetAction, readyText, gaveUp, tries, cmdIndx>>
          /\ initError' = TRUE /\ pc' = "clear"
      BY <2>5 DEF OptionFails, OptionQuiet, Inside, Go
    <3> QED BY <1>0, <2>1, <3>1 DEF CallType
  <2>6. CASE ClearDataState
    <3>1. UNCHANGED <<call, calls, ltemReset, rose, resetAction, readyText, gaveUp, initError>>
      BY <2>6 DEF ClearDataState, OptionQuiet, Inside
    <3>2. \/ tries = 1 /\ pc' = "options" /\ tries' = tries + 1 /\ cmdIndx' = 1
          \/ pc' = "hang" /\ tries' = 0 /\ cmdIndx' = 0
      BY <2>6 DEF ClearDataState, AnotherPass, PassesEnd, Go
    <3>3. /\ cmdIndx' \in 0..2 /\ tries' \in 0..2 /\ (pc' = "options" => cmdIndx' \in 1..2)
      BY <1>0, <3>2
    <3>4. pc' \in PCs
      BY <2>1, <3>2 DEF PCs, Yields
    <3> QED BY <1>0, <3>1, <3>3, <3>4 DEF CallType
  <2>7. CASE \/ SettingSkipped \/ SettingOk \/ SettingFails \/ ApplyNetwork \/ Return
    <3>1. pc' \in PCs /\ pc' # "options"
      BY <2>1, <2>7 DEF SettingSkipped, SettingOk, SettingFails, SettingQuiet, AfterSetting, ApplyNetwork, Return, Go
    <3>2. UNCHANGED <<tries, cmdIndx, readyText, initError, call, calls, resetAction, ltemReset, rose, gaveUp>>
      BY <2>7 DEF SettingSkipped, SettingOk, SettingFails, SettingQuiet, ApplyNetwork, Return, Plain, Inside,
                  locals, initVars
    <3> QED BY <1>0, <1>1, <3>1, <3>2
  <2>8. CASE Provider
    BY <1>2, <2>8 DEF Provider
  <2>9. CASE \/ StartTest \/ TestBridge \/ OffTimeout \/ OffFailed
    <3>1. pc' \in PCs /\ pc' # "options"
      BY <2>1, <2>9 DEF StartTest, TestBridge, OffTimeout, OffFailed, OffTimeoutGoes, AfterPowerOff, Go
    <3>2. UNCHANGED initVars /\ UNCHANGED <<call, calls, rose>>
      BY <2>9 DEF StartTest, TestBridge, OffTimeout, OffFailed, Inside
    <3>3. ltemReset' \in BOOLEAN
      BY <1>0, <2>9 DEF StartTest, TestBridge, OffTimeout, OffFailed, Inside
    <3>4. resetAction' \in AllActions
      BY <1>0, <2>9 DEF StartTest, TestBridge, OffTimeout, OffFailed, Inside, AllActions
    <3>5. gaveUp' \in BOOLEAN
      BY <1>0, <2>9 DEF StartTest, TestBridge, OffTimeout, OffFailed, Inside
    <3> QED BY <1>0, <1>1, <3>1, <3>2, <3>3, <3>4, <3>5 DEF initVars
  <2>10. CASE \/ ResetTest \/ SendCfun \/ SeenOff \/ SeenOn \/ OnTimeout \/ PinHigh \/ PinLow
              \/ PowerOffTest \/ OffKey \/ OffSeen \/ PowerOnTest \/ OnKey \/ OnSeen \/ OnFailed
              \/ InitPower \/ ReadyTimeout
    <3>1. Plain
      BY <2>10 DEF ResetTest, SendCfun, SeenOff, SeenOn, OnTimeout, PinHigh, PinLow,
                   PowerOffTest, OffKey, OffSeen, PowerOnTest, OnKey, OnSeen, OnFailed, InitPower, ReadyTimeout, Looks
    <3>2. pc' \in PCs /\ pc' # "options"
      BY <2>1, <2>10 DEF ResetTest, SendCfun, SeenOff, SeenOn, OnTimeout, PinHigh, PinLow, AfterPowerOff,
                   PowerOffTest, OffKey, OffSeen, PowerOnTest, OnKey, OnSeen, OnFailed, InitPower, ReadyTimeout,
                   Looks, Go
    <3> QED BY <1>0, <1>1, <3>1, <3>2 DEF Plain, Inside, initVars
  <2> QED BY <1>4, <2>2, <2>3, <2>4, <2>5, <2>6, <2>7, <2>8, <2>9, <2>10 DEF Library
<1>5. CASE HostReset
  <2>1. pc' = "idle" /\ call' = "none" /\ UNCHANGED <<resetAction, ltemReset, initVars, calls, rose, gaveUp>>
    BY <1>5 DEF HostReset, Go
  <2>2. pc' \in PCs /\ call' \in CallNames
    BY <2>1 DEF PCs, Yields, CallNames
  <2> QED BY <1>0, <1>1, <2>1, <2>2 DEF initVars
<1>6. CASE Module
  <2>1. UNCHANGED <<pc, locals, calls, gaveUp>> /\ rose' \in {rose, TRUE}
    BY <1>6 DEF Module, Rise, BootText, Ready, Fall, Restart, SelfRestart, ModuleQuiet
  <2> QED BY <2>1 DEF CallType, locals, initVars
<1>7. CASE Environment \/ UNCHANGED vars
  BY <1>2, <1>7 DEF Environment, vars, devVars
<1> QED BY <1>3, <1>4, <1>5, <1>6, <1>7 DEF Next

LEMMA TypeInductive == TypeInv /\ [Next]_vars => TypeInv'
  BY NetInductive, CallTypeStep, StateTypeStep, PowerTypeStep DEF TypeInv

(* Theorem 1.  Every variable has its type in every reachable state; in    *)
(* particular the FIFO never holds more than the module can have sent, and *)
(* QBG_setOptions() never indexes behind its commands.                     *)
THEOREM Typed == Spec => []TypeOK
  BY TypeInit, TypeInductive, TypeInvOK, PTL DEF Spec

-----------------------------------------------------------------------------
(* Where the word of the module is: APP RDY in the FIFO of the bridge was  *)
(* sent by the module since it came up, because the bridge loses what it   *)
(* has with the module's power.                                            *)
Said == module \in {"run", "falling", "restarting"}
RdyInFifo == \E i \in DOMAIN fifo : fifo[i] = "APP_RDY"
SaidInv == /\ AppReadyWasSaid
           /\ fifo \in Seq({"text", "APP_RDY"})
           /\ RdyInFifo => Said

(* Looking at the status pin keeps the invariant: it lifts the state to    *)
(* powerOn at most, and forgets its excuses only with the state.           *)
LEMMA SampleKeepsSaid ==
    ASSUME AppReadyWasSaid, Sample, module' = module
    PROVE  AppReadyWasSaid'
<1>1. CASE ~StatusPin
  BY <1>1 DEF Sample, Sampled, AppReadyWasSaid, powerOff, powerOn, appReady
<1>2. CASE StatusPin
  <2>1. (assumed => assumed') /\ (unseen => unseen')
    BY <1>2 DEF Sample
  <2>2. deviceState' = appReady => deviceState = appReady
    BY <1>2 DEF Sample, Sampled, powerOff, powerOn, appReady
  <2> QED BY <2>1, <2>2 DEF AppReadyWasSaid
<1> QED BY <1>1, <1>2

(* What the library does to the state when the module does not change. *)
StateStep == \/ Sample
             \/ Assume
             \/ UNCHANGED stateVars
             \/ deviceState' # appReady

LEMMA StateStepKeepsSaid ==
    ASSUME SaidInv, StateStep, module' = module, fifo' \in {fifo, <<>>}
    PROVE  SaidInv'
<1>1. AppReadyWasSaid'
  <2>1. CASE Sample
    BY <2>1, SampleKeepsSaid DEF SaidInv
  <2>2. CASE Assume
    BY <2>2 DEF Assume, AppReadyWasSaid
  <2>3. CASE UNCHANGED stateVars
    BY <2>3 DEF SaidInv, AppReadyWasSaid, stateVars
  <2>4. CASE deviceState' # appReady
    BY <2>4 DEF AppReadyWasSaid, appReady
  <2> QED BY <2>1, <2>2, <2>3, <2>4 DEF StateStep
<1>2. fifo' \in Seq({"text", "APP_RDY"}) /\ (RdyInFifo' => Said')
  <2>1. CASE fifo' = fifo
    BY <2>1 DEF SaidInv, RdyInFifo, Said
  <2>2. CASE fifo' = <<>>
    BY <2>2 DEF RdyInFifo
  <2> QED BY <2>1, <2>2
<1> QED BY <1>1, <1>2 DEF SaidInv

(* The module loses power: the excuse is that nobody has looked since. *)
LEMMA DownKeepsSaid ==
    ASSUME SaidInv, NEW m, Down(m), deviceState' = deviceState
    PROVE  SaidInv'
<1>1. unseen' = TRUE /\ fifo' = <<>>
  BY DEF Down
<1>2. AppReadyWasSaid'
  BY <1>1 DEF AppReadyWasSaid
<1>3. fifo' \in Seq({"text", "APP_RDY"}) /\ ~RdyInFifo'
  BY <1>1 DEF RdyInFifo
<1> QED BY <1>2, <1>3 DEF SaidInv

(* The module goes on without losing power and says no less. *)
LEMMA ModuleKeepsSaid ==
    ASSUME SaidInv, UNCHANGED <<stateVars, fifo>>, Said => Said'
    PROVE  SaidInv'
BY DEF SaidInv, AppReadyWasSaid, RdyInFifo, Said, stateVars

LEMMA ReceiveKeepsSaid ==
    ASSUME SaidInv, UNCHANGED stateVars, NEW t \in {"text", "APP_RDY"}, Receives(t),
           Said => Said', t = "APP_RDY" => Said'
    PROVE  SaidInv'
<1>1. fifo' \in {fifo, Append(fifo, t)}
  BY DEF Receives
<1>2. fifo' \in Seq({"text", "APP_RDY"}) /\ (RdyInFifo' => Said')
  <2>1. CASE fifo' = fifo
    BY <2>1 DEF SaidInv, RdyInFifo
  <2>2. CASE fifo' = Append(fifo, t)
    <3>1. fifo' \in Seq({"text", "APP_RDY"}) /\ Len(fifo') = Len(fifo) + 1
      BY <2>2 DEF SaidInv
    <3>2. \A i \in DOMAIN fifo' : (i \in DOMAIN fifo /\ fifo'[i] = fifo[i]) \/ fifo'[i] = t
      BY <2>2 DEF SaidInv
    <3> QED BY <3>1, <3>2 DEF SaidInv, RdyInFifo
  <2> QED BY <1>1, <2>1, <2>2
<1> QED BY <1>2 DEF SaidInv, AppReadyWasSaid, stateVars, Said

(* Theorem 2.  deviceState is appReady only on the module's word, on an    *)
(* assumption the code makes, or because nobody has looked since the       *)
(* module went down.                                                       *)
THEOREM AppReadyIsJustified == Spec => []AppReadyWasSaid
<1>1. Init => SaidInv
  BY DEF Init, SaidInv, AppReadyWasSaid, RdyInFifo, powerOff, appReady
<1>2. SaidInv /\ [Next]_vars => SaidInv'
  <2> SUFFICES ASSUME SaidInv, [Next]_vars PROVE SaidInv'
    OBVIOUS
  <2>1. CASE Calls
    <3>1. StateStep /\ module' = module /\ fifo' \in {fifo, <<>>}
      BY <2>1 DEF Calls, Start, Reset, Stop, GetDeviceState, SetScanMode, CallAwaitProvider, EnterReset,
                  StateStep, powerVars, bridgeVars, powerOff, appReady
    <3> QED BY <3>1, StateStepKeepsSaid
  <2>2. CASE Library
    <3>1. CASE SendCfun
      BY <2>2, <3>1, ModuleKeepsSaid DEF SendCfun, bridgeVars, Said
    <3>2. CASE PinHigh
      <4>1. CASE module # "off"
        BY <3>2, <4>1, DownKeepsSaid DEF PinHigh
      <4>2. CASE module = "off"
        BY <3>2, <4>2, ModuleKeepsSaid DEF PinHigh, powerVars, bridgeVars, Said
      <4> QED BY <4>1, <4>2
    <3>3. CASE PinLow
      BY <3>3, ModuleKeepsSaid DEF PinLow, bridgeVars, Said
    <3>4. CASE OffKey \/ OnKey
      BY <3>4, ModuleKeepsSaid DEF OffKey, OnKey, Pulse, PulseEffect, bridgeVars, Said
    <3>5. CASE OffFailed
      <4>1. AppReadyWasSaid'
        BY <3>5 DEF OffFailed, FailedPowerOff, Sampled, SaidInv, AppReadyWasSaid, powerVars,
                    powerOff, powerOn, appReady
      <4> QED BY <3>5, <4>1 DEF OffFailed, SaidInv, RdyInFifo, Said, powerVars, bridgeVars
    <3>6. CASE ReadReady
      <4>1. CASE "APP_RDY" \in Range(fifo)
        <5>1. Said
          BY <4>1 DEF SaidInv, RdyInFifo, Range
        <5> QED BY <3>6, <4>1, <5>1 DEF ReadReady, SaidInv, AppReadyWasSaid, RdyInFifo, Said
      <4>2. CASE "APP_RDY" \notin Range(fifo)
        BY <3>6, <4>2, StateStepKeepsSaid DEF ReadReady, StateStep
      <4> QED BY <4>1, <4>2
    <3>7. CASE \/ StartTest \/ TestBridge \/ ResetTest \/ SeenOff \/ SeenOn \/ OffTimeout \/ OnTimeout
               \/ PowerOffTest \/ OffSeen \/ PowerOnTest \/ OnSeen \/ OnFailed
      <4>1. StateStep /\ module' = module /\ fifo' \in {fifo, <<>>}
        BY <3>7 DEF StartTest, TestBridge, ResetTest, SeenOff, SeenOn, OffTimeout, OnTimeout,
                    PowerOffTest, OffSeen, PowerOnTest, OnSeen, OnFailed, Looks, BridgeStart, StateOn, StateStep,
                    powerVars, bridgeVars, powerOn, appReady
      <4> QED BY <4>1, StateStepKeepsSaid
    <3>8. CASE \/ InitPower \/ InitBridge \/ ReadyTimeout \/ EnableIrq \/ OptionOk \/ OptionFails \/ ClearDataState
               \/ SettingSkipped \/ SettingOk \/ SettingFails \/ ApplyNetwork \/ Provider \/ Return
      <4>1. StateStep /\ module' = module /\ fifo' \in {fifo, <<>>}
        BY <3>8 DEF InitPower, InitBridge, ReadyTimeout, EnableIrq, OptionOk, OptionFails, ClearDataState,
                    SettingSkipped, SettingOk, SettingFails, ApplyNetwork, Provider, Return, Looks, BridgeStart,
                    OptionQuiet, SettingQuiet, FailLooks, StateStep, powerVars, bridgeVars
      <4> QED BY <4>1, StateStepKeepsSaid
    <3> QED BY <2>2, <3>1, <3>2, <3>3, <3>4, <3>5, <3>6, <3>7, <3>8 DEF Library
  <2>3. CASE HostReset
    <3>1. StateStep /\ module' = module /\ fifo' = fifo
      BY <2>3 DEF HostReset, StateStep, powerOff, appReady
    <3> QED BY <3>1, StateStepKeepsSaid
  <2>4. CASE Module
    <3>1. CASE Rise
      BY <3>1, ModuleKeepsSaid DEF Rise, ModuleQuiet, stateVars, Said
    <3>2. CASE BootText
      BY <3>2, ReceiveKeepsSaid DEF BootText, ModuleQuiet, stateVars, Said
    <3>3. CASE Ready
      BY <3>3, ReceiveKeepsSaid DEF Ready, ModuleQuiet, stateVars, Said
    <3>4. CASE Fall \/ Restart \/ SelfRestart
      BY <3>4, DownKeepsSaid DEF Fall, Restart, SelfRestart, ModuleQuiet
    <3> QED BY <2>4, <3>1, <3>2, <3>3, <3>4 DEF Module
  <2>5. CASE Environment \/ UNCHANGED vars
    BY <2>5, ModuleKeepsSaid DEF Environment, vars, devVars, powerVars, bridgeVars, Said
  <2> QED BY <2>1, <2>2, <2>3, <2>4, <2>5 DEF Next
<1>3. SaidInv => AppReadyWasSaid
  BY DEF SaidInv
<1> QED BY <1>1, <1>2, <1>3, PTL DEF Spec

-----------------------------------------------------------------------------
(* Why a start or reset that returns has restarted the module.  Once the   *)
(* library has seen the pin low, or has given up, a pin that is high means *)
(* that the module came up during the call; it goes past the assertion of  *)
(* S__initLTEmDevice() only with the pin high.                             *)
ResetCall == call = "ltem_reset" \/ (call = "ltem_start" /\ ltemReset)
Up == rose \/ gaveUp
WasOff == {"waitOn", "pinLow", "powerOn", "onKey", "onWait", "init"}
After  == {"bridge", "appReady", "irq", "options", "clear", "setting", "network", "provider", "idle"}
UpInv  == /\ ResetCall => /\ pc \in WasOff => (StatusPin => Up)
                          /\ pc \in After => Up
          /\ pc = "start" => call # "ltem_reset"

(* Steps of the module, and those of the library that stay in one part. *)
LEMMA ModuleKeepsUp ==
    ASSUME UpInv, UNCHANGED <<pc, call, ltemReset, gaveUp>>, rose => rose', StatusPin' => StatusPin \/ rose'
    PROVE  UpInv'
BY DEF UpInv, ResetCall, Up

LEMMA LaterKeepsUp ==
    ASSUME UpInv, UNCHANGED <<call, ltemReset, rose, gaveUp>>, pc \in After, pc' \in After \cup {"halt", "hang"}
    PROVE  UpInv'
<1>1. pc' \notin WasOff /\ pc' # "start"
  BY DEF After, WasOff
<1> QED BY <1>1 DEF UpInv, ResetCall, Up

LEMMA EarlierKeepsUp ==
    ASSUME pc' \notin WasOff, pc' \notin After, pc' = "start" => call' # "ltem_reset"
    PROVE  UpInv'
BY DEF UpInv

LEMMA OffKeepsUp ==
    ASSUME pc' \in WasOff, ~StatusPin'
    PROVE  UpInv'
<1>1. pc' \notin After /\ pc' # "start"
  BY DEF After, WasOff
<1> QED BY <1>1 DEF UpInv

(* Theorem 3.  ltem_start() and ltem_reset() return only after the module  *)
(* came up, unless it did not go off for 61 looks after the power key.     *)
THEOREM ResetsRestart == Spec => []ResetRestarts
<1>1. Init => UpInv
  BY DEF Init, UpInv, ResetCall
<1>2. UpInv /\ [Next]_vars => UpInv'
  <2> SUFFICES ASSUME UpInv, [Next]_vars PROVE UpInv'
    OBVIOUS
  <2>1. CASE Calls
    <3>1. CASE Start \/ Reset
      BY <3>1, EarlierKeepsUp DEF Start, Reset, EnterReset, Enter, Go, WasOff, After
    <3>2. CASE Stop \/ CallAwaitProvider \/ \E m \in {0, 1} : SetScanMode(m)
      BY <3>2 DEF Stop, CallAwaitProvider, SetScanMode, Enter, UpInv, ResetCall
    <3>3. CASE GetDeviceState
      BY <3>3, ModuleKeepsUp DEF GetDeviceState, locals, powerVars, StatusPin
    <3> QED BY <2>1, <3>1, <3>2, <3>3 DEF Calls
  <2>2. CASE Library
    <3>1. CASE TestBridge \/ ResetTest \/ SendCfun \/ OffTimeout \/ OffKey
      BY <3>1, EarlierKeepsUp DEF TestBridge, ResetTest, SendCfun, OffTimeout, OffTimeoutGoes, OffKey, Looks, Go,
                                  WasOff, After
    <3>2. CASE StartTest
      <4>1. CASE ~StatusPin
        BY <3>2, <4>1, OffKeepsUp DEF StartTest, Go, WasOff, powerVars, StatusPin
      <4>2. CASE StatusPin /\ resetAction = "skipIfOn"
        BY <3>2, <4>2 DEF StartTest, UpInv, ResetCall, At, UpInv, WasOff, After, Go
      <4>3. CASE StatusPin /\ resetAction # "skipIfOn"
        BY <3>2, <4>3, EarlierKeepsUp DEF StartTest, Go, WasOff, After
      <4> QED BY <4>1, <4>2, <4>3
    <3>3. CASE SeenOff \/ PowerOnTest \/ OnSeen \/ SeenOn
      <4>1. CASE StatusPin
        BY <3>3, <4>1 DEF SeenOff, PowerOnTest, OnSeen, SeenOn, Looks, Plain, Inside, At, Go, UpInv, ResetCall, Up,
                          WasOff, After, powerVars, StatusPin
      <4>2. CASE ~StatusPin
        BY <3>3, <4>2, OffKeepsUp DEF SeenOff, PowerOnTest, OnSeen, SeenOn, Looks, Go, WasOff, powerVars, StatusPin
      <4> QED BY <4>1, <4>2
    <3>4. CASE OnTimeout \/ OnFailed
      BY <3>4, OffKeepsUp DEF OnTimeout, OnFailed, Looks, Go, WasOff, powerVars, StatusPin
    <3>5. CASE PowerOffTest \/ OffSeen
      <4>1. CASE StatusPin
        BY <3>5, <4>1, EarlierKeepsUp DEF PowerOffTest, OffSeen, Looks, Go, WasOff, After
      <4>2. CASE ~StatusPin
        BY <3>5, <4>2 DEF PowerOffTest, OffSeen, Looks, Plain, Inside, Go, AfterPowerOff, UpInv, ResetCall,
                          WasOff, After, powerVars, StatusPin
      <4> QED BY <4>1, <4>2
    <3>6. CASE OffFailed
      BY <3>6 DEF OffFailed, Inside, Go, AfterPowerOff, UpInv, ResetCall, Up
    <3>7. CASE PinHigh
      BY <3>7, OffKeepsUp DEF PinHigh, Go, Down, WasOff, powerVars, StatusPin
    <3>8. CASE PinLow \/ OnKey
      <4>1. /\ pc \in WasOff /\ pc' \in WasOff /\ UNCHANGED <<call, ltemReset, rose, gaveUp>>
            /\ StatusPin' => StatusPin
        BY <3>8 DEF PinLow, OnKey, Pulse, PulseEffect, Plain, Inside, At, Go, WasOff, StatusPin
      <4>2. pc' \notin After /\ pc' # "start"
        BY <4>1 DEF WasOff, After
      <4> QED BY <4>1, <4>2 DEF UpInv, ResetCall, Up
    <3>9. CASE InitPower
      <4>1. CASE StatusPin
        BY <3>9, <4>1 DEF InitPower, Looks, Plain, Inside, At, Go, UpInv, ResetCall, Up, WasOff, After
      <4>2. CASE ~StatusPin
        BY <3>9, <4>2, EarlierKeepsUp DEF InitPower, Looks, Go, WasOff, After
      <4> QED BY <4>1, <4>2
    <3>10. CASE InitBridge \/ ReadReady \/ ReadyTimeout \/ EnableIrq \/ OptionOk \/ OptionFails \/ ClearDataState
      BY <3>10, LaterKeepsUp DEF InitBridge, ReadReady, ReadyTimeout, EnableIrq, OptionOk, OptionFails,
                                 ClearDataState, PassesEnd, OptionQuiet, Plain, Inside, At, Go, After
    <3>11. CASE SettingSkipped \/ SettingOk \/ SettingFails \/ ApplyNetwork \/ Provider \/ Return
      BY <3>11, LaterKeepsUp DEF SettingSkipped, SettingOk, SettingFails, ApplyNetwork, Provider, Return,
                                 AfterSetting, SettingQuiet, Plain, Inside, At, Go, After, locals
    <3> QED BY <2>2, <3>1, <3>2, <3>3, <3>4, <3>5, <3>6, <3>7, <3>8, <3>9, <3>10, <3>11 DEF Library
  <2>3. CASE HostReset
    BY <2>3 DEF HostReset, UpInv, ResetCall
  <2>4. CASE Module
    BY <2>4, ModuleKeepsUp DEF Module, Rise, BootText, Ready, Fall, Restart, SelfRestart, Down, ModuleQuiet, locals,
                               StatusPin
  <2>5. CASE Environment \/ UNCHANGED vars
    BY <2>5, ModuleKeepsUp DEF Environment, vars, devVars, locals, powerVars, StatusPin
  <2> QED BY <2>1, <2>2, <2>3, <2>4, <2>5 DEF Next
<1>3. UpInv => ResetRestarts
  BY DEF UpInv, ResetRestarts, ResetCall, Up, After, At
<1> QED BY <1>1, <1>2, <1>3, PTL DEF Spec
-----------------------------------------------------------------------------
(* The settings.  Only the steps of a start make a state of appReady, and  *)
(* each start that goes on has sent the setting or left it unconfirmed.    *)
Settled == pc \in {"idle", "network", "provider"} \/ call = "ltem_stop"
SettingsInv ==
    /\ scanMode = wanted
    /\ call = "ltem_stop" => pc \in {"powerOff", "offKey", "offWait", "idle"}
    /\ Settled /\ deviceState = appReady /\ ~unconfirmed => moduleScan = wanted

(* A look at the status pin never makes the module ready. *)
NotReadier == deviceState' = appReady => deviceState = appReady

LEMMA LooksNotReadier ==
    /\ Sample => NotReadier
    /\ FailLooks => NotReadier
    /\ UNCHANGED stateVars => NotReadier
<1>1. Sample => NotReadier
  BY DEF Sample, Sampled, NotReadier, powerOff, powerOn, appReady
<1> QED BY <1>1 DEF FailLooks, NotReadier, stateVars

LEMMA QuietKeepsSettings ==
    ASSUME SettingsInv, UNCHANGED settingVars,
           call' = "ltem_stop" => pc' \in {"powerOff", "offKey", "offWait", "idle"},
           \/ ~Settled'
           \/ Settled /\ NotReadier
    PROVE  SettingsInv'
BY DEF SettingsInv, settingVars, NotReadier

LEMMA SettingsInductive ==
    ASSUME SettingsInv, [Next]_vars PROVE SettingsInv'
<1>0. call = "ltem_stop" => pc \in {"powerOff", "offKey", "offWait", "idle"}
  BY DEF SettingsInv
<1>1. CASE Calls
  <2>1. CASE Start \/ Reset
    <3>1. UNCHANGED settingVars /\ pc' \in {"start", "reset"} /\ call' # "ltem_stop"
      BY <2>1 DEF Start, Reset, EnterReset, Enter, Go
    <3> QED BY <3>1, QuietKeepsSettings DEF Settled
  <2>2. CASE Stop
    <3>1. UNCHANGED settingVars /\ pc' = "powerOff" /\ deviceState' # appReady
      BY <2>2 DEF Stop, Enter, Go, powerOff, appReady
    <3> QED BY <3>1 DEF SettingsInv, settingVars
  <2>3. ASSUME NEW m \in {0, 1}, SetScanMode(m) PROVE SettingsInv'
    BY <2>3 DEF SetScanMode, Kept, Enter, Go, SettingsInv
  <2>4. CASE CallAwaitProvider
    <3>1. /\ UNCHANGED settingVars /\ UNCHANGED stateVars /\ pc = "idle" /\ pc' = "provider"
          /\ call' # "ltem_stop"
      BY <2>4 DEF CallAwaitProvider, Enter, At, Go
    <3> QED BY <3>1, LooksNotReadier, QuietKeepsSettings DEF Settled
  <2>5. CASE GetDeviceState
    <3>1. UNCHANGED <<pc, locals, settingVars>> /\ Sample
      BY <2>5 DEF GetDeviceState
    <3> QED BY <1>0, <3>1, LooksNotReadier, QuietKeepsSettings DEF Settled, locals
  <2> QED BY <1>1, <2>1, <2>2, <2>3, <2>4, <2>5 DEF Calls
<1>2. CASE SettingSkipped \/ SettingOk \/ SettingFails
  <2>1. /\ UNCHANGED <<scanMode, wanted, call>> /\ At("setting")
        /\ unconfirmed' = TRUE \/ moduleScan' = scanMode
    BY <1>2 DEF SettingSkipped, SettingOk, SettingFails, SettingQuiet
  <2>2. call # "ltem_stop"
    BY <1>0, <2>1 DEF At
  <2> QED BY <2>1, <2>2 DEF SettingsInv
<1>3. CASE ApplyNetwork \/ Provider \/ Return
  <2>1. /\ UNCHANGED <<settingVars, call>> /\ Settled /\ NotReadier
        /\ pc \in {"network", "provider"} /\ pc' \in {"provider", "idle"}
    BY <1>3, LooksNotReadier DEF ApplyNetwork, Provider, Return, Plain, Inside, locals, At, Go, Settled
  <2> QED BY <1>0, <2>1, QuietKeepsSettings
<1>4. CASE PowerOffTest \/ OffKey \/ OffSeen \/ OffFailed
  <2>1. UNCHANGED settingVars /\ call' = call
    BY <1>4 DEF PowerOffTest, OffKey, OffSeen, OffFailed, Looks, Plain, Inside
  <2>2. NotReadier
    <3>1. CASE OffFailed
      BY <3>1 DEF OffFailed, FailedPowerOff, Sampled, NotReadier, powerOff, powerOn, appReady
    <3>2. CASE PowerOffTest \/ OffKey \/ OffSeen
      BY <3>2, LooksNotReadier DEF PowerOffTest, OffKey, OffSeen, Looks
    <3> QED BY <1>4, <3>1, <3>2
  <2>3. pc' \in {"offKey", "offWait"} \/ pc' = (IF call = "ltem_stop" THEN "idle" ELSE "powerOn")
    BY <1>4 DEF PowerOffTest, OffKey, OffSeen, OffFailed, AfterPowerOff, Looks, Go
  <2> QED BY <1>0, <2>1, <2>2, <2>3, QuietKeepsSettings DEF Settled
<1>5. CASE Library /\ ~(\/ SettingSkipped \/ SettingOk \/ SettingFails \/ ApplyNetwork \/ Provider \/ Return
                        \/ PowerOffTest \/ OffKey \/ OffSeen \/ OffFailed)
  <2>1. /\ UNCHANGED <<settingVars, call>>
        /\ pc \notin {"powerOff", "offKey", "offWait", "idle"}
        /\ pc' \notin {"idle", "network", "provider"}
    BY <1>5
    DEF Library, StartTest, TestBridge, ResetTest, SendCfun, SeenOff, SeenOn, OffTimeout, OnTimeout, PinHigh, PinLow,
        PowerOnTest, OnKey, OnSeen, OnFailed, InitPower, InitBridge, ReadReady, ReadyTimeout, EnableIrq,
        OptionOk, OptionFails, ClearDataState, OptionQuiet, OffTimeoutGoes, PassesEnd, Looks, Plain, Inside, At, Go
  <2> QED BY <1>0, <2>1, QuietKeepsSettings DEF Settled
<1>6. CASE HostReset
  BY <1>6 DEF HostReset, SettingsInv, powerOff, appReady
<1>7. CASE Module \/ Environment \/ UNCHANGED vars
  <2>1. UNCHANGED <<pc, call, settingVars, deviceState>>
    BY <1>7 DEF Module, Rise, BootText, Ready, Fall, Restart, SelfRestart, ModuleQuiet, Environment, vars, devVars,
                locals, stateVars
  <2> QED BY <2>1 DEF SettingsInv, Settled, settingVars
<1> QED BY <1>1, <1>2, <1>3, <1>4, <1>5, <1>6, <1>7 DEF Next, Library

(* Theorem 4.  A module that has confirmed the setting has the scan mode   *)
(* the application asked for last, before the start or after it.           *)
THEOREM SettingsReach == Spec => []SettingsAgree
<1>1. Init => SettingsInv
  BY DEF Init, SettingsInv, powerOff, appReady
<1>2. SettingsInv /\ [Next]_vars => SettingsInv'
  BY SettingsInductive
<1>3. SettingsInv => SettingsAgree
  BY DEF SettingsInv, SettingsAgree, Settled, At
<1> QED BY <1>1, <1>2, <1>3, PTL DEF Spec

-----------------------------------------------------------------------------
(* A stopped module.  The module is held only while ltem_reset() holds it, *)
(* so that after a look that finds the pin low it is off or on its way up. *)
StopInv ==
    /\ module = "held" => pc = "pinLow"
    /\ call = "ltem_stop" => pc \in {"powerOff", "offKey", "offWait", "idle"}
    /\ StoppedIsOff

LEMMA SampleStops ==
    ASSUME PowerType, StopInv, Sample, UNCHANGED module, pc # "pinLow"
    PROVE  deviceState' = powerOff /\ ~sawRising' => module' = "off"
<1>1. CASE StatusPin
  BY <1>1 DEF Sample, Sampled, powerOff, powerOn
<1>2. CASE ~StatusPin
  <2>1. sawRising' = (module = "rising") /\ module # "held"
    BY <1>2 DEF Sample, StopInv
  <2>2. module \in {"off", "rising"}
    BY <1>2, <2>1 DEF PowerType, Modules, StatusPin
  <2> QED BY <2>1, <2>2
<1> QED BY <1>1, <1>2

(* A step that takes a call of ltem_stop() no further than it may. *)
LEMMA QuietKeepsStopped ==
    ASSUME StopInv, module' = "held" => pc' = "pinLow", UNCHANGED call,
           call = "ltem_stop" => /\ pc' \in {"powerOff", "offKey", "offWait", "idle"}
                                 /\ pc' = "idle" /\ deviceState' = powerOff /\ ~sawRising' => module' = "off"
    PROVE  StopInv'
BY DEF StopInv, StoppedIsOff, At

LEMMA StopInductive ==
    ASSUME PowerType, StopInv, [Next]_vars PROVE StopInv'
<1>0. /\ call = "ltem_stop" => pc \in {"powerOff", "offKey", "offWait", "idle"}
      /\ module = "held" => pc = "pinLow"
  BY DEF StopInv
<1>1. CASE Calls
  <2>1. CASE GetDeviceState
    <3>1. UNCHANGED <<pc, call, module>> /\ Sample /\ pc # "pinLow"
      BY <2>1 DEF GetDeviceState, Yields, locals, powerVars
    <3> QED BY <1>0, <3>1, SampleStops, QuietKeepsStopped
  <2>2. CASE Start \/ Reset \/ CallAwaitProvider \/ \E m \in {0, 1} : SetScanMode(m)
    <3>1. At("idle") /\ call' # "ltem_stop" /\ UNCHANGED module
      BY <2>2 DEF Start, Reset, CallAwaitProvider, SetScanMode, EnterReset, Enter, powerVars
    <3> QED BY <1>0, <3>1 DEF StopInv, StoppedIsOff, At
  <2>3. CASE Stop
    <3>1. At("idle") /\ pc' = "powerOff" /\ UNCHANGED module
      BY <2>3 DEF Stop, Enter, Go
    <3> QED BY <1>0, <3>1 DEF StopInv, StoppedIsOff, At
  <2> QED BY <1>1, <2>1, <2>2, <2>3 DEF Calls
<1>2. CASE PowerOffTest \/ OffSeen
  <2>1. /\ UNCHANGED <<call, module>> /\ Sample /\ pc \in {"powerOff", "offWait"}
        /\ pc' \in {"offKey", "offWait"} \/ pc' = (IF call = "ltem_stop" THEN "idle" ELSE "powerOn")
    BY <1>2 DEF PowerOffTest, OffSeen, AfterPowerOff, Looks, Plain, Inside, powerVars, At, Go
  <2> QED BY <1>0, <2>1, SampleStops, QuietKeepsStopped
<1>3. CASE OffFailed
  <2>1. /\ UNCHANGED <<call, module>> /\ pc = "offWait" /\ deviceState' # powerOff
        /\ pc' = (IF call = "ltem_stop" THEN "idle" ELSE "powerOn")
    BY <1>3 DEF OffFailed, FailedPowerOff, Sampled, AfterPowerOff, Inside, powerVars, powerOff, powerOn, appReady,
                At, Go
  <2> QED BY <1>0, <2>1, QuietKeepsStopped
<1>4. CASE OffKey
  <2>1. UNCHANGED call /\ pc = "offKey" /\ pc' = "offWait" /\ (module' = "held" => module = "held")
    BY <1>4 DEF OffKey, Pulse, PulseEffect, Plain, Inside, At, Go
  <2> QED BY <1>0, <2>1, QuietKeepsStopped
<1>5. CASE Library /\ ~(PowerOffTest \/ OffSeen \/ OffFailed \/ OffKey)
  <2>1. call' = call /\ (call = "ltem_stop" => FALSE)
    <3>1. pc \notin {"powerOff", "offKey", "offWait", "idle"}
      BY <1>5
      DEF Library, StartTest, TestBridge, ResetTest, SendCfun, SeenOff, SeenOn, OffTimeout, OnTimeout, PinHigh,
          PinLow, PowerOnTest, OnKey, OnSeen, OnFailed, InitPower, InitBridge, ReadReady, ReadyTimeout, EnableIrq,
          OptionOk, OptionFails, ClearDataState, SettingSkipped, SettingOk, SettingFails, ApplyNetwork, Provider,
          Return, At
    <3>2. call' = call
      BY <1>5
      DEF Library, StartTest, TestBridge, ResetTest, SendCfun, SeenOff, SeenOn, OffTimeout, OnTimeout, PinHigh,
          PinLow, PowerOnTest, OnKey, OnSeen, OnFailed, InitPower, InitBridge, ReadReady, ReadyTimeout, EnableIrq,
          OptionOk, OptionFails, ClearDataState, SettingSkipped, SettingOk, SettingFails, SettingQuiet,
          ApplyNetwork, Provider, Return, OptionQuiet, Looks, Plain, Inside, locals
    <3> QED BY <1>0, <3>1, <3>2
  <2>2. module' = "held" => pc' = "pinLow"
    <3>1. CASE PinHigh
      BY <3>1 DEF PinHigh, Down, powerVars, Go
    <3>2. CASE PinLow \/ SendCfun \/ OnKey
      BY <1>0, <3>2 DEF PinLow, SendCfun, OnKey, Pulse, PulseEffect, At
    <3>3. CASE ~(PinHigh \/ PinLow \/ SendCfun \/ OnKey)
      <4>1. UNCHANGED module /\ pc # "pinLow"
        BY <1>5, <3>3
        DEF Library, StartTest, TestBridge, ResetTest, SeenOff, SeenOn, OffTimeout, OnTimeout,
            PowerOnTest, OnSeen, OnFailed, InitPower, InitBridge, ReadReady, ReadyTimeout, EnableIrq,
            OptionOk, OptionFails, ClearDataState, SettingSkipped, SettingOk, SettingFails, SettingQuiet,
            ApplyNetwork, Provider, Return, OptionQuiet, BridgeStart, Looks, powerVars, At
      <4> QED BY <1>0, <4>1
    <3> QED BY <3>1, <3>2, <3>3
  <2> QED BY <2>1, <2>2, QuietKeepsStopped
<1>6. CASE HostReset
  <2>1. call' # "ltem_stop" /\ UNCHANGED module /\ pc # "pinLow"
    BY <1>6 DEF HostReset
  <2> QED BY <1>0, <2>1 DEF StopInv, StoppedIsOff
<1>7. CASE Module
  <2>1. /\ UNCHANGED <<pc, call, deviceState, sawRising>>
        /\ (module # "off" /\ module # "held") \/ module' = module
        /\ module' # "held"
    BY <1>7 DEF Module, Rise, BootText, Ready, Fall, Restart, SelfRestart, Down, ModuleQuiet, locals
  <2> QED BY <1>0, <2>1 DEF StopInv, StoppedIsOff, At
<1>8. CASE Environment \/ UNCHANGED vars
  BY <1>8 DEF Environment, vars, devVars, locals, stateVars, powerVars, StopInv, StoppedIsOff, At
<1> QED BY <1>1, <1>2, <1>3, <1>4, <1>5, <1>6, <1>7, <1>8 DEF Next, Library

(* Theorem 5.  After ltem_stop(), a device state of off means that the     *)
(* module is off, whatever it did while it was being stopped.              *)
THEOREM StopsOff == Spec => []StoppedIsOff
<1>1. Init => TypeInv /\ StopInv
  BY TypeInit DEF Init, StopInv, StoppedIsOff
<1>2. TypeInv /\ StopInv /\ [Next]_vars => (TypeInv /\ StopInv)'
  BY TypeInductive, StopInductive DEF TypeInv
<1>3. StopInv => StoppedIsOff
  BY DEF StopInv
<1> QED BY <1>1, <1>2, <1>3, PTL DEF Spec

-----------------------------------------------------------------------------
(* An initialized module.  From the start of the bridge on, nothing is     *)
(* lost unless the module goes down, and each pass over the options that   *)
(* ends has had every option taken.                                        *)
Starting == call \in {"ltem_start", "ltem_reset"} /\ ~lost
Optioned == {"options", "clear", "setting", "network", "provider", "idle"}
Finished == {"setting", "network", "provider", "idle"}
Down3 == {"off", "rising", "held"}
InitInv ==
    /\ bridge = "off" <=> module \in Down3
    /\ Starting =>
         /\ pc \in Optioned \cup {"appReady", "irq"} => bridge = "set"
         /\ pc \in Optioned => irqOn
         /\ pc = "options" /\ cmdIndx = 2 => "ATE0" \in config
         /\ pc \in Finished => {"ATE0", "QURCCFG"} \subseteq config

(* A step that leaves the bridge and the options alone, and the call no    *)
(* further than it was.                                                    *)
LEMMA QuietKeepsInit ==
    ASSUME InitInv, UNCHANGED <<bridge, irqOn, config>>,
           module' \in Down3 <=> module \in Down3,
           Starting' => /\ Starting
                        /\ pc' \in Optioned \cup {"appReady", "irq"} => pc \in Optioned \cup {"appReady", "irq"}
                        /\ pc' \in Optioned => pc \in Optioned
                        /\ pc' = "options" /\ cmdIndx' = 2 => pc = "options" /\ cmdIndx = 2
                        /\ pc' \in Finished => pc \in Finished
    PROVE  InitInv'
BY DEF InitInv

(* Before the bridge is started, nothing is promised. *)
Early == PCs \ (Optioned \cup {"appReady", "irq"})
LEMMA EarlyKeepsInit ==
    ASSUME bridge' = "off" <=> module' \in Down3, pc' \in Early
    PROVE  InitInv'
BY DEF InitInv, Early, Optioned, Finished

LEMMA LostKeepsInit ==
    ASSUME bridge' = "off" <=> module' \in Down3, lost' = TRUE
    PROVE  InitInv'
BY DEF InitInv, Starting

LEMMA InitInductive ==
    ASSUME CallType, PowerType, InitInv, [Next]_vars PROVE InitInv'
<1>0. bridge = "off" <=> module \in Down3
  BY DEF InitInv
<1>1. CASE Calls
  <2>1. CASE Start \/ Reset
    <3>1. UNCHANGED <<bridge, module>> /\ pc' \in {"start", "reset"}
      BY <2>1 DEF Start, Reset, EnterReset, Enter, Go, powerVars, bridgeVars
    <3> QED BY <1>0, <3>1, EarlyKeepsInit DEF Early, PCs, Yields, Optioned
  <2>2. CASE Stop \/ CallAwaitProvider \/ \E m \in {0, 1} : SetScanMode(m)
    <3>1. UNCHANGED <<bridge, module>> /\ call' \notin {"ltem_start", "ltem_reset"}
      BY <2>2 DEF Stop, CallAwaitProvider, SetScanMode, Enter, powerVars, bridgeVars
    <3> QED BY <1>0, <3>1 DEF InitInv, Starting
  <2>3. CASE GetDeviceState
    BY <2>3, QuietKeepsInit DEF GetDeviceState, locals, initVars, powerVars, bridgeVars, Starting
  <2> QED BY <1>1, <2>1, <2>2, <2>3 DEF Calls
<1>2. CASE Library
  <2>1. CASE \/ StartTest \/ ResetTest \/ SendCfun \/ SeenOff \/ SeenOn \/ OffTimeout \/ OnTimeout
             \/ PinLow \/ OffKey \/ PowerOnTest \/ OnKey \/ OnSeen \/ OnFailed \/ InitPower
    <3>1. pc' \in Early
      BY <2>1 DEF StartTest, ResetTest, SendCfun, SeenOff, SeenOn, OffTimeout, OnTimeout, PinLow, OffKey,
                  PowerOnTest, OnKey, OnSeen, OnFailed, InitPower, OffTimeoutGoes, Looks, Go,
                  Early, PCs, Yields, Optioned
    <3>2. bridge' = bridge
      BY <2>1 DEF StartTest, ResetTest, SendCfun, SeenOff, SeenOn, OffTimeout, OnTimeout, PinLow, OffKey,
                  PowerOnTest, OnKey, OnSeen, OnFailed, InitPower, Pulse, Looks, powerVars, bridgeVars
    <3>3. module' \in Down3 <=> module \in Down3
      <4>1. CASE SendCfun \/ PinLow \/ OffKey \/ OnKey
        BY <4>1 DEF SendCfun, PinLow, OffKey, OnKey, Pulse, PulseEffect, PowerType, Modules, Down3
      <4>2. CASE ~(SendCfun \/ PinLow \/ OffKey \/ OnKey)
        BY <2>1, <4>2 DEF StartTest, ResetTest, SeenOff, SeenOn, OffTimeout, OnTimeout,
                          PowerOnTest, OnSeen, OnFailed, InitPower, Looks, powerVars
      <4> QED BY <4>1, <4>2
    <3> QED BY <1>0, <3>1, <3>2, <3>3, EarlyKeepsInit
  <2>2. CASE TestBridge
    <3>1. pc' \in Early /\ module' = module /\ (bridge' = "off" <=> bridge = "off")
      BY <2>2 DEF TestBridge, BridgeStart, Go, Early, PCs, Yields, Optioned
    <3> QED BY <1>0, <3>1, EarlyKeepsInit
  <2>3. CASE PinHigh
    <3>1. pc' \in Early
      BY <2>3 DEF PinHigh, Go, Early, PCs, Yields, Optioned
    <3>2. bridge' = "off" <=> module' \in Down3
      BY <1>0, <2>3 DEF PinHigh, Down, powerVars, bridgeVars, Down3
    <3> QED BY <3>1, <3>2, EarlyKeepsInit
  <2>4. CASE PowerOffTest \/ OffSeen \/ OffFailed
    <3>1. /\ UNCHANGED powerVars /\ call' = call /\ pc \in {"powerOff", "offWait"}
          /\ pc' \in {"offKey", "offWait"} \/ pc' = (IF call = "ltem_stop" THEN "idle" ELSE "powerOn")
      BY <2>4 DEF PowerOffTest, OffSeen, OffFailed, AfterPowerOff, Looks, Plain, Inside, At, Go
    <3>2. CASE pc' = "idle" /\ call = "ltem_stop"
      BY <1>0, <3>1, <3>2 DEF InitInv, Starting, powerVars, bridgeVars
    <3>3. CASE pc' \in {"offKey", "offWait", "powerOn"}
      BY <1>0, <3>1, <3>3, EarlyKeepsInit DEF powerVars, bridgeVars, Early, PCs, Yields, Optioned
    <3> QED BY <3>1, <3>2, <3>3
  <2>5. CASE InitBridge
    <3>1. CASE bridge # "off" /\ BridgeStart /\ Go(IF ltemReset THEN "appReady" ELSE "irq")
      <4>1. bridge' = "set" /\ module' = module /\ pc' \in {"appReady", "irq"} /\ module \notin Down3
        BY <1>0, <3>1 DEF BridgeStart, Go
      <4> QED BY <4>1 DEF InitInv, Optioned, Finished
    <3>2. CASE Go("halt") /\ UNCHANGED powerVars
      BY <1>0, <3>2, EarlyKeepsInit DEF Go, powerVars, bridgeVars, Early, PCs, Yields, Optioned
    <3> QED BY <2>5, <3>1, <3>2 DEF InitBridge
  <2>6. CASE ReadReady \/ ReadyTimeout
    <3>1. /\ UNCHANGED <<bridge, irqOn, config, module, call, lost>>
          /\ pc = "appReady" /\ pc' \in {"appReady", "irq"}
      BY <2>6 DEF ReadReady, ReadyTimeout, Plain, Inside, powerVars, bridgeVars, At, Go
    <3> QED BY <3>1, QuietKeepsInit DEF Starting, Optioned, Finished
  <2>7. CASE EnableIrq
    <3>1. /\ UNCHANGED <<bridge, config, module, call, lost>>
          /\ pc = "irq" /\ pc' = "options" /\ irqOn' = (bridge = "set") /\ cmdIndx' = 1
      BY <2>7 DEF EnableIrq, Inside, At, Go
    <3>2. Starting' => bridge = "set" /\ irqOn'
      BY <3>1 DEF InitInv, Starting
    <3>3. (bridge' = "off" <=> module' \in Down3) /\ pc' \notin Finished /\ cmdIndx' # 2
      BY <1>0, <3>1 DEF Finished
    <3>4. bridge' = bridge
      BY <3>1
    <3> QED BY <3>2, <3>3, <3>4 DEF InitInv
  <2>8. CASE OptionOk
    <3>1. /\ UNCHANGED <<bridge, irqOn, module, call, lost>> /\ pc = "options"
          /\ config' = config \cup {InitCmds[cmdIndx]}
      BY <2>8 DEF OptionOk, OptionQuiet, Inside, bridgeVars, At
    <3>2. Starting' => Starting /\ bridge = "set" /\ irqOn
      BY <3>1 DEF InitInv, Starting, Optioned
    <3>3. CASE cmdIndx = 1
      <4>1. pc' = "options" /\ "ATE0" \in config'
        BY <2>8, <3>1, <3>3, CmdFacts DEF OptionOk
      <4> QED BY <1>0, <3>1, <3>2, <4>1 DEF InitInv, Finished
    <3>4. CASE cmdIndx = 2
      <4>1. pc' \in {"clear", "setting"} /\ "QURCCFG" \in config'
        BY <2>8, <3>1, <3>4, CmdFacts DEF OptionOk, Go
      <4>2. Starting' => "ATE0" \in config'
        BY <3>1, <3>2, <3>4 DEF InitInv
      <4> QED BY <1>0, <3>1, <3>2, <4>1, <4>2 DEF InitInv
    <3>5. cmdIndx \in 1..2
      BY <3>1 DEF CallType
    <3> QED BY <3>3, <3>4, <3>5
  <2>9. CASE OptionFails \/ ClearDataState
    <3>1. /\ UNCHANGED <<bridge, irqOn, module, call, lost>>
          /\ pc \in {"options", "clear"} /\ pc' \in {"clear", "hang", "options"}
          /\ pc' = "options" => cmdIndx' = 1
      BY <2>9 DEF OptionFails, ClearDataState, PassesEnd, OptionQuiet, Inside, bridgeVars, At, Go
    <3>2. Starting' => Starting /\ bridge = "set" /\ irqOn
      BY <3>1 DEF InitInv, Starting, Optioned
    <3> QED BY <1>0, <3>1, <3>2 DEF InitInv, Finished
  <2>10. CASE SettingSkipped \/ SettingOk \/ SettingFails \/ ApplyNetwork \/ Provider \/ Return
    <3>1. /\ UNCHANGED <<bridge, irqOn, config, module, call, lost>>
          /\ pc \in Finished /\ pc' \in Finished
      BY <2>10 DEF SettingSkipped, SettingOk, SettingFails, SettingQuiet, AfterSetting, ApplyNetwork, Provider,
                   Return, Plain, Inside, locals, powerVars, bridgeVars, At, Go, Finished
    <3> QED BY <3>1, QuietKeepsInit DEF Starting, Optioned, Finished
  <2> QED BY <1>2, <2>1, <2>2, <2>3, <2>4, <2>5, <2>6, <2>7, <2>8, <2>9, <2>10 DEF Library
<1>3. CASE HostReset
  <2>1. UNCHANGED <<bridge, module>> /\ call' = "none"
    BY <1>3 DEF HostReset
  <2> QED BY <1>0, <2>1 DEF InitInv, Starting
<1>4. CASE Module
  <2>1. CASE Rise
    <3>1. /\ module = "rising" /\ module' = "boot" /\ bridge' = "raw"
          /\ UNCHANGED <<pc, call, cmdIndx, irqOn, config, lost>>
      BY <2>1 DEF Rise, ModuleQuiet, locals, initVars
    <3>2. bridge = "off" /\ bridge # "set"
      BY <1>0, <3>1 DEF Down3
    <3>3. Starting' => pc' \notin Optioned \cup {"appReady", "irq"}
      BY <3>1, <3>2 DEF InitInv, Starting
    <3> QED BY <3>1, <3>3 DEF InitInv, Down3, Optioned, Finished
  <2>2. CASE BootText \/ Ready
    BY <2>2, QuietKeepsInit DEF BootText, Ready, ModuleQuiet, locals, initVars, Down3, Starting
  <2>3. CASE Fall \/ Restart \/ SelfRestart
    <3>1. bridge' = "off" /\ module' \in Down3 /\ lost' = TRUE
      BY <2>3 DEF Fall, Restart, SelfRestart, Down, Down3
    <3> QED BY <3>1, LostKeepsInit
  <2> QED BY <1>4, <2>1, <2>2, <2>3 DEF Module
<1>5. CASE Environment \/ UNCHANGED vars
  BY <1>5, QuietKeepsInit DEF Environment, vars, devVars, locals, initVars, powerVars, bridgeVars, Starting
<1> QED BY <1>1, <1>2, <1>3, <1>4, <1>5 DEF Next

(* Theorem 6.  A start or reset that has returned has found every initial  *)
(* option taken, the bridge set up and its interrupts on, unless the       *)
(* module went down meanwhile: however often options failed, and wherever  *)
(* the start came from.                                                    *)
THEOREM StartsInitialized == Spec => []Initialized
<1>1. Init => TypeInv /\ InitInv
  <2>1. Init => InitInv
    BY DEF Init, InitInv, Starting, Down3
  <2> QED BY <2>1, TypeInit
<1>2. TypeInv /\ InitInv /\ [Next]_vars => (TypeInv /\ InitInv)'
  BY TypeInductive, InitInductive DEF TypeInv
<1>3. TypeInv /\ InitInv => Initialized
  BY CmdFacts DEF TypeInv, PowerType, InitInv, Initialized, Starting, Optioned, Finished, At
<1> QED BY <1>1, <1>2, <1>3, PTL DEF Spec
=============================================================================
