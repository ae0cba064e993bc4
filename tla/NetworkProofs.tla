--------------------------- MODULE NetworkProofs ---------------------------
(***************************************************************************)
(* Theorems about the network part of Device (module Network): the table   *)
(* that ntwk_awaitProvider() fills, for every table size, set of contexts  *)
(* and bound.                                                              *)
(***************************************************************************)
EXTENDS Device, FiniteSetTheorems, TLAPS

-----------------------------------------------------------------------------
(* Extremes of sets of numbers. *)
LEMMA LeastNatural ==
    ASSUME NEW S \in SUBSET Nat, S # {} PROVE \E x \in S : \A y \in S : x <= y
<1>1. PICK x \in S : \A y \in S : ~(<<y, x>> \in OpToRel(<, Nat))
  BY NatLessThanWellFounded, WFMin
<1>2. \A y \in S : ~(y < x)
  BY <1>1 DEF OpToRel
<1> QED BY <1>2

LEMMA GreatestNatural ==
    ASSUME NEW S \in SUBSET Nat, S # {}, NEW n \in Nat, \A x \in S : x <= n
    PROVE  \E x \in S : \A y \in S : x >= y
<1> DEFINE T == {n - x : x \in S}
<1>1. T \in SUBSET Nat /\ T # {}
  <2>1. \A x \in S : n - x \in Nat
    OBVIOUS
  <2> QED BY <2>1
<1>2. PICK z \in T : \A y \in T : z <= y
  BY <1>1, LeastNatural
<1>3. PICK x \in S : z = n - x
  OBVIOUS
<1>4. \A y \in S : n - x <= n - y
  BY <1>2, <1>3
<1> QED BY <1>4

-----------------------------------------------------------------------------
(* AT+CGACT? answers with a line for every context defined: no context has *)
(* two.                                                                    *)
AnswersOf == UNION {[1..n -> [id : Contexts, isActive : BOOLEAN]] : n \in 0..Cardinality(Contexts)}

LEMMA ContextsFacts ==
    /\ Contexts \subseteq Nat \ {0} /\ Cardinality(Contexts) \in Nat
    /\ \A a \in AnswersOf : /\ Len(a) \in Nat /\ DOMAIN a = 1..Len(a)
                           /\ \A n \in 1..Len(a) : a[n] \in [id : Contexts, isActive : BOOLEAN]
<1>1. Cardinality(Contexts) \in Nat
  BY NetworkAssumption, FS_CardinalityType
<1>2. Contexts \subseteq Nat \ {0}
  BY NetworkAssumption
<1>3. ASSUME NEW a \in AnswersOf
      PROVE  /\ Len(a) \in Nat /\ DOMAIN a = 1..Len(a)
             /\ \A n \in 1..Len(a) : a[n] \in [id : Contexts, isActive : BOOLEAN]
  <2>1. PICK n \in 0..Cardinality(Contexts) : a \in [1..n -> [id : Contexts, isActive : BOOLEAN]]
    BY DEF AnswersOf
  <2>2. n \in Nat
    BY <1>1
  <2> QED BY <2>1, <2>2
<1> QED BY <1>1, <1>2, <1>3

LEMMA NoAnswerTyped == NoAnswer \in AnswersOf
<1>1. NoAnswer \in [1..0 -> [id : Contexts, isActive : BOOLEAN]] /\ 0 \in 0..Cardinality(Contexts)
  BY ContextsFacts DEF NoAnswer
<1> QED BY <1>1 DEF AnswersOf

LEMMA LinesFacts ==
    ASSUME NEW ids \in Listings
    PROVE  /\ Lines(ids) \in AnswersOf
           /\ \A m, n \in DOMAIN Lines(ids) : Lines(ids)[m].id = Lines(ids)[n].id => m = n
<1>1. PICK n \in 0..Cardinality(Contexts) : ids \in [1..n -> Contexts]
  BY DEF Listings
<1>2. \A i, j \in 1..n : i < j => ids[i] < ids[j]
  BY <1>1 DEF Listings
<1>3. /\ Lines(ids) \in [1..n -> [id : Contexts, isActive : BOOLEAN]]
      /\ \A i \in 1..n : Lines(ids)[i].id = ids[i]
  BY <1>1 DEF Lines
<1>4. ASSUME NEW i \in 1..n, NEW j \in 1..n, ids[i] = ids[j] PROVE i = j
  <2>1. ids[i] \in Nat /\ ids[j] \in Nat /\ i \in Nat /\ j \in Nat
    <3>1. ids[i] \in Contexts /\ ids[j] \in Contexts
      BY <1>1
    <3>2. Contexts \subseteq Nat /\ i \in Nat /\ j \in Nat
      <4>1. n \in Nat
        BY <1>1, ContextsFacts
      <4> QED BY <4>1, NetworkAssumption
    <3> QED BY <3>1, <3>2
  <2>2. ~(i < j) /\ ~(j < i)
    BY <1>2, <1>4, <2>1
  <2> QED BY <2>1, <2>2
<1>5. DOMAIN Lines(ids) = 1..n
  BY <1>3
<1> QED BY <1>3, <1>4, <1>5 DEF AnswersOf

-----------------------------------------------------------------------------
(* What a step of Device does to the network part: nothing, start the call *)
(* of ntwk_awaitProvider(), one step of it, a change by the network or the *)
(* application, or the reset of a host that is in no call.                 *)
CallStarts == step = "off" /\ step' = "clear" /\ UNCHANGED <<tableVars, answer, ntwk, cancelVars, contextVars>>
HostStarts == /\ step = "off"
              /\ providerName' = FALSE /\ networks' = [i \in 1..TableSize |-> NoEntry] /\ networkCnt' = 0
              /\ UNCHANGED <<step, answer, ntwk, cancelVars, contextVars>>
NetStep == UNCHANGED netVars \/ CallStarts \/ ProviderStep(Answers) \/ NetEnvironment \/ HostStarts

(* ntwk_awaitProvider() runs inside the call that reached it. *)
InProvider == step # "off" => At("provider")

LEMMA NetworkSteps ==
    ASSUME InProvider, [Next]_vars
    PROVE  NetStep /\ InProvider'
<1>1. CASE Calls
  <2>1. CASE Start \/ Reset \/ Stop \/ \E m \in {0, 1} : SetScanMode(m)
    BY <2>1 DEF Start, Reset, Stop, SetScanMode, EnterReset, Enter, NetStep, netVars, InProvider, At
  <2>2. CASE GetDeviceState
    BY <2>2 DEF GetDeviceState, NetStep, netVars, InProvider, At
  <2>3. CASE CallAwaitProvider
    BY <2>3 DEF CallAwaitProvider, Enter, Go, NetStep, CallStarts, InProvider, At
  <2> QED BY <1>1, <2>1, <2>2, <2>3 DEF Calls
<1>2. CASE Library
  <2>1. CASE ApplyNetwork
    BY <2>1 DEF ApplyNetwork, Go, NetStep, CallStarts, InProvider, At
  <2>2. CASE Provider
    BY <2>2 DEF Provider, NetStep, InProvider, At
  <2>3. CASE Return
    BY <2>3 DEF Return, Plain, Inside, NetStep, netVars, InProvider, At
  <2>4. CASE pc # "provider" /\ UNCHANGED netVars
    BY <2>4 DEF NetStep, InProvider, netVars, At
  <2>5. CASE StartTest \/ SettingSkipped \/ SettingOk \/ SettingFails
    BY <2>4, <2>5 DEF StartTest, SettingSkipped, SettingOk, SettingFails, SettingQuiet, At
  <2>6. CASE ~(StartTest \/ SettingSkipped \/ SettingOk \/ SettingFails \/ ApplyNetwork \/ Provider \/ Return)
    BY <1>2, <2>4, <2>6
    DEF Library, TestBridge, ResetTest, SendCfun, SeenOff, SeenOn, OffTimeout, OnTimeout, PinHigh, PinLow,
        PowerOffTest, OffKey, OffSeen, OffFailed, PowerOnTest, OnKey, OnSeen, OnFailed, InitPower, InitBridge,
        ReadReady, ReadyTimeout, EnableIrq, OptionOk, OptionFails, ClearDataState,
        Looks, Plain, Inside, OptionQuiet, At
  <2> QED BY <2>1, <2>2, <2>3, <2>5, <2>6
<1>3. CASE HostReset
  BY <1>3 DEF HostReset, NetStep, HostStarts, InProvider, At
<1>4. CASE Module
  BY <1>4 DEF Module, Rise, BootText, Ready, Fall, Restart, SelfRestart, ModuleQuiet, NetStep, netVars,
              InProvider, At
<1>5. CASE Environment
  BY <1>5 DEF Environment, NetEnvironment, ContextChanges, Cancel, Withdraw, devVars, NetStep, InProvider, At
<1>6. CASE UNCHANGED vars
  BY <1>6 DEF vars, devVars, netVars, NetStep, InProvider, At
<1> QED BY <1>1, <1>2, <1>3, <1>4, <1>5, <1>6 DEF Next

-----------------------------------------------------------------------------
(* The types of the network part, and an address belongs to the context it *)
(* was given to.                                                           *)
Given == /\ given \in Seq(Contexts)
         /\ \A c \in active : \E k \in DOMAIN given : given[k] = c
Addressed == \A i \in 1..TableSize :
    networks[i].ipAddress > 0 =>
        networks[i].ipAddress <= Len(given) /\ given[networks[i].ipAddress] = networks[i].pdpContextId
NetInv == InProvider /\ NetTypeOK /\ Given /\ Addressed

(* AT+CGPADDR answers for a context in use with the last address it got. *)
LEMMA AddressFacts ==
    ASSUME NetTypeOK, Given, NEW c \in Contexts
    PROVE  /\ AddressOf(c) \in 0..Len(given)
           /\ AddressOf(c) > 0 => given[AddressOf(c)] = c
<1>1. CASE c \notin active
  BY <1>1 DEF AddressOf, ZeroIp, NetTypeOK
<1>2. CASE c \in active
  <2> DEFINE S == {k \in DOMAIN given : given[k] = c}
  <2>1. Len(given) \in Nat /\ DOMAIN given = 1..Len(given)
    BY DEF Given
  <2>2. S \in SUBSET Nat /\ S # {} /\ \A x \in S : x <= Len(given)
    BY <1>2, <2>1 DEF Given
  <2>3. \E x \in S : \A y \in S : x >= y
    BY <2>1, <2>2, GreatestNatural
  <2>4. Max(S) \in S
    BY <2>3 DEF Max
  <2>5. AddressOf(c) = Max(S)
    BY <1>2 DEF AddressOf
  <2> QED BY <2>1, <2>4, <2>5
<1> QED BY <1>1, <1>2

LEMMA NetInit0 == Init => NetInv
<1> SUFFICES ASSUME Init PROVE NetInv
  OBVIOUS
<1>1. NetInit /\ networks = [i \in 1..TableSize |-> NoEntry]
  BY DEF Init, NetInit
<1>2. TableSize \in Nat /\ MaxGiven \in Nat /\ MaxCancels \in Nat
  BY NetworkAssumption
<1>3. NoEntry \in Entry /\ NoEntry.ipAddress = -1
  BY <1>2 DEF NoEntry, Entry, Empty
<1>4. NetTypeOK
  <2>1. networks \in [1..TableSize -> Entry]
    BY <1>1, <1>3
  <2>2. ntwk \in [count : 0..(TableSize + 1), at : 0..(TableSize + 2)]
    BY <1>1, <1>2 DEF NetInit, NotAsked
  <2>3. /\ networkCnt \in 0..(TableSize + 1) /\ cancels \in 0..MaxCancels
        /\ Len(given) \in 0..MaxGiven /\ DOMAIN given = {}
    BY <1>1, <1>2 DEF NetInit
  <2> QED BY <1>1, <2>1, <2>2, <2>3, NoAnswerTyped DEF NetInit, NetTypeOK, AnswersOf
<1>5. Given /\ Addressed
  BY <1>1, <1>3 DEF NetInit, Given, Addressed
<1> QED BY <1>1, <1>4, <1>5 DEF NetInv, InProvider, NetInit

(* The steps of ntwk_awaitProvider() that write the table. *)
LEMMA ContextsKeepNet ==
    ASSUME NetInv, QueryContexts(Answers) PROVE NetTypeOK' /\ Given' /\ Addressed'
<1>1. TableSize \in Nat /\ TableSize >= 1 /\ MaxGiven \in Nat
  BY NetworkAssumption
<1>2. \A i \in 1..TableSize : networks[i] \in Entry
  BY DEF NetInv, NetTypeOK
<1>3. /\ answer' \in AnswersOf
      /\ UNCHANGED <<providerName, cancelVars, contextVars, networkCnt>> /\ step' = "cgpaddr"
  BY LinesFacts DEF QueryContexts, CountLater, NetInv, NetTypeOK, AnswersOf
<1>4. \A n \in Nat : Entries(n) \in 0..(TableSize + 1)
  BY <1>1 DEF Entries
<1>5. ntwk' \in [count : 0..(TableSize + 1), at : 0..(TableSize + 2)]
  <2>1. Entries(0) \in 0..(TableSize + 1) /\ Entries(Len(answer')) \in 0..(TableSize + 1)
    BY <1>3, <1>4, ContextsFacts
  <2>2. \/ ntwk' = [count |-> Entries(0), at |-> 1]
        \/ ntwk' = [count |-> Entries(Len(answer')), at |-> 1]
    BY DEF QueryContexts
  <2>3. 1 \in 0..(TableSize + 2)
    BY <1>1
  <2> QED BY <2>1, <2>2, <2>3
<1>6. /\ networks' \in [1..TableSize -> Entry]
      /\ \A i \in 1..TableSize : networks'[i] = networks[i] \/ networks'[i].ipAddress = -1
  <2>1. CASE networks' = Filled(answer')
    <3>1. ASSUME NEW i \in 1..TableSize PROVE networks'[i] = networks[i] \/ (networks'[i] \in Entry /\ networks'[i].ipAddress = -1)
      <4>1. CASE i <= Len(answer')
        <5>1. answer'[i] \in [id : Contexts, isActive : BOOLEAN]
          BY <1>1, <1>3, <4>1, ContextsFacts
        <5>2. networks'[i] = [pdpContextId |-> answer'[i].id, isActive |-> answer'[i].isActive, ipAddress |-> -1]
          BY <2>1, <4>1 DEF Filled, Empty
        <5> QED BY <1>1, <5>1, <5>2 DEF Entry, Empty
      <4> QED BY <2>1, <4>1 DEF Filled
    <3>2. networks' = [i \in 1..TableSize |-> networks'[i]]
      BY <2>1 DEF Filled
    <3> QED BY <1>2, <3>1, <3>2
  <2>2. CASE networks' = networks
    BY <2>2 DEF NetInv, NetTypeOK
  <2> QED BY <2>1, <2>2 DEF QueryContexts
<1>7. NetTypeOK'
  BY <1>3, <1>5, <1>6 DEF NetInv, NetTypeOK, AnswersOf, cancelVars, contextVars
<1>8. Given'
  BY <1>3 DEF NetInv, Given, contextVars
<1>9. Addressed'
  <2>1. \A i \in 1..TableSize : networks'[i].ipAddress > 0 => networks'[i] = networks[i]
    BY <1>6
  <2>2. given' = given
    BY <1>3 DEF contextVars
  <2> QED BY <2>1, <2>2 DEF NetInv, Addressed
<1> QED BY <1>7, <1>8, <1>9

LEMMA AddressKeepsNet ==
    ASSUME NetInv, QueryAddress(Answers) PROVE NetTypeOK' /\ Given' /\ Addressed'
<1>1. TableSize \in Nat /\ TableSize >= 1 /\ MaxGiven \in Nat
  BY NetworkAssumption
<1>2. PICK n, i : /\ n \in 0..(TableSize + 1) /\ i \in 0..(TableSize + 2)
                  /\ ntwk = [count |-> n, at |-> i]
  BY DEF NetInv, NetTypeOK
<1>3. /\ i <= n /\ ntwk' = [count |-> n, at |-> i + 1]
      /\ UNCHANGED <<providerName, networkCnt, step, answer, cancelVars, contextVars>>
  BY <1>2 DEF QueryAddress, NetInv, NetTypeOK
<1>4. ntwk' \in [count : 0..(TableSize + 1), at : 0..(TableSize + 2)]
  BY <1>1, <1>2, <1>3
<1>5. networks' = networks \/ \E ip : /\ networks' = [networks EXCEPT ![i].ipAddress = ip]
                                      /\ \/ ip = 0
                                         \/ /\ ip \in 0..Len(given)
                                            /\ ip > 0 => given[ip] = networks[i].pdpContextId
  <2>1. \A c \in Contexts : AddressOf(c) \in 0..Len(given) /\ (AddressOf(c) > 0 => given[AddressOf(c)] = c)
    BY AddressFacts DEF NetInv
  <2> QED BY <1>2, <2>1 DEF QueryAddress, SetIp, Asked, ZeroIp
<1>6. Len(given) \in Nat /\ Len(given) <= MaxGiven /\ networks \in [1..TableSize -> Entry]
  BY DEF NetInv, Given, NetTypeOK
<1>7. networks' \in [1..TableSize -> Entry] /\ Addressed'
  <2>1. CASE networks' = networks
    BY <1>3, <1>6, <2>1 DEF NetInv, Addressed, contextVars
  <2>2. CASE networks' # networks
    <3>1. PICK ip : /\ networks' = [networks EXCEPT ![i].ipAddress = ip]
                    /\ \/ ip = 0
                       \/ /\ ip \in 0..Len(given)
                          /\ ip > 0 => given[ip] = networks[i].pdpContextId
      BY <1>5, <2>2
    <3>2. ip \in 0..Len(given) /\ (ip > 0 => given[ip] = networks[i].pdpContextId)
      BY <1>6, <3>1
    <3>3. ASSUME NEW j \in 1..TableSize
          PROVE  /\ networks'[j] \in Entry /\ networks'[j].pdpContextId = networks[j].pdpContextId
                 /\ networks'[j].ipAddress = IF j = i THEN ip ELSE networks[j].ipAddress
      <4>1. networks[j] \in Entry
        BY <1>6
      <4> QED BY <1>1, <1>6, <3>1, <3>2, <4>1 DEF Entry, Empty
    <3>4. networks' \in [1..TableSize -> Entry]
      BY <1>6, <3>1, <3>3
    <3>5. Addressed'
      <4>1. given' = given
        BY <1>3 DEF contextVars
      <4> QED BY <1>6, <3>2, <3>3, <4>1 DEF NetInv, Addressed
    <3> QED BY <3>4, <3>5
  <2> QED BY <2>1, <2>2
<1>8. NetTypeOK'
  BY <1>3, <1>4, <1>7 DEF NetInv, NetTypeOK, cancelVars, contextVars
<1>9. Given'
  BY <1>3 DEF NetInv, Given, contextVars
<1> QED BY <1>7, <1>8, <1>9

LEMMA NetInductive == NetInv /\ [Next]_vars => NetInv'
<1> SUFFICES ASSUME NetInv, [Next]_vars PROVE NetInv'
  OBVIOUS
<1>0. NetStep /\ InProvider'
  BY NetworkSteps DEF NetInv
<1>1. TableSize \in Nat /\ TableSize >= 1 /\ MaxGiven \in Nat /\ MaxCancels \in Nat
  BY NetworkAssumption
<1>2. NoEntry \in Entry /\ NoEntry.ipAddress = -1
  BY <1>1 DEF NoEntry, Entry, Empty
<1>3. SUFFICES NetTypeOK' /\ Given' /\ Addressed'
  BY <1>0 DEF NetInv
<1>4. CASE UNCHANGED netVars
  BY <1>4 DEF NetInv, NetTypeOK, Given, Addressed, netVars, tableVars, cancelVars, contextVars
<1>5. CASE CallStarts
  BY <1>5 DEF CallStarts, NetInv, NetTypeOK, Given, Addressed, tableVars, cancelVars, contextVars
<1>6. CASE HostStarts \/ AwaitProvider
  <2>1. /\ networks' = [i \in 1..TableSize |-> NoEntry] /\ networkCnt' = 0
        /\ providerName' \in BOOLEAN
        /\ step' \in {"off", "cops"} /\ answer' \in {answer, NoAnswer} /\ ntwk' \in {ntwk, NotAsked}
        /\ UNCHANGED <<cancelVars, contextVars>>
    BY <1>6 DEF HostStarts, AwaitProvider, NetInv, NetTypeOK
  <2>2. networks' \in [1..TableSize -> Entry] /\ \A i \in 1..TableSize : networks'[i].ipAddress = -1
    BY <1>2, <2>1
  <2>3. ntwk' \in [count : 0..(TableSize + 1), at : 0..(TableSize + 2)] /\ networkCnt' \in 0..(TableSize + 1)
    BY <1>1, <2>1 DEF NotAsked, NetInv, NetTypeOK
  <2>4. NetTypeOK'
    <3>1. NoAnswer \in AnswersOf
      BY NoAnswerTyped
    <3> QED BY <2>1, <2>2, <2>3, <3>1 DEF NetInv, NetTypeOK, AnswersOf, cancelVars, contextVars
  <2>5. Given' /\ Addressed'
    BY <2>1, <2>2 DEF NetInv, Given, Addressed, contextVars
  <2> QED BY <2>4, <2>5
<1>7. CASE FoundProvider(Answers) \/ GiveUpProvider
  BY <1>7 DEF FoundProvider, GiveUpProvider, NetInv, NetTypeOK, Given, Addressed, tableVars, cancelVars, contextVars
<1>8. CASE QueryContexts(Answers) \/ QueryAddress(Answers)
  BY <1>8, ContextsKeepNet, AddressKeepsNet
<1>9. CASE AddressesDone
  <2>1. /\ networkCnt' = ntwk.count /\ step' = "off" /\ ntwk' = NotAsked
        /\ UNCHANGED <<providerName, networks, answer, cancelVars, contextVars>>
    BY <1>9 DEF AddressesDone
  <2>2. networkCnt' \in 0..(TableSize + 1) /\ ntwk' \in [count : 0..(TableSize + 1), at : 0..(TableSize + 2)]
    BY <1>1, <2>1 DEF NotAsked, NetInv, NetTypeOK
  <2> QED BY <2>1, <2>2 DEF NetInv, NetTypeOK, Given, Addressed, cancelVars, contextVars
<1>10. CASE NetEnvironment
  <2>1. CASE Cancel \/ Withdraw
    <3>1. /\ cancels' \in 0..MaxCancels /\ cancellationRequest' \in BOOLEAN
          /\ UNCHANGED <<tableVars, step, answer, ntwk, contextVars>>
      <4>1. cancels \in 0..MaxCancels /\ cancellationRequest \in BOOLEAN
        BY DEF NetInv, NetTypeOK
      <4>2. CASE Cancel
        BY <1>1, <4>1, <4>2 DEF Cancel
      <4>3. CASE Withdraw
        BY <4>1, <4>3 DEF Withdraw
      <4> QED BY <2>1, <4>2, <4>3
    <3> QED BY <3>1 DEF NetInv, NetTypeOK, Given, Addressed, tableVars, contextVars
  <2>2. ASSUME NEW c \in Contexts, ContextChanges(c) PROVE NetTypeOK' /\ Given' /\ Addressed'
    <3>1. UNCHANGED <<tableVars, step, answer, ntwk, cancelVars>>
      BY <2>2 DEF ContextChanges
    <3>2. CASE active' = active \ {c} /\ UNCHANGED given
      BY <3>1, <3>2 DEF NetInv, NetTypeOK, Given, Addressed, tableVars, cancelVars
    <3>3. CASE Len(given) < MaxGiven /\ active' = active \cup {c} /\ given' = Append(given, c)
      <4>1. /\ given' \in Seq(Contexts) /\ Len(given') = Len(given) + 1 /\ Len(given) \in Nat
            /\ given'[Len(given) + 1] = c
            /\ \A k \in 1..Len(given) : given'[k] = given[k]
        BY <3>3 DEF NetInv, Given
      <4>2. /\ Len(given') \in 0..MaxGiven /\ \A k \in DOMAIN given' : given'[k] \in Contexts
        BY <1>1, <3>3, <4>1
      <4>3. NetTypeOK'
        BY <3>1, <3>3, <4>2 DEF NetInv, NetTypeOK, tableVars, cancelVars
      <4>4. Given'
        <5>1. \A d \in active : \E k \in 1..Len(given) : given[k] = d
          BY DEF NetInv, Given
        <5> QED BY <3>3, <4>1, <5>1 DEF Given
      <4>5. Addressed'
        <5>1. \A i \in 1..TableSize : networks[i].ipAddress \in Int
          BY <1>1 DEF NetInv, NetTypeOK, Entry, Empty
        <5> QED BY <3>1, <4>1, <5>1 DEF NetInv, Addressed, tableVars
      <4> QED BY <4>3, <4>4, <4>5
    <3> QED BY <2>2, <3>2, <3>3 DEF ContextChanges
  <2> QED BY <1>10, <2>1, <2>2 DEF NetEnvironment
<1> QED BY <1>0, <1>4, <1>5, <1>6, <1>7, <1>8, <1>9, <1>10 DEF NetStep, ProviderStep

(* Theorem 1.  The address stored with a context was given to that context, *)
(* whatever the network does between the commands of ntwk_awaitProvider(). *)
THEOREM AddressesOwned == Spec => []AddressOfContext
<1>1. Init => NetInv
  BY NetInit0
<1>2. NetInv => AddressOfContext
  BY DEF NetInv, Addressed, AddressOfContext
<1> QED BY <1>1, <1>2, NetInductive, PTL DEF Spec

(* Theorem 2.  A reader of the table sees none of it while                 *)
(* ntwk_awaitProvider() fills it: the count is cleared first and written   *)
(* last.                                                                   *)
THEOREM TableIsWhole == Spec => []TableWhole
<1>1. Init => NetInv /\ TableWhole
  BY NetInit0 DEF Init, NetInit, TableWhole
<1>2. NetInv /\ TableWhole /\ [Next]_vars => (NetInv /\ TableWhole)'
  <2> SUFFICES ASSUME NetInv, TableWhole, [Next]_vars PROVE TableWhole'
    BY NetInductive
  <2>1. NetStep
    BY NetworkSteps DEF NetInv
  <2>2. CASE ProviderStep(Answers)
    BY <2>2 DEF TableWhole, ProviderStep, AwaitProvider, FoundProvider, GiveUpProvider, QueryContexts,
                QueryAddress, AddressesDone, CountLater, tableVars, cancelVars, contextVars
  <2>3. CASE UNCHANGED netVars \/ CallStarts \/ NetEnvironment \/ HostStarts
    BY <2>3 DEF TableWhole, netVars, CallStarts, HostStarts, NetEnvironment, ContextChanges, Cancel, Withdraw,
                tableVars, cancelVars, contextVars
  <2> QED BY <2>1, <2>2, <2>3 DEF NetStep
<1> QED BY <1>1, <1>2, PTL DEF Spec

-----------------------------------------------------------------------------
(* The table agrees with the answer it was filled from, at every step from *)
(* the answer on, and rows without a line have no context; only the count  *)
(* comes later.                                                            *)
Matches ==
    \A i \in 1..TableSize :
        /\ i <= Len(answer) => /\ networks[i].pdpContextId = answer[i].id
                               /\ networks[i].isActive = answer[i].isActive
        /\ i > Len(answer)  => networks[i].pdpContextId = 0

Counted(n) == n = Entries(Len(answer)) /\ Matches

TableInv ==
    /\ \A m, n \in DOMAIN answer : answer[m].id = answer[n].id => m = n
    /\ networkCnt > 0 => step \in {"off", "clear"} /\ Counted(networkCnt)
    /\ step \in {"cops", "cgact"} => answer = NoAnswer /\ Matches
    /\ step = "cgpaddr" => Counted(ntwk.count)
    /\ step # "cgpaddr" => ntwk.count = 0

LEMMA EntriesFacts ==
    /\ TableSize \in Nat /\ TableSize >= 1
    /\ \A n \in Nat : /\ Entries(n) \in Nat \ {0}
                      /\ n <= TableSize /\ n # 0 => Entries(n) = n
                      /\ n > TableSize <=> Entries(n) = TableSize + 1
<1>1. TableSize \in Nat /\ TableSize >= 1
  BY NetworkAssumption
<1> QED BY <1>1 DEF Entries

LEMMA ContextsFillTable ==
    ASSUME NetInv, TableInv, QueryContexts(Answers) PROVE TableInv'
<1>1. /\ step = "cgact" /\ step' = "cgpaddr" /\ UNCHANGED networkCnt /\ answer = NoAnswer
      /\ ~(networkCnt > 0) /\ Matches
  BY DEF QueryContexts, CountLater, TableInv
<1>2. \A i \in 1..TableSize : networks[i].pdpContextId = 0
  <2>1. Len(answer) = 0 /\ \A i \in 1..TableSize : i > 0
    BY <1>1, EntriesFacts DEF NoAnswer
  <2> QED BY <1>1, <2>1 DEF Matches
<1>3. SUFFICES /\ \A m, n \in DOMAIN answer' : answer'[m].id = answer'[n].id => m = n
               /\ ntwk'.count = Entries(Len(answer')) /\ Matches'
  BY <1>1 DEF TableInv, Counted
<1>4. ASSUME answer' \in {Lines(ids) : ids \in Listings}, networks' = Filled(answer'),
             ntwk' = [count |-> Entries(Len(answer')), at |-> 1]
      PROVE  /\ \A m, n \in DOMAIN answer' : answer'[m].id = answer'[n].id => m = n
             /\ ntwk'.count = Entries(Len(answer')) /\ Matches'
  <2>1. \A m, n \in DOMAIN answer' : answer'[m].id = answer'[n].id => m = n
    BY <1>4, LinesFacts
  <2>2. Len(answer') \in Nat
    BY <1>4, LinesFacts, ContextsFacts
  <2>3. ASSUME NEW i \in 1..TableSize
        PROVE  /\ i <= Len(answer') => /\ networks'[i].pdpContextId = answer'[i].id
                                       /\ networks'[i].isActive = answer'[i].isActive
               /\ i > Len(answer')  => networks'[i].pdpContextId = 0
    <3>1. CASE i <= Len(answer')
      <4>1. networks'[i] = [pdpContextId |-> answer'[i].id, isActive |-> answer'[i].isActive, ipAddress |-> Empty]
        BY <1>4, <3>1 DEF Filled
      <4>2. ~(i > Len(answer'))
        BY <2>2, <3>1, EntriesFacts
      <4> QED BY <4>1, <4>2
    <3>2. CASE ~(i <= Len(answer'))
      <4>1. networks'[i] = networks[i]
        BY <1>4, <3>2 DEF Filled
      <4> QED BY <1>2, <3>2, <4>1
    <3> QED BY <3>1, <3>2
  <2> QED BY <1>4, <2>1, <2>3 DEF Matches
<1>5. ASSUME ntwk' = [count |-> Entries(0), at |-> 1], UNCHANGED <<answer, networks>>
      PROVE  /\ \A m, n \in DOMAIN answer' : answer'[m].id = answer'[n].id => m = n
             /\ ntwk'.count = Entries(Len(answer')) /\ Matches'
  <2>1. Len(answer') = 0
    BY <1>1, <1>5 DEF NoAnswer
  <2>2. Matches'
    BY <1>1, <1>5 DEF Matches
  <2> QED BY <1>5, <2>1, <2>2 DEF TableInv
<1> QED BY <1>4, <1>5 DEF QueryContexts

(* An address changes neither the context of a row nor its state. *)
LEMMA AddressKeepsTable ==
    ASSUME NetInv, TableInv, QueryAddress(Answers) PROVE TableInv'
<1>1. PICK n, i : /\ n \in 0..(TableSize + 1) /\ i \in 0..(TableSize + 2)
                  /\ ntwk = [count |-> n, at |-> i]
  BY DEF NetInv, NetTypeOK
<1>2. /\ step = "cgpaddr" /\ ntwk' = [count |-> n, at |-> i + 1]
      /\ UNCHANGED <<networkCnt, step, answer>>
      /\ networks' = networks \/ \E ip : networks' = [networks EXCEPT ![i].ipAddress = ip]
  BY <1>1 DEF QueryAddress, SetIp
<1>3. \A j \in 1..TableSize : /\ networks'[j].pdpContextId = networks[j].pdpContextId
                              /\ networks'[j].isActive = networks[j].isActive
  <2>1. CASE networks' = networks
    BY <2>1
  <2>2. ASSUME NEW ip, networks' = [networks EXCEPT ![i].ipAddress = ip], NEW j \in 1..TableSize
        PROVE  /\ networks'[j].pdpContextId = networks[j].pdpContextId
               /\ networks'[j].isActive = networks[j].isActive
    <3>1. networks[j] \in Entry /\ networks \in [1..TableSize -> Entry]
      BY DEF NetInv, NetTypeOK
    <3> QED BY <2>2, <3>1 DEF Entry
  <2> QED BY <1>2, <2>1, <2>2
<1>4. Matches' /\ ntwk'.count = ntwk.count
  <2>1. Matches
    BY <1>2 DEF TableInv, Counted
  <2> QED BY <1>1, <1>2, <1>3, <2>1 DEF Matches
<1> QED BY <1>2, <1>4 DEF TableInv, Counted

LEMMA TableInductive ==
    ASSUME NetInv, TableInv, [Next]_vars PROVE TableInv'
<1>0. NetStep
  BY NetworkSteps DEF NetInv
<1>1. networkCnt \in Nat /\ TableSize \in Nat
  BY NetworkAssumption DEF NetInv, NetTypeOK
<1>2. CASE UNCHANGED netVars
  BY <1>2 DEF TableInv, Counted, Matches, netVars, tableVars
<1>3. CASE CallStarts
  BY <1>3 DEF CallStarts, TableInv, Counted, Matches, tableVars
<1>4. CASE HostStarts
  <2>1. networkCnt' = 0 /\ step = "off" /\ UNCHANGED <<step, answer, ntwk>>
    BY <1>4 DEF HostStarts
  <2> QED BY <2>1 DEF TableInv
<1>5. CASE AwaitProvider
  <2>1. /\ networks' = [i \in 1..TableSize |-> NoEntry] /\ networkCnt' = 0
        /\ step' = "cops" /\ answer' = NoAnswer /\ ntwk' = NotAsked
    BY <1>5 DEF AwaitProvider
  <2>2. Matches'
    <3>1. Len(answer') = 0 /\ \A i \in 1..TableSize : ~(i <= 0) /\ networks'[i].pdpContextId = 0
      BY <1>1, <2>1 DEF NoAnswer, NoEntry
    <3> QED BY <3>1 DEF Matches
  <2>3. DOMAIN answer' = {} /\ ntwk'.count = 0
    BY <2>1 DEF NoAnswer, NotAsked
  <2> QED BY <2>1, <2>2, <2>3 DEF TableInv
<1>6. CASE FoundProvider(Answers) \/ GiveUpProvider
  BY <1>6 DEF FoundProvider, GiveUpProvider, TableInv, Counted, Matches, tableVars
<1>7. CASE QueryContexts(Answers)
  BY <1>7, ContextsFillTable
<1>8. CASE QueryAddress(Answers)
  BY <1>8, AddressKeepsTable
<1>9. CASE AddressesDone
  <2>1. /\ step = "cgpaddr" /\ networkCnt' = ntwk.count /\ step' = "off" /\ ntwk' = NotAsked
        /\ UNCHANGED <<networks, answer>>
    BY <1>9 DEF AddressesDone
  <2>2. ntwk'.count = 0
    BY <2>1 DEF NotAsked
  <2> QED BY <2>1, <2>2 DEF TableInv, Counted, Matches, Entries
<1>10. CASE NetEnvironment
  <2>1. UNCHANGED <<tableVars, step, answer, ntwk>>
    BY <1>10 DEF NetEnvironment, ContextChanges, Cancel, Withdraw
  <2> QED BY <2>1 DEF TableInv, Counted, Matches, tableVars
<1> QED BY <1>0, <1>2, <1>3, <1>4, <1>5, <1>6, <1>7, <1>8, <1>9, <1>10 DEF NetStep, ProviderStep

(* What a look-up gives: the one row of the context, NULL or, with a row   *)
(* counted behind the table, that.                                         *)
LEMMA LookUpFacts ==
    ASSUME NetInv, NEW c \in Contexts, NEW row \in ntwk_getNetworkInfo(c), row # Behind
    PROVE  LET rows == {i \in 1..TableSize : i <= networkCnt /\ networks[i].pdpContextId = c} IN
           row \in rows \/ (row = NULL /\ rows = {})
<1> DEFINE rows == {i \in 1..TableSize : i <= networkCnt /\ networks[i].pdpContextId = c}
<1>1. CASE rows # {}
  <2>1. rows \in SUBSET Nat
    BY EntriesFacts
  <2>2. \E x \in rows : \A y \in rows : x <= y
    BY <1>1, <2>1, LeastNatural
  <2>3. Min(rows) \in rows
    BY <2>2 DEF Min
  <2>4. row = Min(rows)
    BY <1>1 DEF ntwk_getNetworkInfo
  <2> QED BY <2>3, <2>4
<1>2. CASE rows = {}
  BY <1>2 DEF ntwk_getNetworkInfo
<1> QED BY <1>1, <1>2

(* Theorem 3.  The application finds in the table exactly those contexts   *)
(* in use that the module answered are, as far as the table goes, and      *)
(* nothing behind the table is gone through unless the answer had more     *)
(* lines than the table has rows.                                          *)
THEOREM TableAgrees == Spec => []TableMatchesAnswer
<1>1. Init => NetInv /\ TableInv
  <2>1. Init => TableInv
    <3> SUFFICES ASSUME Init PROVE TableInv
      OBVIOUS
    <3>1. networkCnt = 0 /\ ntwk.count = 0 /\ step = "off" /\ DOMAIN answer = {}
      BY DEF Init, NetInit, NotAsked, NoAnswer
    <3> QED BY <3>1 DEF TableInv
  <2> QED BY <2>1, NetInit0
<1>2. NetInv /\ TableInv /\ [Next]_vars => (NetInv /\ TableInv)'
  BY NetInductive, TableInductive
<1>3. NetInv /\ TableInv => TableMatchesAnswer
  <2> SUFFICES ASSUME NetInv, TableInv PROVE TableMatchesAnswer
    OBVIOUS
  <2>1. /\ answer \in AnswersOf /\ Len(answer) \in Nat /\ DOMAIN answer = 1..Len(answer)
        /\ \A n \in 1..Len(answer) : answer[n] \in [id : Contexts, isActive : BOOLEAN]
        /\ networkCnt \in Nat /\ Contexts \subseteq Nat \ {0}
    <3>1. answer \in AnswersOf /\ networkCnt \in 0..(TableSize + 1)
      BY DEF NetInv, NetTypeOK, AnswersOf
    <3> QED BY <3>1, ContextsFacts, EntriesFacts
  <2>2. Behind \in {ntwk.count, networkCnt} => Len(answer) > TableSize
    <3>1. Behind # 0 /\ Behind = TableSize + 1 /\ Behind > 0
      BY EntriesFacts DEF Behind
    <3>2. CASE Behind = networkCnt
      BY <2>1, <3>1, <3>2, EntriesFacts DEF TableInv, Counted
    <3>3. CASE Behind = ntwk.count
      BY <2>1, <3>1, <3>3, EntriesFacts DEF TableInv, Counted
    <3> QED BY <3>2, <3>3
  <2>3. ASSUME networkCnt > 0, NEW c \in Contexts, NEW row \in ntwk_getNetworkInfo(c), row # Behind
        PROVE  (row # NULL /\ networks[row].isActive)
                   <=> \E n \in DOMAIN answer : n <= TableSize /\ answer[n] = [id |-> c, isActive |-> TRUE]
    <3> DEFINE rows == {i \in 1..TableSize : i <= networkCnt /\ networks[i].pdpContextId = c}
    <3>1. row \in rows \/ (row = NULL /\ rows = {})
      BY <2>3, LookUpFacts
    <3>2. /\ networkCnt = Entries(Len(answer)) /\ Matches
          /\ \A m, n \in DOMAIN answer : answer[m].id = answer[n].id => m = n
      BY <2>3 DEF TableInv, Counted
    <3>3. ASSUME NEW i \in rows
          PROVE  /\ i \in 1..Len(answer) /\ answer[i].id = c
                 /\ networks[i].isActive = answer[i].isActive
      <4>1. i \in 1..TableSize /\ networks[i].pdpContextId = c /\ c # 0
        BY <2>1
      <4>2. ~(i > Len(answer))
        BY <3>2, <4>1 DEF Matches
      <4>3. i \in Nat /\ i >= 1
        BY <4>1, EntriesFacts
      <4>4. i <= Len(answer) /\ i \in 1..Len(answer)
        BY <2>1, <4>2, <4>3
      <4>5. networks[i].pdpContextId = answer[i].id /\ networks[i].isActive = answer[i].isActive
        BY <3>2, <4>1, <4>4 DEF Matches
      <4> QED BY <4>1, <4>4, <4>5
    <3>4. ASSUME NEW n \in DOMAIN answer, n <= TableSize, answer[n] = [id |-> c, isActive |-> TRUE]
          PROVE  n \in rows /\ \A i \in rows : i = n
      <4>1. n \in 1..Len(answer) /\ n \in 1..TableSize /\ n <= networkCnt
        <5> DEFINE l == Len(answer)
        <5>1. /\ l \in Nat /\ n \in 1..l /\ n <= TableSize /\ TableSize \in Nat /\ networkCnt = Entries(l)
              /\ l <= TableSize /\ l # 0 => Entries(l) = l
              /\ l > TableSize => Entries(l) = TableSize + 1
          BY <2>1, <3>2, <3>4, EntriesFacts
        <5> HIDE DEF l
        <5>2. n \in 1..l /\ n \in 1..TableSize /\ n <= networkCnt
          BY <5>1
        <5> QED BY <5>2 DEF l
      <4>2. answer[n].id = c /\ n <= Len(answer)
        BY <3>4, <4>1
      <4>3. networks[n].pdpContextId = c
        BY <3>2, <4>1, <4>2 DEF Matches
      <4>4. ASSUME NEW i \in rows PROVE i = n
        <5>1. i \in DOMAIN answer /\ answer[i].id = answer[n].id
          BY <2>1, <3>3, <4>2
        <5> QED BY <3>2, <5>1
      <4> QED BY <4>1, <4>3, <4>4
    <3>5. CASE row \in rows
      <4>1. row \in 1..Len(answer) /\ answer[row].id = c /\ networks[row].isActive = answer[row].isActive
        BY <3>3, <3>5
      <4>2. row # NULL
        BY <2>1, <4>1 DEF NULL
      <4>3. ASSUME networks[row].isActive PROVE answer[row] = [id |-> c, isActive |-> TRUE] /\ row <= TableSize
        <5>1. answer[row] \in [id : Contexts, isActive : BOOLEAN]
          BY <2>1, <4>1
        <5>2. answer[row].isActive = TRUE
          BY <4>1, <4>3, <5>1
        <5>3. row <= TableSize
          BY <3>5, EntriesFacts
        <5> QED BY <4>1, <5>1, <5>2, <5>3
      <4>4. ASSUME NEW n \in DOMAIN answer, n <= TableSize, answer[n] = [id |-> c, isActive |-> TRUE]
            PROVE  networks[row].isActive
        <5>1. row = n
          BY <3>4, <3>5, <4>4
        <5> QED BY <4>1, <4>4, <5>1
      <4> QED BY <2>1, <4>1, <4>2, <4>3, <4>4
    <3>6. CASE row = NULL /\ rows = {}
      BY <3>4, <3>6
    <3> QED BY <3>1, <3>5, <3>6
  <2> QED BY <2>2, <2>3 DEF TableMatchesAnswer, ntwk_getActiveNetworkCount
<1> QED BY <1>1, <1>2, <1>3, PTL DEF Spec
=============================================================================
