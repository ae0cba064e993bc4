--------------------------- MODULE ServicesProofs ---------------------------
(***************************************************************************)
(* Proofs about module Services: whatever tasks there are and whatever     *)
(* they call, the lock of the command interface belongs to the call that   *)
(* has a command open, but for the calls that the code lets go on without  *)
(* it and those that another call's result has misled.                     *)
(***************************************************************************)
EXTENDS Services, TLAPS, WellFoundedInduction, SequenceTheorems

(* What the invariants need to know of the scripts. *)
Texts   == {"GSN", "QGMR", "ATI", "ICCID"}
Special == Texts \cup {"again", "COPS"}

Fit(n, s) ==
    /\ s.manual \in BOOLEAN
    /\ s.goesOn => n \in UnlockedCalls
    /\ s.refused = "wait" => n \in UnlockedCalls /\ ~s.manual
    /\ s.refused = "skip" => ~s.manual
    /\ "refused" \in s.closes \/ "failed" \in s.closes => n \in CarelessClosers
    /\ "ended" \in s.closes => n \in CarelessClosers \/ s.manual
    /\ Len(s.cmds) \in Nat \ {0}
    /\ s.manual /\ n \in UnlockedCalls \ {"mdminfo_ltem"} => \A i \in 2..Len(s.cmds) : s.cmds[i].k = "again"
    /\ \A i \in 1..Len(s.cmds) :
          /\ s.cmds[i].k = "again" => n = "file_write"
          /\ s.cmds[i].k \in Texts => n = "mdminfo_ltem"
          /\ s.cmds[i].k = "COPS" => Len(s.cmds) = 1

LEMMA CommandKinds == \A k, p, b, h : Stream(k, h).k = k /\ Feed(k, p, b).k = k /\ AskFor(k, p).k = k
BY DEF Stream, Feed, AskFor, Ask

LEMMA ScriptsFit ==
    /\ Fit("file_getFSInfo", file_getFSInfo) /\ Fit("file_getFilelist", file_getFilelist)
    /\ Fit("file_open", file_open) /\ Fit("file_getOpenFiles", file_getOpenFiles)
    /\ Fit("file_close", file_close) /\ Fit("file_seek", file_seek)
    /\ Fit("file_delete", file_delete) /\ Fit("file_closeAll", file_closeAll)
    /\ Fit("file_getPosition", file_getPosition) /\ Fit("gnss_on", gnss_on)
    /\ Fit("gnss_off", gnss_off) /\ Fit("gnss_getLocation", gnss_getLocation)
    /\ Fit("geo_query", geo_query)
    /\ Fit("gpio_adcRead", gpio_adcRead) /\ Fit("gpio_configPort", gpio_configPort)
    /\ Fit("gpio_read", gpio_read) /\ Fit("gpio_write", gpio_write)
    /\ Fit("mdminfo_ltem", mdminfo_ltem)
    /\ Fit("mdmInfo_signalPercent", mdmInfo_signalPercent) /\ Fit("mdminfo_signalRSSI", mdminfo_signalRSSI)
    /\ Fit("mdminfo_signalBars", mdminfo_signalBars) /\ Fit("tls_configure", tls_configure)
    /\ Fit("tlsGetOptions", tlsGetOptions)
    /\ Fit("ltem_setProviderScanMode", ltem_setProviderScanMode) /\ Fit("ltem_setProviderScanSeq", ltem_setProviderScanSeq)
    /\ Fit("ltem_setIotMode", ltem_setIotMode)
    /\ Fit("NTWK_applyDefaulNetwork", NTWK_applyDefaulNetwork) /\ Fit("ntwk_setNetworkConfig", ntwk_setNetworkConfig)
    /\ Fit("ntwk_activateNetwork", ntwk_activateNetwork) /\ Fit("ntwk_deactivateNetwork", ntwk_deactivateNetwork)
    /\ Fit("ntwk_getRegistrationStatus", ntwk_getRegistrationStatus) /\ Fit("ntwkDIAG_getProviders", ntwkDIAG_getProviders)
    /\ Fit("sckt_open", sckt_open)
    /\ Fit("file_read", file_read) /\ Fit("file_write", file_write)
    /\ Fit("http_readPage", http_readPage)
<1>1. /\ Fit("file_getFSInfo", file_getFSInfo) /\ Fit("file_getFilelist", file_getFilelist)
      /\ Fit("file_open", file_open) /\ Fit("file_getOpenFiles", file_getOpenFiles)
      /\ Fit("file_close", file_close) /\ Fit("file_seek", file_seek)
  BY DEF Fit, Texts, UnlockedCalls, CarelessClosers, Automatic, Sequence, Ask, AskFor,
         file_getFSInfo, file_getFilelist, file_open, file_getOpenFiles, file_close, file_seek
<1>2. /\ Fit("file_delete", file_delete) /\ Fit("file_closeAll", file_closeAll)
      /\ Fit("file_getPosition", file_getPosition) /\ Fit("gnss_on", gnss_on)
      /\ Fit("gnss_off", gnss_off) /\ Fit("gnss_getLocation", gnss_getLocation)
      /\ Fit("geo_query", geo_query)
  BY DEF Fit, Texts, UnlockedCalls, CarelessClosers, Automatic, Sequence, Ask, AskFor,
         file_delete, file_closeAll, file_getPosition, gnss_on, gnss_off, gnss_getLocation, geo_query
<1>3. /\ Fit("gpio_adcRead", gpio_adcRead) /\ Fit("gpio_configPort", gpio_configPort)
      /\ Fit("gpio_read", gpio_read) /\ Fit("gpio_write", gpio_write)
      /\ Fit("mdminfo_ltem", mdminfo_ltem)
  BY DEF Fit, Texts, UnlockedCalls, CarelessClosers, Automatic, Sequence, Ask, AskFor,
         gpio_adcRead, gpio_configPort, gpio_read, gpio_write, mdminfo_ltem
<1>4. /\ Fit("mdmInfo_signalPercent", mdmInfo_signalPercent) /\ Fit("mdminfo_signalRSSI", mdminfo_signalRSSI)
      /\ Fit("mdminfo_signalBars", mdminfo_signalBars) /\ Fit("tls_configure", tls_configure)
      /\ Fit("tlsGetOptions", tlsGetOptions)
  BY DEF Fit, Texts, UnlockedCalls, CarelessClosers, Automatic, Sequence, Ask, AskFor,
         mdmInfo_signalPercent, mdminfo_signalRSSI, mdminfo_signalBars, tls_configure, tlsGetOptions
<1>5. /\ Fit("ltem_setProviderScanMode", ltem_setProviderScanMode) /\ Fit("ltem_setProviderScanSeq", ltem_setProviderScanSeq)
      /\ Fit("ltem_setIotMode", ltem_setIotMode)
  BY DEF Fit, Texts, UnlockedCalls, CarelessClosers, Automatic, Sequence, Ask, AskFor,
         ltem_setProviderScanMode, ltem_setProviderScanSeq, ltem_setIotMode
<1>6. /\ Fit("NTWK_applyDefaulNetwork", NTWK_applyDefaulNetwork) /\ Fit("ntwk_setNetworkConfig", ntwk_setNetworkConfig)
      /\ Fit("ntwk_activateNetwork", ntwk_activateNetwork) /\ Fit("ntwk_deactivateNetwork", ntwk_deactivateNetwork)
  BY DEF Fit, Texts, UnlockedCalls, CarelessClosers, Automatic, Sequence, Ask, AskFor,
         NTWK_applyDefaulNetwork, ntwk_setNetworkConfig, ntwk_activateNetwork, ntwk_deactivateNetwork
<1>7. /\ Fit("ntwk_getRegistrationStatus", ntwk_getRegistrationStatus) /\ Fit("ntwkDIAG_getProviders", ntwkDIAG_getProviders)
      /\ Fit("sckt_open", sckt_open)
  BY DEF Fit, Texts, UnlockedCalls, CarelessClosers, Automatic, Sequence, Ask, AskFor,
         ntwk_getRegistrationStatus, ntwkDIAG_getProviders, sckt_open
<1>8. Fit("file_read", file_read)
  <2> DEFINE c == Stream("QFREAD", "S__filesRxHndlr")
  <2>1. c.k = "QFREAD"
    BY CommandKinds
  <2> HIDE DEF c
  <2>2. file_read = [Automatic(<<c>>) EXCEPT !.won = "true", !.lost = "false"]
    BY DEF file_read, c
  <2> QED BY <2>1, <2>2 DEF Fit, Texts, Automatic
<1>9. Fit("http_readPage", http_readPage)
  <2> DEFINE c == Stream("QHTTPREAD", "S__httpRxHndlr")
  <2>1. c.k = "QHTTPREAD"
    BY CommandKinds
  <2> HIDE DEF c
  <2>2. http_readPage = Automatic(<<c>>)
    BY DEF http_readPage, c
  <2> QED BY <2>1, <2>2 DEF Fit, Texts, Automatic
<1>10. Fit("file_write", file_write)
  <2> DEFINE c == Feed("QFWRITE", ATCMD_okResponseParser, FALSE)
             d == AskFor("again", S__writeStatusParser)
  <2>1. c.k = "QFWRITE" /\ d.k = "again"
    BY CommandKinds
  <2> HIDE DEF c, d
  <2>2. file_write = [Sequence(<<c, d>>) EXCEPT !.goesOn = TRUE]
    BY DEF file_write, c, d
  <2> QED BY <2>1, <2>2 DEF Fit, Texts, Automatic, Sequence, UnlockedCalls, CarelessClosers
<1> QED BY <1>1, <1>2, <1>3, <1>4, <1>5, <1>6, <1>7, <1>8, <1>9, <1>10

Plain == {Ask("plain"), S__setUrl, AskFor("QHTTPGET", S__httpGetStatusParser),
          Feed("QHTTPGET+", S__httpGetStatusParser, FALSE), Feed("QHTTPPOST", S__httpPostStatusParser, FALSE)}

LEMMA PlainKinds == \A c \in Plain : c.k \notin Special
<1>1. /\ Ask("plain").k = "plain" /\ S__setUrl.k = "QHTTPURL" /\ AskFor("QHTTPGET", S__httpGetStatusParser).k = "QHTTPGET"
      /\ Feed("QHTTPGET+", S__httpGetStatusParser, FALSE).k = "QHTTPGET+"
      /\ Feed("QHTTPPOST", S__httpPostStatusParser, FALSE).k = "QHTTPPOST"
  BY CommandKinds DEF S__setUrl, Ask
<1> QED BY <1>1 DEF Plain, Special, Texts

LEMMA RequestsFit == ASSUME NEW h PROVE Fit("http_get", http_get(h)) /\ Fit("http_post", http_post(h))
<1> DEFINE a == Given(h.responseHdrs, <<Ask("plain")>>)
           b == Given(h.useTls, <<Ask("plain")>>)
           g == IF h.cstmHdrs THEN Feed("QHTTPGET+", S__httpGetStatusParser, FALSE)
                              ELSE AskFor("QHTTPGET", S__httpGetStatusParser)
           p == Feed("QHTTPPOST", S__httpPostStatusParser, FALSE)
           u == S__setUrl
           q == Ask("plain")
<1>1. a \in Seq(Plain) /\ b \in Seq(Plain) /\ g \in Plain /\ p \in Plain /\ u \in Plain /\ q \in Plain
  <2>1. q \in Plain /\ u \in Plain /\ p \in Plain
    BY DEF Plain
  <2>2. g \in Plain
    BY DEF Plain
  <2> HIDE DEF q, u, p, g
  <2>3. \A x \in Plain : <<x>> \in Seq(Plain) /\ <<>> \in Seq(Plain)
    OBVIOUS
  <2>4. a \in {<<q>>, <<>>} /\ b \in {<<q>>, <<>>}
    BY DEF Given, q
  <2> QED BY <2>1, <2>2, <2>3, <2>4
<1>2. http_configure(h) = a \o b
  BY DEF http_configure
<1>3. /\ http_get(h).cmds = (a \o b) \o <<u, q, g>> /\ http_post(h).cmds = (a \o b) \o <<u, p>>
      /\ http_get(h).manual /\ ~http_get(h).goesOn /\ http_get(h).refused = "timeout"
      /\ http_post(h).manual /\ ~http_post(h).goesOn /\ http_post(h).refused = "timeout"
      /\ http_get(h).manual \in BOOLEAN /\ http_post(h).manual \in BOOLEAN
  BY <1>2 DEF http_get, http_post, Sequence, Automatic
<1> HIDE DEF a, b, g, p, u, q
<1>4. /\ http_get(h).cmds \in Seq(Plain) /\ http_post(h).cmds \in Seq(Plain)
      /\ Len(http_get(h).cmds) # 0 /\ Len(http_post(h).cmds) # 0
  <2>1. a \o b \in Seq(Plain)
    BY <1>1
  <2>2. <<u, q, g>> \in Seq(Plain) /\ Len(<<u, q, g>>) = 3 /\ <<u, p>> \in Seq(Plain) /\ Len(<<u, p>>) = 2
    BY <1>1
  <2> DEFINE x == a \o b
             y == <<u, q, g>>
             z == <<u, p>>
  <2> HIDE DEF x, y, z
  <2>3. x \o y \in Seq(Plain) /\ Len(x \o y) = Len(x) + 3 /\ x \o z \in Seq(Plain) /\ Len(x \o z) = Len(x) + 2 /\ Len(x) \in Nat
    BY <2>1, <2>2 DEF x, y, z
  <2> QED BY <1>3, <2>3 DEF x, y, z
<1>5. \A s \in Seq(Plain) : \A i \in 1..Len(s) : s[i].k \notin Special
  BY PlainKinds
<1>6. /\ "http_get" \in CarelessClosers /\ "http_post" \in CarelessClosers
      /\ "http_get" \notin UnlockedCalls /\ "http_post" \notin UnlockedCalls
  BY DEF CarelessClosers, UnlockedCalls
<1>7. Len(http_get(h).cmds) \in Nat \ {0} /\ Len(http_post(h).cmds) \in Nat \ {0}
  BY <1>4
<1>8. Fit("http_get", http_get(h))
  BY <1>3, <1>4, <1>5, <1>6, <1>7 DEF Fit, Special, Texts
<1>9. Fit("http_post", http_post(h))
  BY <1>3, <1>4, <1>5, <1>6, <1>7 DEF Fit, Special, Texts
<1> QED BY <1>8, <1>9

LEMMA NamesFit == \A n \in DOMAIN Scripts : Fit(n, Scripts[n]) /\ n \notin {"none", "disturbed"}
BY ScriptsFit DEF Scripts, Fixed

ScriptOf(n, h) == CASE n = "http_get"  -> http_get(h)
                    [] n = "http_post" -> http_post(h)
                    [] OTHER           -> Scripts[n]

LEMMA ScriptIs == \A t : Script(t) = ScriptOf(call[t], http)
BY DEF Script, ScriptOf

LEMMA ScriptFit ==
    ASSUME NEW n \in Names, NEW h
    PROVE  Fit(n, ScriptOf(n, h)) /\ n \notin {"none", "disturbed"}
<1>1. CASE n = "http_get"
  BY <1>1, RequestsFit DEF ScriptOf
<1>2. CASE n = "http_post"
  BY <1>2, RequestsFit DEF ScriptOf
<1>3. CASE n \notin Requests
  <2>1. n \in DOMAIN Scripts /\ ScriptOf(n, h) = Scripts[n]
    BY <1>3 DEF Names, Requests, ScriptOf, Scripts
  <2> QED BY <2>1, NamesFit
<1> QED BY <1>1, <1>2, <1>3 DEF Requests

Setup(h) == <<h.useTls, h.cstmHdrs, h.responseHdrs>>

LEMMA ScriptSame ==
    ASSUME NEW n, NEW h, NEW g, n \in Requests => Setup(h) = Setup(g)
    PROVE  ScriptOf(n, h) = ScriptOf(n, g)
BY DEF ScriptOf, Setup, Requests, http_get, http_post, http_configure

-----------------------------------------------------------------------------
(* The lock is with the call that has a command open, or that is between   *)
(* two commands of a sequence.                                             *)
Pcs == {"idle", "next", "lock", "read", "data", "stream", "yield", "end", "return"}

Settings == [requestState : {"idle", "requestComplete"}, useTls : BOOLEAN, cstmHdrs : BOOLEAN, responseHdrs : BOOLEAN]

Types ==
    /\ pc \in [Tasks -> Pcs] /\ call \in [Tasks -> Names] /\ step \in [Tasks -> Nat \ {0}]
    /\ rslt \in [Tasks -> Codes \cup {"unknown"}] /\ resultCode \in Codes
    /\ disturbed \in [Tasks -> BOOLEAN] /\ misled \subseteq Tasks
    /\ isOpenLocked \in BOOLEAN /\ autoLock \in BOOLEAN
    /\ known \subseteq Texts
    /\ http \in Settings

StepsOf(t) ==
    /\ pc[t] \in {"next", "lock"} => step[t] <= Len(Script(t).cmds)
    /\ pc[t] = "lock" => Script(t).manual /\ step[t] = 1
    /\ pc[t] = "idle" => step[t] = 1
    /\ pc[t] \in {"idle", "next", "lock"} /\ step[t] = 1 => rslt[t] = "none"

Awaits(t) == pc[t] \in {"read", "data", "stream", "yield"}
Apart  == \A t, u \in Tasks : t # u /\ Awaits(t) /\ Awaits(u) => disturbed[t] /\ disturbed[u]
ToldOf(t) == pc[t] = "yield" /\ ~disturbed[t] /\ rslt[t] # "unknown" => resultCode = rslt[t]

Between(t) ==
    /\ Script(t).manual
    /\ \/ pc[t] = "yield" /\ rslt[t] = "success"
       \/ pc[t] = "next" /\ step[t] # 1
       \/ pc[t] = "end" /\ rslt[t] = "success"
Holds(t)  == robber = "none" /\ call[t] \notin UnlockedCalls /\ t \notin misled /\ (Open(t) \/ Between(t))
HeldOf(t) == Holds(t) => isOpenLocked /\ owner = t /\ (Script(t).manual => ~autoLock)

RobberOk == robber \in CarelessClosers \cup {"none", "disturbed"}

LockInv ==
    /\ Types /\ Apart /\ RobberOk
    /\ \A t \in Tasks : StepsOf(t) /\ ToldOf(t) /\ HeldOf(t) /\ (t \in misled => disturbed[t])

(* What a step of t must show: nothing changes for the others, but that    *)
(* they may be disturbed, and a lock that is theirs stays theirs.          *)
Frame(t) ==
    /\ \A u \in Tasks \ {t} :
          /\ pc'[u] = pc[u] /\ call'[u] = call[u] /\ step'[u] = step[u] /\ rslt'[u] = rslt[u]
          /\ Script(u)' = Script(u)
          /\ u \in misled' <=> u \in misled
          /\ disturbed[u] => disturbed'[u]
    /\ robber' = "none" => robber = "none"

LockKept(t) ==
    \A u \in Tasks \ {t} : Holds(u) /\ robber' = "none" =>
        isOpenLocked' /\ owner' = u /\ (Script(u).manual => ~autoLock')

TellsNoOther(t) ==
    \/ resultCode' = resultCode
    \/ \A u \in Tasks \ {t} : pc[u] = "yield" => disturbed'[u]

Meets(t) ==
    Awaits(t)' => \/ Awaits(t) /\ (disturbed[t] => disturbed'[t])
                  \/ \A u \in Tasks \ {t} : Awaits(u) => disturbed'[t] /\ disturbed'[u]

LEMMA StepKeeps ==
    ASSUME LockInv, NEW t \in Tasks, Frame(t), LockKept(t), TellsNoOther(t), Meets(t),
           Types', RobberOk', StepsOf(t)', ToldOf(t)', HeldOf(t)', t \in misled' => disturbed'[t]
    PROVE  LockInv'
<1>1. Apart'
  <2>1. SUFFICES ASSUME NEW u \in Tasks, NEW v \in Tasks, u # v, Awaits(u)', Awaits(v)'
                 PROVE  disturbed'[u] /\ disturbed'[v]
    BY DEF Apart
  <2>2. \A w \in Tasks \ {t} : Awaits(w)' => Awaits(w)
    BY DEF Frame, Awaits
  <2>3. \A w \in Tasks \ {t} : disturbed[w] => disturbed'[w]
    BY DEF Frame
  <2>4. CASE u # t /\ v # t
    BY <2>1, <2>2, <2>3, <2>4 DEF LockInv, Apart
  <2>5. CASE u = t
    BY <2>1, <2>2, <2>3, <2>5 DEF LockInv, Apart, Meets
  <2>6. CASE v = t
    BY <2>1, <2>2, <2>3, <2>6 DEF LockInv, Apart, Meets
  <2> QED BY <2>4, <2>5, <2>6
<1>2. ASSUME NEW u \in Tasks \ {t} PROVE StepsOf(u)' /\ ToldOf(u)' /\ HeldOf(u)' /\ (u \in misled' => disturbed'[u])
  <2>1. StepsOf(u)'
    BY DEF LockInv, StepsOf, Frame
  <2>2. ToldOf(u)'
    BY DEF LockInv, ToldOf, Frame, TellsNoOther
  <2>3. Holds(u)' => Holds(u) /\ robber' = "none"
    BY DEF Frame, Holds, Open, Between
  <2>4. HeldOf(u)'
    BY <2>3 DEF HeldOf, LockKept, Frame
  <2>5. u \in misled' => disturbed'[u]
    BY DEF LockInv, Frame
  <2> QED BY <2>1, <2>2, <2>4, <2>5
<1> QED BY <1>1, <1>2 DEF LockInv

LEMMA StillKeeps ==
    ASSUME LockInv,
           UNCHANGED <<isOpenLocked, autoLock, resultCode, http, known, pc, call, step, rslt, owner, robber, disturbed, misled>>
    PROVE  LockInv'
<1>1. \A t \in Tasks : Script(t)' = Script(t)
  BY DEF Script
<1>2. \A t \in Tasks : StepsOf(t)' /\ ToldOf(t)' /\ HeldOf(t)'
  BY <1>1 DEF LockInv, StepsOf, ToldOf, HeldOf, Holds, Open, Between
<1> QED BY <1>2 DEF LockInv, Types, Apart, Awaits, RobberOk

-----------------------------------------------------------------------------
(* A step of a task that runs: the others are where the code yields.  Who  *)
(* waits for a result there shares it with a task that begins to wait.     *)
OthersYield(t) == \A u \in Tasks \ {t} : pc[u] \in YieldPoints

LEMMA RunsAlone == \A t \in Tasks : \A l : At(t, l) => OthersYield(t) /\ pc[t] = l /\ asserted = "none"
BY DEF At, OthersYield

LEMMA ReadStarts ==
    ASSUME Types, NEW t \in Tasks, OthersYield(t), StartToRead(t)
    PROVE  /\ pc' = [pc EXCEPT ![t] = "read"] /\ pc' \in [Tasks -> Pcs]
           /\ disturbed' \in [Tasks -> BOOLEAN]
           /\ \A u \in Tasks : disturbed[u] => disturbed'[u]
           /\ \A u \in Tasks \ {t} : Awaits(u) => disturbed'[u] /\ disturbed'[t]
<1> DEFINE others == {u \in Tasks \ {t} : pc[u] \in {"yield", "data"}}
<1>1. pc' = [pc EXCEPT ![t] = "read"] /\ disturbed' = [u \in Tasks |-> disturbed[u] \/ (others # {} /\ u \in others \cup {t})]
  BY DEF StartToRead, Goto
<1>2. \A u \in Tasks \ {t} : Awaits(u) => u \in others
  BY DEF Awaits, OthersYield, YieldPoints
<1> HIDE DEF others
<1>3. pc' \in [Tasks -> Pcs]
  BY <1>1 DEF Types, Pcs
<1>4. \A u \in Tasks : disturbed'[u] <=> disturbed[u] \/ (others # {} /\ u \in others \cup {t})
  BY <1>1
<1>5. disturbed' \in [Tasks -> BOOLEAN]
  BY <1>1 DEF Types
<1>6. \A u \in Tasks \ {t} : Awaits(u) => others # {} /\ u \in others \cup {t} /\ t \in others \cup {t}
  BY <1>2
<1> QED BY <1>1, <1>3, <1>4, <1>5, <1>6

LEMMA ReleaseFacts ==
    ASSUME LockInv, NEW t \in Tasks, NEW b \in BOOLEAN, Release(t, b)
    PROVE  /\ \A u \in Tasks \ {t} : Holds(u) /\ robber' = "none" => isOpenLocked' /\ owner' = u
           /\ robber' = "none" => robber = "none"
           /\ isOpenLocked' \in BOOLEAN
           /\ (b /\ robber = "none" => disturbed[t] \/ call[t] \in CarelessClosers \/ owner = t) => RobberOk'
           /\ ~b => isOpenLocked' = isOpenLocked /\ owner' = owner /\ robber' = robber
<1>1. call[t] # "none"
  BY ScriptFit DEF LockInv, Types
<1>2. Nobody \notin Tasks
  BY ServicesAssumption
<1>3. isOpenLocked' = (isOpenLocked /\ ~b) /\ owner' = (IF b THEN Nobody ELSE owner)
  BY DEF Release
<1>4. robber' = IF b /\ owner \notin {t, Nobody} /\ robber = "none"
                THEN IF disturbed[t] THEN "disturbed" ELSE call[t] ELSE robber
  BY DEF Release
<1>5. \A u \in Tasks \ {t} : Holds(u) => robber = "none" /\ isOpenLocked /\ owner = u
  BY DEF LockInv, HeldOf, Holds
<1>6. \A u \in Tasks \ {t} : Holds(u) /\ robber' = "none" => ~b
  BY <1>1, <1>2, <1>4, <1>5
<1>7. robber' = "none" => robber = "none"
  BY <1>4
<1>8. isOpenLocked' \in BOOLEAN
  BY <1>3
<1>9. ASSUME b /\ robber = "none" => disturbed[t] \/ call[t] \in CarelessClosers \/ owner = t PROVE RobberOk'
  BY <1>4, <1>9 DEF RobberOk, LockInv
<1>10. ~b => isOpenLocked' = isOpenLocked /\ owner' = owner /\ robber' = robber
  BY <1>3, <1>4 DEF LockInv, Types
<1>11. \A u \in Tasks \ {t} : Holds(u) /\ robber' = "none" => isOpenLocked' /\ owner' = u
  BY <1>5, <1>6, <1>10
<1> QED BY <1>7, <1>8, <1>9, <1>10, <1>11

LEMMA SameScripts ==
    ASSUME UNCHANGED <<call, http>>
    PROVE  \A u \in Tasks : Script(u)' = Script(u)
BY DEF Script

LEMMA ScriptOfTask ==
    ASSUME Types, NEW t \in Tasks
    PROVE  Fit(call[t], Script(t))
BY ScriptIs, ScriptFit DEF Types

-----------------------------------------------------------------------------
(* The steps that send a command or wait for a result. *)
LEMMA SendKeeps ==
    ASSUME LockInv, NEW t \in Tasks, OthersYield(t), SendCommand(t),
           isOpenLocked' \in BOOLEAN, autoLock' \in BOOLEAN, LockKept(t),
           robber = "none" /\ call[t] \notin UnlockedCalls /\ t \notin misled =>
               isOpenLocked' /\ owner' = t /\ (Script(t).manual => ~autoLock')
    PROVE  LockInv'
<1>1. /\ StartToRead(t) /\ resultCode' = "none"
      /\ UNCHANGED <<http, known, call, step, rslt, robber, misled>>
  BY DEF SendCommand, Reset
<1>2. Types
  BY DEF LockInv
<1>3. /\ pc' = [pc EXCEPT ![t] = "read"] /\ pc' \in [Tasks -> Pcs]
      /\ disturbed' \in [Tasks -> BOOLEAN]
      /\ \A u \in Tasks : disturbed[u] => disturbed'[u]
      /\ \A u \in Tasks \ {t} : Awaits(u) => disturbed'[u] /\ disturbed'[t]
  BY <1>1, <1>2, ReadStarts
<1>4. pc'[t] = "read" /\ \A u \in Tasks \ {t} : pc'[u] = pc[u]
  BY <1>2, <1>3 DEF Types
<1>5. Types'
  BY <1>1, <1>2, <1>3 DEF Types, Codes
<1>6. \A u \in Tasks : Script(u)' = Script(u)
  BY <1>1, SameScripts
<1>7. Frame(t)
  BY <1>1, <1>3, <1>4, <1>6 DEF Frame
<1>8. TellsNoOther(t)
  BY <1>3 DEF TellsNoOther, Awaits
<1>9. Meets(t)
  BY <1>3 DEF Meets
<1>10. StepsOf(t)' /\ ToldOf(t)'
  BY <1>4 DEF StepsOf, ToldOf
<1>11. HeldOf(t)'
  BY <1>1, <1>4, <1>6 DEF HeldOf, Holds
<1>12. RobberOk' /\ (t \in misled' => disturbed'[t])
  BY <1>1, <1>3 DEF LockInv, RobberOk
<1> QED BY <1>5, <1>7, <1>8, <1>9, <1>10, <1>11, <1>12, StepKeeps

LEMMA FreeHeldByNone == ASSUME LockInv, ~isOpenLocked PROVE \A u \in Tasks : ~Holds(u)
BY DEF LockInv, HeldOf

LEMMA TryInvokeKeeps == ASSUME LockInv, NEW t \in Tasks, TryInvoke(t) PROVE LockInv'
<1>1. /\ At(t, "next") /\ ~Script(t).manual /\ ~isOpenLocked
      /\ isOpenLocked' = TRUE /\ autoLock' = TRUE /\ owner' = t /\ SendCommand(t)
  BY DEF TryInvoke, LockIsFree
<1>2. LockKept(t)
  BY <1>1, FreeHeldByNone DEF LockKept
<1> QED BY <1>1, <1>2, RunsAlone, SendKeeps

LEMMA TakeLockKeeps == ASSUME LockInv, NEW t \in Tasks, TakeLock(t) PROVE LockInv'
<1>1. /\ At(t, "next") \/ At(t, "lock")
      /\ ~isOpenLocked
      /\ isOpenLocked' = TRUE /\ autoLock' = FALSE /\ owner' = t /\ SendCommand(t)
  BY DEF TakeLock, LockIsFree
<1>2. LockKept(t)
  BY <1>1, FreeHeldByNone DEF LockKept
<1>3. OthersYield(t)
  BY <1>1, RunsAlone
<1> QED BY <1>1, <1>2, <1>3, SendKeeps

LEMMA InvokeReuseLockKeeps == ASSUME LockInv, NEW t \in Tasks, InvokeReuseLock(t) PROVE LockInv'
<1>1. /\ At(t, "next") /\ Script(t).manual /\ step[t] > 1 /\ isOpenLocked
      /\ autoLock' = FALSE /\ UNCHANGED <<isOpenLocked, owner>> /\ SendCommand(t)
  BY DEF InvokeReuseLock
<1>2. OthersYield(t) /\ pc[t] = "next"
  BY <1>1, RunsAlone
<1>3. LockKept(t)
  BY <1>1 DEF LockKept, LockInv, HeldOf
<1>4. step[t] # 1
  BY <1>1 DEF LockInv, Types
<1>5. robber = "none" /\ call[t] \notin UnlockedCalls /\ t \notin misled => owner = t
  BY <1>1, <1>2, <1>4 DEF LockInv, HeldOf, Holds, Between
<1> QED BY <1>1, <1>2, <1>3, <1>5, SendKeeps DEF LockInv, Types

(* A wait with the lock or without it, by a call that may. *)
LEMMA WaitKeeps ==
    ASSUME LockInv, NEW t \in Tasks, OthersYield(t), StartToRead(t), call[t] \in UnlockedCalls,
           UNCHANGED <<autoLock, http, known, call, step, rslt, misled>>,
           resultCode' \in {"none", resultCode}, isOpenLocked' \in BOOLEAN, RobberOk',
           \A u \in Tasks \ {t} : Holds(u) /\ robber' = "none" => isOpenLocked' /\ owner' = u,
           robber' = "none" => robber = "none"
    PROVE  LockInv'
<1>1. Types
  BY DEF LockInv
<1>2. /\ pc' = [pc EXCEPT ![t] = "read"] /\ pc' \in [Tasks -> Pcs]
      /\ disturbed' \in [Tasks -> BOOLEAN]
      /\ \A u \in Tasks : disturbed[u] => disturbed'[u]
      /\ \A u \in Tasks \ {t} : Awaits(u) => disturbed'[u] /\ disturbed'[t]
  BY <1>1, ReadStarts
<1>3. pc'[t] = "read" /\ \A u \in Tasks \ {t} : pc'[u] = pc[u]
  BY <1>1, <1>2 DEF Types
<1>4. Types'
  BY <1>1, <1>2 DEF Types, Codes
<1>5. \A u \in Tasks : Script(u)' = Script(u)
  BY SameScripts
<1>6. Frame(t)
  BY <1>2, <1>3, <1>5 DEF Frame
<1>7. TellsNoOther(t)
  BY <1>2 DEF TellsNoOther, Awaits
<1>8. Meets(t)
  BY <1>2 DEF Meets
<1>9. StepsOf(t)' /\ ToldOf(t)'
  BY <1>3 DEF StepsOf, ToldOf
<1>10. HeldOf(t)'
  BY DEF HeldOf, Holds
<1>11. LockKept(t)
  BY DEF LockKept, LockInv, HeldOf
<1>12. t \in misled' => disturbed'[t]
  BY <1>2 DEF LockInv
<1> QED BY <1>4, <1>6, <1>7, <1>8, <1>9, <1>10, <1>11, <1>12, StepKeeps

LEMMA AwaitAgainKeeps == ASSUME LockInv, NEW t \in Tasks, AwaitAgain(t) PROVE LockInv'
<1>1. /\ At(t, "next") /\ Command(t).k = "again" /\ StartToRead(t)
      /\ UNCHANGED <<isOpenLocked, autoLock, http, known, call, step, rslt, owner, robber, misled>>
      /\ resultCode' \in {"none", resultCode}
  BY DEF AwaitAgain, Reset
<1>2. OthersYield(t) /\ pc[t] = "next"
  BY <1>1, RunsAlone
<1>3. step[t] \in 1..Len(Script(t).cmds)
  BY <1>2, ScriptOfTask DEF LockInv, Types, StepsOf, Fit
<1>4. call[t] \in UnlockedCalls
  BY <1>1, <1>3, ScriptOfTask DEF LockInv, Fit, Command, UnlockedCalls
<1>5. isOpenLocked' \in BOOLEAN /\ RobberOk'
  BY <1>1 DEF LockInv, Types, RobberOk
<1>6. \A u \in Tasks \ {t} : Holds(u) /\ robber' = "none" => isOpenLocked' /\ owner' = u
  BY <1>1 DEF LockInv, HeldOf
<1> QED BY <1>1, <1>2, <1>4, <1>5, <1>6, WaitKeeps

-----------------------------------------------------------------------------
(* The other steps of a caller.  They disturb nobody and begin no wait:    *)
(* what remains to show is what becomes of the lock and of t itself.       *)
LEMMA QuietKeeps ==
    ASSUME LockInv, NEW t \in Tasks, NEW l \in Pcs, Goto(t, l), l \in {"read", "data", "stream", "yield"} => Awaits(t),
           UNCHANGED <<call, autoLock, resultCode, disturbed>>, known' \subseteq Texts,
           http' \in Settings, Setup(http') = Setup(http),
           step' \in [Tasks -> Nat \ {0}], \A u \in Tasks \ {t} : step'[u] = step[u],
           rslt' \in [Tasks -> Codes \cup {"unknown"}], \A u \in Tasks \ {t} : rslt'[u] = rslt[u],
           misled' \subseteq Tasks, \A u \in Tasks \ {t} : u \in misled' <=> u \in misled,
           t \in misled' => disturbed[t],
           isOpenLocked' \in BOOLEAN, RobberOk', robber' = "none" => robber = "none",
           \A u \in Tasks \ {t} : Holds(u) /\ robber' = "none" => isOpenLocked' /\ owner' = u,
           StepsOf(t)', ToldOf(t)', HeldOf(t)'
    PROVE  LockInv' /\ Script(t)' = Script(t)
<1>1. pc'[t] = l /\ pc' \in [Tasks -> Pcs] /\ \A u \in Tasks \ {t} : pc'[u] = pc[u]
  BY DEF LockInv, Types, Goto
<1>2. Types'
  BY <1>1 DEF LockInv, Types
<1>3. \A u \in Tasks : Script(u)' = Script(u)
  BY DEF Script, http_get, http_post, http_configure, Setup
<1>4. Frame(t)
  BY <1>1, <1>3 DEF Frame
<1>5. LockKept(t)
  BY DEF LockKept, LockInv, HeldOf
<1>6. TellsNoOther(t)
  BY DEF TellsNoOther
<1>7. Meets(t)
  BY <1>1 DEF Meets, Awaits
<1> QED BY <1>2, <1>3, <1>4, <1>5, <1>6, <1>7, StepKeeps

LEMMA WaitForLockKeeps == ASSUME LockInv, NEW t \in Tasks, WaitForLock(t) PROVE LockInv'
<1>1. /\ pc[t] = "next" /\ Script(t).manual /\ step[t] = 1 /\ Goto(t, "lock")
      /\ UNCHANGED <<isOpenLocked, autoLock, resultCode, http, known, call, step, rslt, owner, robber, disturbed, misled>>
  BY DEF WaitForLock, cmdVars, histVars, At
<1>2. pc'[t] = "lock" /\ Script(t)' = Script(t)
  BY <1>1, SameScripts DEF LockInv, Types, Goto
<1>3. StepsOf(t)' /\ ToldOf(t)' /\ HeldOf(t)'
  BY <1>1, <1>2 DEF LockInv, StepsOf, ToldOf, HeldOf, Holds, Open, Between
<1>4. "lock" \in Pcs /\ isOpenLocked' \in BOOLEAN /\ RobberOk' /\ known' \subseteq Texts /\ http' \in Settings
  BY <1>1 DEF Pcs, LockInv, Types, RobberOk
<1>5. \A u \in Tasks \ {t} : Holds(u) /\ robber' = "none" => isOpenLocked' /\ owner' = u
  BY <1>1 DEF LockInv, HeldOf
<1>6. /\ step' \in [Tasks -> Nat \ {0}] /\ rslt' \in [Tasks -> Codes \cup {"unknown"}] /\ misled' \subseteq Tasks
      /\ (t \in misled' => disturbed[t])
  BY <1>1 DEF LockInv, Types
<1> QED BY <1>1, <1>3, <1>4, <1>5, <1>6, QuietKeeps DEF Setup

(* The next command, or the end. *)
LEMMA Advances ==
    ASSUME LockInv, NEW t \in Tasks, Advance(t), UNCHANGED <<call, http>>
    PROVE  \E l \in {"next", "end"} :
              /\ Goto(t, l) /\ pc'[t] = l
              /\ step' \in [Tasks -> Nat \ {0}] /\ \A u \in Tasks \ {t} : step'[u] = step[u]
              /\ step'[t] = step[t] + 1
              /\ l = "next" <=> step[t] < Len(Script(t).cmds)
              /\ StepsOf(t)' /\ ToldOf(t)'
<1> DEFINE l == IF step[t] < Len(Script(t).cmds) THEN "next" ELSE "end"
<1>1. Goto(t, l) /\ step' = [step EXCEPT ![t] = @ + 1]
  BY DEF Advance
<1>2. l \in {"next", "end"} /\ (l = "next" <=> step[t] < Len(Script(t).cmds))
  OBVIOUS
<1> HIDE DEF l
<1>3. pc'[t] = l
  BY <1>1 DEF Goto, LockInv, Types
<1>4. step[t] \in Nat \ {0} /\ Len(Script(t).cmds) \in Nat
  BY ScriptOfTask DEF LockInv, Types, Fit
<1>5. step' \in [Tasks -> Nat \ {0}] /\ step'[t] = step[t] + 1 /\ \A u \in Tasks \ {t} : step'[u] = step[u]
  BY <1>1 DEF LockInv, Types
<1>6. Script(t)' = Script(t)
  BY SameScripts
<1>7. l = "next" => step'[t] <= Len(Script(t).cmds)
  BY <1>2, <1>4, <1>5
<1>8. step'[t] # 1
  BY <1>4, <1>5
<1>9. StepsOf(t)' /\ ToldOf(t)'
  BY <1>2, <1>3, <1>6, <1>7, <1>8 DEF StepsOf, ToldOf
<1> QED BY <1>1, <1>2, <1>3, <1>5, <1>9

LEMMA SkipKnownKeeps == ASSUME LockInv, NEW t \in Tasks, SkipKnown(t) PROVE LockInv'
<1>1. /\ At(t, "next") \/ At(t, "lock")
      /\ Script(t).manual /\ IsKnown(Command(t).k) /\ Advance(t)
      /\ UNCHANGED <<autoLock, resultCode, http, known, call, rslt, robber, disturbed, misled>>
      /\ \/ step[t] = 1 /\ ~isOpenLocked /\ isOpenLocked' = TRUE
         \/ UNCHANGED <<isOpenLocked, owner>>
  BY DEF SkipKnown, LockIsFree
<1>2. pc[t] \in {"next", "lock"}
  BY <1>1, RunsAlone
<1>3. PICK l \in {"next", "end"} :
              /\ Goto(t, l) /\ pc'[t] = l
              /\ step' \in [Tasks -> Nat \ {0}] /\ \A u \in Tasks \ {t} : step'[u] = step[u]
              /\ l = "next" <=> step[t] < Len(Script(t).cmds)
              /\ StepsOf(t)' /\ ToldOf(t)'
  BY <1>1, Advances
<1>4. step[t] \in 1..Len(Script(t).cmds) /\ Fit(call[t], Script(t))
  BY <1>2, ScriptOfTask DEF LockInv, Types, StepsOf, Fit
<1>5. call[t] = "mdminfo_ltem" \/ (step[t] = 1 /\ Len(Script(t).cmds) = 1)
  <2>1. CASE Command(t).k \in known
    BY <2>1, <1>4 DEF LockInv, Types, Fit, Command
  <2>2. CASE Command(t).k = "COPS"
    BY <2>2, <1>4 DEF Fit, Command
  <2> QED BY <1>1, <2>1, <2>2 DEF IsKnown
<1>6. HeldOf(t)'
  <2>1. CASE call[t] = "mdminfo_ltem"
    BY <2>1, <1>1 DEF HeldOf, Holds, UnlockedCalls
  <2>2. CASE step[t] = 1 /\ Len(Script(t).cmds) = 1
    <3>1. l = "end" /\ pc'[t] = "end"
      BY <1>3, <2>2
    <3>2. rslt[t] = "none"
      BY <1>2, <2>2 DEF LockInv, StepsOf
    <3> QED BY <3>1, <3>2, <1>1 DEF HeldOf, Holds, Open, Between
  <2> QED BY <1>5, <2>1, <2>2
<1>7. \A u \in Tasks \ {t} : Holds(u) /\ robber' = "none" => isOpenLocked' /\ owner' = u
  BY <1>1, FreeHeldByNone DEF LockInv, HeldOf
<1>8. isOpenLocked' \in BOOLEAN /\ RobberOk'
  BY <1>1 DEF LockInv, Types, RobberOk
<1>9. l \in Pcs /\ known' \subseteq Texts /\ http' \in Settings /\ Setup(http') = Setup(http)
  BY <1>1, <1>3 DEF Pcs, LockInv, Types, Setup
<1>10. /\ rslt' \in [Tasks -> Codes \cup {"unknown"}] /\ misled' \subseteq Tasks /\ (t \in misled' => disturbed[t])
       /\ \A u \in Tasks \ {t} : rslt'[u] = rslt[u] /\ (u \in misled' <=> u \in misled)
  BY <1>1 DEF LockInv, Types
<1> QED BY <1>1, <1>3, <1>6, <1>7, <1>8, <1>9, <1>10, QuietKeeps

LEMMA RefusedKeeps == ASSUME LockInv, NEW t \in Tasks, Refused(t) PROVE LockInv'
<1> DEFINE b == Closes(t, "refused")
<1>1. /\ (At(t, "next") /\ ~Script(t).manual) \/ At(t, "lock")
      /\ Release(t, b)
      /\ UNCHANGED <<autoLock, resultCode, http, known, call, misled>>
  BY DEF Refused
<1>2. \/ Script(t).refused = "wait" /\ StartToRead(t) /\ UNCHANGED <<step, rslt>>
      \/ /\ Script(t).refused = "skip" \/ step[t] > 1
         /\ rslt' = [rslt EXCEPT ![t] = "success"] /\ Advance(t) /\ UNCHANGED disturbed
      \/ Goto(t, "return") /\ UNCHANGED <<disturbed, step, rslt>>
  BY DEF Refused, Finish
<1>3. Fit(call[t], Script(t)) /\ OthersYield(t) /\ pc[t] \in {"next", "lock"}
  BY <1>1, RunsAlone, ScriptOfTask DEF LockInv
<1>4. b \in BOOLEAN /\ (b => call[t] \in CarelessClosers)
  BY <1>3 DEF Closes, Fit
<1> HIDE DEF b
<1>5. /\ \A u \in Tasks \ {t} : Holds(u) /\ robber' = "none" => isOpenLocked' /\ owner' = u
      /\ robber' = "none" => robber = "none"
      /\ isOpenLocked' \in BOOLEAN /\ RobberOk'
  BY <1>1, <1>4, ReleaseFacts
<1>6. known' \subseteq Texts /\ http' \in Settings /\ Setup(http') = Setup(http)
  BY <1>1 DEF LockInv, Types, Setup
<1>7. misled' \subseteq Tasks /\ (t \in misled' => disturbed[t]) /\ \A u \in Tasks : u \in misled' <=> u \in misled
  BY <1>1 DEF LockInv, Types
<1>8. Script(t)' = Script(t)
  BY <1>1, SameScripts
<1>9. CASE Script(t).refused = "wait" /\ StartToRead(t) /\ UNCHANGED <<step, rslt>>
  <2>1. call[t] \in UnlockedCalls
    BY <1>3, <1>9 DEF Fit
  <2> QED BY <2>1, <1>1, <1>3, <1>5, <1>9, WaitKeeps
<1>10. CASE /\ Script(t).refused = "skip" \/ step[t] > 1
            /\ rslt' = [rslt EXCEPT ![t] = "success"] /\ Advance(t) /\ UNCHANGED disturbed
  <2>1. ~Script(t).manual
    <3>1. CASE Script(t).refused = "skip"
      BY <3>1, <1>3 DEF Fit
    <3>2. CASE step[t] > 1
      BY <3>2, <1>1, RunsAlone DEF LockInv, StepsOf, Types
    <3> QED BY <1>10, <3>1, <3>2
  <2>2. PICK l \in {"next", "end"} :
              /\ Goto(t, l) /\ pc'[t] = l
              /\ step' \in [Tasks -> Nat \ {0}] /\ \A u \in Tasks \ {t} : step'[u] = step[u]
              /\ StepsOf(t)' /\ ToldOf(t)'
    BY <1>1, <1>10, Advances
  <2>3. HeldOf(t)'
    BY <2>1, <2>2, <1>8 DEF HeldOf, Holds, Open, Between
  <2>4. "success" \in Codes
    BY DEF Codes
  <2>5. rslt' \in [Tasks -> Codes \cup {"unknown"}] /\ \A u \in Tasks \ {t} : rslt'[u] = rslt[u]
    BY <1>10, <2>4 DEF LockInv, Types
  <2>6. l \in Pcs
    BY DEF Pcs
  <2> QED BY <1>1, <1>5, <1>6, <1>7, <1>10, <2>2, <2>3, <2>5, <2>6, QuietKeeps
<1>11. CASE Goto(t, "return") /\ UNCHANGED <<disturbed, step, rslt>>
  <2>1. pc'[t] = "return" /\ "return" \in Pcs
    BY <1>11 DEF Goto, LockInv, Types, Pcs
  <2>2. StepsOf(t)' /\ ToldOf(t)' /\ HeldOf(t)'
    BY <2>1 DEF StepsOf, ToldOf, HeldOf, Holds, Open, Between
  <2>3. step' \in [Tasks -> Nat \ {0}] /\ rslt' \in [Tasks -> Codes \cup {"unknown"}]
    BY <1>11 DEF LockInv, Types
  <2> QED BY <1>1, <1>5, <1>6, <1>7, <1>11, <2>1, <2>2, <2>3, QuietKeeps
<1> QED BY <1>2, <1>9, <1>10, <1>11

(* A result, which releases a lock that is t's, or that t has lost. *)
LEMMA ConcludeKeeps ==
    ASSUME LockInv, NEW t \in Tasks, pc[t] \in {"read", "data", "stream"}, NEW c,
           NEW r \in {"success", "cmError", "notFound", "internalError", "timeout", "unknown"}, Conclude(t, r, c),
           UNCHANGED <<autoLock, http, known, call, step, disturbed, misled>>
    PROVE  LockInv'
<1> DEFINE b == Unlocks(r)
<1>1. /\ Release(t, b) /\ resultCode' = Recorded(r) /\ rslt' = [rslt EXCEPT ![t] = r]
      /\ Goto(t, "yield")
  BY DEF Conclude
<1>2. b \in BOOLEAN /\ (r = "unknown" => ~b) /\ (r = "success" /\ ~autoLock => ~b)
  BY DEF Unlocks
<1> HIDE DEF b
<1>3. Open(t) /\ Awaits(t)
  BY DEF Open, Awaits
<1>4. b /\ robber = "none" => disturbed[t] \/ call[t] \in CarelessClosers \/ owner = t
  BY <1>3 DEF LockInv, HeldOf, Holds, CarelessClosers
<1>5. /\ \A u \in Tasks \ {t} : Holds(u) /\ robber' = "none" => isOpenLocked' /\ owner' = u
      /\ robber' = "none" => robber = "none"
      /\ isOpenLocked' \in BOOLEAN /\ RobberOk'
      /\ ~b => isOpenLocked' = isOpenLocked /\ owner' = owner /\ robber' = robber
  BY <1>1, <1>2, <1>4, ReleaseFacts
<1>6. pc'[t] = "yield" /\ pc' \in [Tasks -> Pcs] /\ \A u \in Tasks \ {t} : pc'[u] = pc[u]
  BY <1>1 DEF Goto, LockInv, Types, Pcs
<1>7. rslt' \in [Tasks -> Codes \cup {"unknown"}] /\ rslt'[t] = r /\ \A u \in Tasks \ {t} : rslt'[u] = rslt[u]
  BY <1>1 DEF LockInv, Types, Codes
<1>8. resultCode' \in Codes /\ (r # "unknown" => resultCode' = r)
  BY <1>1 DEF Recorded, Codes
<1>9. Types'
  BY <1>5, <1>6, <1>7, <1>8 DEF LockInv, Types
<1>10. \A u \in Tasks : Script(u)' = Script(u)
  BY SameScripts
<1>11. Frame(t)
  BY <1>5, <1>6, <1>7, <1>10 DEF Frame
<1>12. LockKept(t)
  BY <1>5 DEF LockKept, LockInv, HeldOf
<1>13. TellsNoOther(t)
  BY <1>3 DEF TellsNoOther, LockInv, Apart, Awaits
<1>14. Meets(t)
  BY <1>3 DEF Meets
<1>15. StepsOf(t)' /\ ToldOf(t)'
  BY <1>6, <1>7, <1>8 DEF StepsOf, ToldOf
<1>16. HeldOf(t)'
  <2>1. SUFFICES ASSUME Holds(t)' PROVE isOpenLocked' /\ owner' = t /\ (Script(t).manual => ~autoLock)
    BY <1>10 DEF HeldOf
  <2>2. Holds(t)
    BY <2>1, <1>3, <1>5 DEF Holds
  <2>3. isOpenLocked /\ owner = t /\ (Script(t).manual => ~autoLock)
    BY <2>2 DEF LockInv, HeldOf
  <2>4. r = "unknown" \/ (r = "success" /\ Script(t).manual)
    BY <2>1, <1>6, <1>7, <1>10 DEF Holds, Open, Between
  <2> QED BY <2>3, <2>4, <1>2, <1>5
<1>17. t \in misled' => disturbed'[t]
  BY DEF LockInv
<1> QED BY <1>5, <1>9, <1>11, <1>12, <1>13, <1>14, <1>15, <1>16, <1>17, StepKeeps

LEMMA SettleKeeps ==
    ASSUME LockInv, NEW t \in Tasks, pc[t] \in {"read", "data", "stream"}, NEW text, NEW parsed \in BOOLEAN,
           Settle(t, text, parsed), UNCHANGED <<autoLock, http, known, call, step, disturbed, misled>>
    PROVE  LockInv'
<1> DEFINE v == IF parsed THEN Verdict(parser, text) ELSE "pending"
           c == Decider(parser, text)
<1>1. \/ Conclude(t, ResultOf(v), c)
      \/ Conclude(t, "timeout", NoCmd)
      \/ Conclude(t, "unknown", NoCmd)
  BY DEF Settle
<1>2. ResultOf(v) \in {"success", "cmError", "notFound", "internalError"}
  BY DEF ResultOf
<1> QED BY <1>1, <1>2, ConcludeKeeps

LEMMA ParseKeeps ==
    ASSUME LockInv, NEW t \in Tasks, pc[t] \in {"read", "data", "stream"}, NEW received, Parse(t, received), ReadFrame
    PROVE  LockInv'
<1>1. UNCHANGED <<autoLock, http, known, call, step, disturbed, misled>>
  BY DEF ReadFrame
<1>2. \/ UNCHANGED <<isOpenLocked, resultCode, rslt, pc, owner, robber>>
      \/ Settle(t, rawResponse \o received, TRUE)
  BY DEF Parse
<1> QED BY <1>1, <1>2, SettleKeeps, StillKeeps

LEMMA HandlerEndsKeeps ==
    ASSUME LockInv, NEW t \in Tasks, pc[t] \in {"read", "data", "stream"}, NEW success, NEW c, NEW left,
           HandlerEnds(t, success, c, left)
    PROVE  LockInv'
<1>1. UNCHANGED <<autoLock, http, known, call, step, disturbed, misled>> /\ ReadFrame
  BY DEF HandlerEnds, ReadFrame
<1>2. \/ UNCHANGED <<isOpenLocked, resultCode, rslt, pc, owner, robber>>
      \/ Conclude(t, "success", c)
      \/ Parse(t, left)
  BY DEF HandlerEnds
<1> QED BY <1>1, <1>2, ConcludeKeeps, ParseKeeps, StillKeeps

(* Every step of a read that gives a result or stops at an assertion. *)
LEMMA ReadsKeep ==
    ASSUME LockInv, NEW t \in Tasks,
           \/ ReadNothing(t) \/ ReadResult(t) \/ DataSent(t) \/ DataTimeout(t) \/ FileStreamed(t) \/ PageStreamed(t)
    PROVE  LockInv'
<1>1. CASE ReadNothing(t)
  <2>1. pc[t] = "read" /\ Settle(t, rawResponse, FALSE) /\ ReadFrame
    BY <1>1, RunsAlone DEF ReadNothing
  <2> QED BY <2>1, SettleKeeps DEF ReadFrame
<1>2. CASE ReadResult(t)
  BY <1>2, RunsAlone, ParseKeeps DEF ReadResult
<1>3. CASE DataSent(t)
  <2> DEFINE i == Min(Places(rxBffr, <<"OK">>))
  <2>1. pc[t] = "data" /\ HandlerEnds(t, TRUE, rxBffr[i].c, BehindOK(i))
    BY <1>3, RunsAlone DEF DataSent
  <2> QED BY <2>1, HandlerEndsKeeps
<1>4. CASE DataTimeout(t)
  BY <1>4, RunsAlone, HandlerEndsKeeps DEF DataTimeout
<1>5. CASE FileStreamed(t)
  BY <1>5, RunsAlone, HandlerEndsKeeps DEF FileStreamed
<1>6. CASE PageStreamed(t)
  <2> DEFINE i == Min(Places(rxBffr, <<"QHTTPREAD", "tok", "eol">>))
  <2>1. pc[t] = "stream" /\ HandlerEnds(t, rxBffr[i + 1].v = 0, rxBffr[i].c, Rest(rxBffr, i + 3))
    BY <1>6, RunsAlone DEF PageStreamed
  <2> QED BY <2>1, HandlerEndsKeeps
<1> QED BY <1>1, <1>2, <1>3, <1>4, <1>5, <1>6

LEMMA EnterDataModeKeeps == ASSUME LockInv, NEW t \in Tasks, EnterDataMode(t) PROVE LockInv'
<1>1. /\ pc[t] = "read" /\ resultCode' = "none"
      /\ UNCHANGED <<isOpenLocked, rslt, owner, robber, autoLock, http, known, call, step, disturbed, misled>>
  BY RunsAlone DEF EnterDataMode, ReadFrame
<1>2. PICK l \in {"data", "stream"} : Goto(t, l)
  BY DEF EnterDataMode
<1>3. pc'[t] = l /\ pc' \in [Tasks -> Pcs] /\ \A u \in Tasks \ {t} : pc'[u] = pc[u]
  BY <1>2 DEF Goto, LockInv, Types, Pcs
<1>4. Types'
  BY <1>1, <1>3 DEF LockInv, Types, Codes
<1>5. \A u \in Tasks : Script(u)' = Script(u)
  BY <1>1, SameScripts
<1>6. Frame(t)
  BY <1>1, <1>3, <1>5 DEF Frame
<1>7. LockKept(t)
  BY <1>1 DEF LockKept, LockInv, HeldOf
<1>8. TellsNoOther(t)
  BY <1>1 DEF TellsNoOther, LockInv, Apart, Awaits
<1>9. Meets(t)
  BY <1>1 DEF Meets, Awaits
<1>10. StepsOf(t)' /\ ToldOf(t)'
  BY <1>2, <1>3 DEF StepsOf, ToldOf
<1>11. HeldOf(t)'
  <2>1. Holds(t)' => Holds(t)
    BY <1>1, <1>2, <1>3 DEF Holds, Open, Between
  <2> QED BY <2>1, <1>1, <1>5 DEF LockInv, HeldOf
<1>12. RobberOk' /\ (t \in misled' => disturbed'[t])
  BY <1>1 DEF LockInv, RobberOk
<1> QED BY <1>4, <1>6, <1>7, <1>8, <1>9, <1>10, <1>11, <1>12, StepKeeps

LEMMA ReadAgainKeeps == ASSUME LockInv, NEW t \in Tasks, ReadAgain(t) PROVE LockInv'
<1>1. /\ pc[t] = "yield" /\ rslt[t] = "unknown" /\ Goto(t, "read")
      /\ UNCHANGED <<isOpenLocked, autoLock, resultCode, http, known, call, step, rslt, owner, robber, disturbed, misled>>
  BY RunsAlone DEF ReadAgain, cmdVars, histVars
<1>2. pc'[t] = "read" /\ Script(t)' = Script(t) /\ Awaits(t)
  BY <1>1, SameScripts DEF LockInv, Types, Goto, Awaits
<1>3. StepsOf(t)' /\ ToldOf(t)' /\ HeldOf(t)'
  BY <1>1, <1>2 DEF LockInv, StepsOf, ToldOf, HeldOf, Holds, Open, Between
<1>4. "read" \in Pcs /\ isOpenLocked' \in BOOLEAN /\ RobberOk' /\ known' \subseteq Texts /\ http' \in Settings
  BY <1>1 DEF Pcs, LockInv, Types, RobberOk
<1>5. \A u \in Tasks \ {t} : Holds(u) /\ robber' = "none" => isOpenLocked' /\ owner' = u
  BY <1>1 DEF LockInv, HeldOf
<1>6. /\ step' \in [Tasks -> Nat \ {0}] /\ rslt' \in [Tasks -> Codes \cup {"unknown"}] /\ misled' \subseteq Tasks
      /\ (t \in misled' => disturbed[t])
  BY <1>1 DEF LockInv, Types
<1> QED BY <1>1, <1>2, <1>3, <1>4, <1>5, <1>6, QuietKeeps DEF Setup

(* A call goes on to the next command of its sequence with the lock, or    *)
(* because its script looks at no result, or misled.                       *)
LEMMA AwaitReturnsKeeps == ASSUME LockInv, NEW t \in Tasks, AwaitReturns(t) PROVE LockInv'
<1>1. /\ pc[t] = "yield" /\ rslt[t] # "unknown" /\ rslt' = [rslt EXCEPT ![t] = resultCode]
      /\ misled' = IF resultCode = "success" /\ rslt[t] # "success" THEN misled \cup {t} ELSE misled
      /\ UNCHANGED <<isOpenLocked, autoLock, resultCode, http, call, owner, robber, disturbed>>
  BY RunsAlone DEF AwaitReturns
<1>2. known' \subseteq Texts
  BY DEF AwaitReturns, LockInv, Types, Texts
<1>3. \/ (resultCode = "success" \/ Script(t).goesOn) /\ Advance(t)
      \/ resultCode # "success" /\ Goto(t, "end") /\ UNCHANGED step
  BY DEF AwaitReturns
<1>4. rslt' \in [Tasks -> Codes \cup {"unknown"}] /\ rslt'[t] = resultCode /\ \A u \in Tasks \ {t} : rslt'[u] = rslt[u]
  BY <1>1 DEF LockInv, Types
<1>5. misled' \subseteq Tasks /\ (t \in misled' => disturbed[t]) /\ \A u \in Tasks \ {t} : u \in misled' <=> u \in misled
  <2>1. resultCode = "success" /\ rslt[t] # "success" => disturbed[t]
    BY <1>1 DEF LockInv, ToldOf
  <2> QED BY <1>1, <2>1 DEF LockInv, Types
<1>6. Script(t)' = Script(t) /\ Fit(call[t], Script(t))
  BY <1>1, SameScripts, ScriptOfTask DEF LockInv
<1>7. \A u \in Tasks \ {t} : Holds(u) /\ robber' = "none" => isOpenLocked' /\ owner' = u
  BY <1>1 DEF LockInv, HeldOf
<1>8. isOpenLocked' \in BOOLEAN /\ RobberOk' /\ http' \in Settings /\ Setup(http') = Setup(http)
  BY <1>1 DEF LockInv, Types, RobberOk, Setup
<1>9. PICK l \in {"next", "end"} :
              /\ Goto(t, l) /\ pc'[t] = l
              /\ step' \in [Tasks -> Nat \ {0}] /\ \A u \in Tasks \ {t} : step'[u] = step[u]
              /\ StepsOf(t)' /\ ToldOf(t)'
              /\ l = "next" \/ rslt'[t] = "success" => resultCode = "success" \/ Script(t).goesOn
  <2>1. CASE (resultCode = "success" \/ Script(t).goesOn) /\ Advance(t)
    BY <2>1, <1>1, Advances
  <2>2. CASE resultCode # "success" /\ Goto(t, "end") /\ UNCHANGED step
    <3>1. pc'[t] = "end" /\ step' \in [Tasks -> Nat \ {0}] /\ \A u \in Tasks \ {t} : step'[u] = step[u]
      BY <2>2 DEF Goto, LockInv, Types
    <3>2. StepsOf(t)' /\ ToldOf(t)'
      BY <3>1 DEF StepsOf, ToldOf
    <3> QED BY <2>2, <3>1, <3>2, <1>4
  <2> QED BY <1>3, <2>1, <2>2
<1>10. HeldOf(t)'
  <2>1. SUFFICES ASSUME Holds(t)' PROVE isOpenLocked /\ owner = t /\ (Script(t).manual => ~autoLock)
    BY <1>1, <1>6 DEF HeldOf
  <2>2. robber = "none" /\ call[t] \notin UnlockedCalls /\ t \notin misled'
    BY <2>1, <1>1 DEF Holds
  <2>3. ~Script(t).goesOn
    BY <2>2, <1>6 DEF Fit
  <2>4. Between(t)'
    BY <2>1, <1>9 DEF Holds, Open
  <2>5. l = "next" \/ rslt'[t] = "success"
    BY <2>4, <1>9 DEF Between
  <2>6. resultCode = "success" /\ Script(t).manual
    BY <2>3, <2>4, <2>5, <1>6, <1>9 DEF Between
  <2>7. rslt[t] = "success" /\ t \notin misled
    BY <2>2, <2>6, <1>1
  <2>8. Holds(t)
    BY <2>2, <2>6, <2>7, <1>1 DEF Holds, Between
  <2> QED BY <2>8 DEF LockInv, HeldOf
<1>11. l \in Pcs
  BY DEF Pcs
<1> QED BY <1>1, <1>2, <1>4, <1>5, <1>7, <1>8, <1>9, <1>10, <1>11, QuietKeeps

LEMMA EndCallKeeps == ASSUME LockInv, NEW t \in Tasks, EndCall(t) PROVE LockInv'
<1> DEFINE b == Closes(t, IF rslt[t] = "success" THEN "ended" ELSE "failed")
<1>1. /\ pc[t] = "end" /\ Release(t, b) /\ Goto(t, "return")
      /\ UNCHANGED <<autoLock, resultCode, known, call, step, rslt, disturbed, misled>>
  BY RunsAlone DEF EndCall, Finish
<1>2. http' = [http EXCEPT !.requestState = "requestComplete"] \/ http' = http
  BY DEF EndCall
<1>3. http' \in Settings /\ Setup(http') = Setup(http)
  BY <1>2 DEF LockInv, Types, Settings, Setup
<1>4. b \in BOOLEAN
  BY DEF Closes
<1>5. b /\ robber = "none" => disturbed[t] \/ call[t] \in CarelessClosers \/ owner = t
  <2>1. SUFFICES ASSUME b, robber = "none", ~disturbed[t], call[t] \notin CarelessClosers PROVE owner = t
    OBVIOUS
  <2>2. Fit(call[t], Script(t)) /\ call[t] \notin UnlockedCalls /\ t \notin misled
    BY <2>1, ScriptOfTask DEF LockInv, CarelessClosers
  <2>3. rslt[t] = "success" /\ Script(t).manual
    BY <2>1, <2>2 DEF Closes, Fit
  <2> QED BY <2>1, <2>2, <2>3, <1>1 DEF LockInv, HeldOf, Holds, Between
<1> HIDE DEF b
<1>6. /\ \A u \in Tasks \ {t} : Holds(u) /\ robber' = "none" => isOpenLocked' /\ owner' = u
      /\ robber' = "none" => robber = "none"
      /\ isOpenLocked' \in BOOLEAN /\ RobberOk'
  BY <1>1, <1>4, <1>5, ReleaseFacts
<1>7. pc'[t] = "return" /\ "return" \in Pcs
  BY <1>1 DEF Goto, LockInv, Types, Pcs
<1>8. StepsOf(t)' /\ ToldOf(t)' /\ HeldOf(t)'
  BY <1>7 DEF StepsOf, ToldOf, HeldOf, Holds, Open, Between
<1>9. /\ step' \in [Tasks -> Nat \ {0}] /\ rslt' \in [Tasks -> Codes \cup {"unknown"}] /\ misled' \subseteq Tasks
      /\ (t \in misled' => disturbed[t]) /\ known' \subseteq Texts
  BY <1>1 DEF LockInv, Types
<1> QED BY <1>1, <1>3, <1>6, <1>7, <1>8, <1>9, QuietKeeps

LEMMA ReturnKeeps == ASSUME LockInv, NEW t \in Tasks, Return(t) PROVE LockInv'
<1>1. /\ Goto(t, "idle") /\ call' = [call EXCEPT ![t] = "file_close"] /\ step' = [step EXCEPT ![t] = 1]
      /\ rslt' = [rslt EXCEPT ![t] = "none"] /\ disturbed' = [disturbed EXCEPT ![t] = FALSE] /\ misled' = misled \ {t}
      /\ UNCHANGED <<isOpenLocked, autoLock, resultCode, http, known, owner, robber>>
  BY DEF Return, cmdVars
<1>2. pc'[t] = "idle" /\ step'[t] = 1 /\ rslt'[t] = "none" /\ t \notin misled'
  BY <1>1 DEF LockInv, Types, Goto
<1>3. "file_close" \in Names
  BY DEF Names, Fixed
<1>4. Types'
  <2>1. "idle" \in Pcs /\ "none" \in Codes
    BY DEF Pcs, Codes
  <2>2. pc' \in [Tasks -> Pcs] /\ call' \in [Tasks -> Names] /\ rslt' \in [Tasks -> Codes \cup {"unknown"}]
    BY <2>1, <1>1, <1>3 DEF LockInv, Types, Goto
  <2>3. step' \in [Tasks -> Nat \ {0}] /\ disturbed' \in [Tasks -> BOOLEAN] /\ misled' \subseteq Tasks
    BY <1>1 DEF LockInv, Types
  <2> QED BY <2>2, <2>3, <1>1 DEF LockInv, Types
<1>5. \A u \in Tasks \ {t} :
          /\ pc'[u] = pc[u] /\ call'[u] = call[u] /\ step'[u] = step[u] /\ rslt'[u] = rslt[u]
          /\ disturbed'[u] = disturbed[u] /\ (u \in misled' <=> u \in misled)
  BY <1>1 DEF LockInv, Types, Goto
<1>6. \A u \in Tasks \ {t} : Script(u)' = Script(u)
  BY <1>1, <1>5 DEF Script
<1>7. Frame(t)
  BY <1>1, <1>5, <1>6 DEF Frame
<1>8. LockKept(t) /\ TellsNoOther(t) /\ RobberOk'
  BY <1>1 DEF LockKept, TellsNoOther, LockInv, HeldOf, RobberOk
<1>9. Meets(t) /\ StepsOf(t)' /\ ToldOf(t)' /\ HeldOf(t)'
  BY <1>2 DEF Meets, Awaits, StepsOf, ToldOf, HeldOf, Holds, Open, Between
<1> QED BY <1>2, <1>4, <1>7, <1>8, <1>9, StepKeeps

LEMMA ControlsTyped == Controls \subseteq Settings
<1> DEFINE a == http_initControl
           b == http_setConnection(a, TRUE)
           c == http_enableCustomHdrs(b)
           d == [c EXCEPT !.responseHdrs = TRUE]
<1>1. a \in Settings
  BY DEF http_initControl, Settings
<1>2. b \in Settings
  BY <1>1 DEF http_setConnection, Settings
<1> HIDE DEF a, b
<1>3. c \in Settings
  BY <1>2 DEF http_enableCustomHdrs, Settings
<1> HIDE DEF c
<1>4. d \in Settings
  BY <1>3 DEF Settings
<1> HIDE DEF d
<1>5. Controls = {a, d}
  BY DEF Controls, a, b, c, d
<1> QED BY <1>1, <1>4, <1>5

(* The control of the requests is set up while no request uses it. *)
LEMMA CallKeeps == ASSUME LockInv, NEW t \in Tasks, NEW n \in Names, Call(t, n) PROVE LockInv'
<1>1. /\ pc[t] = "idle" /\ call' = [call EXCEPT ![t] = n] /\ Goto(t, "next")
      /\ UNCHANGED <<isOpenLocked, autoLock, resultCode, known, step, rslt, owner, robber, disturbed, misled>>
  BY RunsAlone DEF Call, cmdVars
<1>2. http' \in Settings /\ ((\E u \in Tasks : call[u] \in Requests) => http' = http)
  BY ControlsTyped DEF Call, LockInv, Types
<1>3. pc'[t] = "next" /\ call'[t] = n /\ step'[t] = 1 /\ rslt'[t] = "none"
  BY <1>1 DEF LockInv, Types, Goto, StepsOf
<1>4. Types'
  <2>1. "next" \in Pcs
    BY DEF Pcs
  <2>2. pc' \in [Tasks -> Pcs] /\ call' \in [Tasks -> Names]
    BY <2>1, <1>1 DEF LockInv, Types, Goto
  <2>3. /\ step \in [Tasks -> Nat \ {0}] /\ rslt \in [Tasks -> Codes \cup {"unknown"}] /\ resultCode \in Codes
        /\ disturbed \in [Tasks -> BOOLEAN] /\ misled \subseteq Tasks /\ isOpenLocked \in BOOLEAN /\ autoLock \in BOOLEAN
        /\ known \subseteq Texts
    BY DEF LockInv, Types
  <2> QED BY <2>2, <2>3, <1>1, <1>2 DEF Types
<1>5. \A u \in Tasks \ {t} : pc'[u] = pc[u] /\ call'[u] = call[u]
  BY <1>1 DEF LockInv, Types, Goto
<1>6. \A u \in Tasks \ {t} : Script(u)' = Script(u)
  <2>1. \A u \in Tasks \ {t} : Script(u) = ScriptOf(call[u], http) /\ Script(u)' = ScriptOf(call[u], http')
    BY <1>5 DEF Script, ScriptOf
  <2>2. ASSUME NEW u \in Tasks \ {t} PROVE ScriptOf(call[u], http') = ScriptOf(call[u], http)
    <3>1. call[u] \in Requests => Setup(http') = Setup(http)
      BY <1>2
    <3> QED BY <3>1, ScriptSame
  <2> QED BY <2>1, <2>2
<1>7. Frame(t)
  BY <1>1, <1>5, <1>6 DEF Frame
<1>8. LockKept(t) /\ TellsNoOther(t) /\ RobberOk' /\ (t \in misled' => disturbed'[t])
  BY <1>1 DEF LockKept, TellsNoOther, LockInv, HeldOf, RobberOk
<1>9. Script(t)' = ScriptOf(n, http')
  BY <1>3 DEF Script, ScriptOf
<1>10. Len(Script(t)'.cmds) \in Nat \ {0}
  BY <1>9, ScriptFit DEF Fit
<1>11. Meets(t) /\ StepsOf(t)' /\ ToldOf(t)' /\ HeldOf(t)'
  BY <1>3, <1>10 DEF Meets, Awaits, StepsOf, ToldOf, HeldOf, Holds, Open, Between
<1> QED BY <1>4, <1>7, <1>8, <1>11, StepKeeps

-----------------------------------------------------------------------------
LEMMA LockInit == Init => LockInv
<1> SUFFICES ASSUME Init PROVE LockInv
  OBVIOUS
<1>1. "file_close" \in Names /\ http_initControl \in Settings
  BY DEF Names, Fixed, http_initControl, Settings
<1>2. Types
  <2>1. "idle" \in Pcs /\ "none" \in Codes
    BY DEF Pcs, Codes
  <2>2. pc \in [Tasks -> Pcs] /\ call \in [Tasks -> Names] /\ rslt \in [Tasks -> Codes \cup {"unknown"}]
    BY <1>1, <2>1 DEF Init
  <2>3. step \in [Tasks -> Nat \ {0}] /\ disturbed \in [Tasks -> BOOLEAN] /\ misled \subseteq Tasks
    BY DEF Init
  <2>4. resultCode \in Codes /\ isOpenLocked \in BOOLEAN /\ autoLock \in BOOLEAN /\ known \subseteq Texts /\ http \in Settings
    BY <1>1, <2>1 DEF Init
  <2> QED BY <2>2, <2>3, <2>4 DEF Types
<1>3. RobberOk /\ Apart
  BY DEF Init, RobberOk, Apart, Awaits
<1>4. \A t \in Tasks : StepsOf(t) /\ ToldOf(t) /\ HeldOf(t) /\ t \notin misled
  BY DEF Init, StepsOf, ToldOf, HeldOf, Holds, Open, Between
<1> QED BY <1>2, <1>3, <1>4 DEF LockInv

LEMMA LockStep == LockInv /\ [Next]_vars => LockInv'
<1> SUFFICES ASSUME LockInv, [Next]_vars PROVE LockInv'
  OBVIOUS
<1>1. CASE UNCHANGED vars
  BY <1>1, StillKeeps DEF vars, cmdVars, callVars, histVars
<1>2. CASE Serve \/ Emit \/ TakeData
  <2>1. ModFrame
    BY <1>2 DEF Serve, Emit, TakeData
  <2> QED BY <2>1, StillKeeps DEF ModFrame, cmdVars, callVars, histVars
<1>3. CASE Elapse
  BY <1>3, StillKeeps DEF Elapse, callVars, histVars
<1>4. ASSUME NEW t \in Tasks, Caller(t) PROVE LockInv'
  <2>1. ASSUME NEW n \in CallsOf[t], Call(t, n) PROVE LockInv'
    <3>1. n \in Names
      BY ServicesAssumption
    <3> QED BY <2>1, <3>1, CallKeeps
  <2>2. CASE ReuseLockAssert(t) \/ StreamAssert(t)
    BY <2>2, StillKeeps DEF ReuseLockAssert, StreamAssert, cmdVars, callVars, histVars
  <2>3. CASE TryInvoke(t) \/ TakeLock(t) \/ InvokeReuseLock(t) \/ AwaitAgain(t)
    BY <2>3, TryInvokeKeeps, TakeLockKeeps, InvokeReuseLockKeeps, AwaitAgainKeeps
  <2>4. CASE SkipKnown(t) \/ WaitForLock(t) \/ Refused(t)
    BY <2>4, SkipKnownKeeps, WaitForLockKeeps, RefusedKeeps
  <2>5. CASE ReadNothing(t) \/ ReadResult(t) \/ DataSent(t) \/ DataTimeout(t) \/ FileStreamed(t) \/ PageStreamed(t)
    BY <2>5, ReadsKeep
  <2>6. CASE EnterDataMode(t) \/ ReadAgain(t) \/ AwaitReturns(t) \/ EndCall(t) \/ Return(t)
    BY <2>6, EnterDataModeKeeps, ReadAgainKeeps, AwaitReturnsKeeps, EndCallKeeps, ReturnKeeps
  <2> QED BY <1>4, <2>1, <2>2, <2>3, <2>4, <2>5, <2>6 DEF Caller
<1> QED BY <1>1, <1>2, <1>3, <1>4 DEF Next

LEMMA LockAlways == Spec => []LockInv
BY LockInit, LockStep, PTL DEF Spec

(* Theorem 1.  A second command is opened while one is open only by a call *)
(* that goes on without the lock, after a lock was released under the task *)
(* that held it, or misled by another's result; and the first to release   *)
(* another's lock is one of the calls that close carelessly: whatever the  *)
(* tasks and their calls, the lock of atcmd_tryInvoke(), ATCMD_awaitLock() *)
(* and atcmd_close() keeps all others apart.                               *)
THEOREM Exclusive == Spec => []CommandsExclusive
<1>1. LockInv => CommandsExclusive
  <2> SUFFICES ASSUME LockInv PROVE CommandsExclusive
    OBVIOUS
  <2>1. ASSUME NEW t \in Tasks, NEW u \in Tasks, Open(t), Open(u), t # u
        PROVE  robber # "none" \/ {call[t], call[u]} \cap UnlockedCalls # {} \/ {t, u} \cap misled # {}
    <3>1. SUFFICES ASSUME robber = "none", call[t] \notin UnlockedCalls, call[u] \notin UnlockedCalls,
                          t \notin misled, u \notin misled
                   PROVE  FALSE
      OBVIOUS
    <3>2. Holds(t) /\ Holds(u)
      BY <2>1, <3>1 DEF Holds
    <3>3. owner = t /\ owner = u
      BY <3>2 DEF LockInv, HeldOf
    <3> QED BY <2>1, <3>3
  <2> QED BY <2>1 DEF CommandsExclusive, LockInv, RobberOk
<1> QED BY <1>1, LockAlways, PTL

-----------------------------------------------------------------------------
(* The assertion that a sequence has its lock: it fails in ReuseLockAssert *)
(* alone, and once it has failed no caller takes another step.             *)
LEMMA OnlyReuseAsserts ==
    ASSUME NEW t \in Tasks, Caller(t), ~ReuseLockAssert(t)
    PROVE  asserted = "none" /\ asserted' # "isOpenLocked"
<1>1. ASSUME NEW n, Call(t, n) PROVE asserted = "none" /\ asserted' = "none"
  BY <1>1 DEF Call, At
<1>2. CASE TryInvoke(t) \/ TakeLock(t) \/ InvokeReuseLock(t)
  BY <1>2 DEF TryInvoke, TakeLock, InvokeReuseLock, At, SendCommand
<1>3. CASE SkipKnown(t) \/ WaitForLock(t) \/ AwaitAgain(t)
  BY <1>3 DEF SkipKnown, WaitForLock, AwaitAgain, At
<1>4. CASE Refused(t) \/ ReadNothing(t) \/ EnterDataMode(t) \/ ReadAgain(t)
  BY <1>4 DEF Refused, ReadNothing, EnterDataMode, ReadAgain, At
<1>5. CASE AwaitReturns(t) \/ EndCall(t) \/ StreamAssert(t) \/ Return(t)
  BY <1>5 DEF AwaitReturns, EndCall, StreamAssert, Return, At
<1>6. ASSUME NEW x, Parse(t, x), asserted = "none" PROVE asserted' # "isOpenLocked"
  BY <1>6 DEF Parse
<1>7. ASSUME NEW x, NEW y, NEW z, HandlerEnds(t, x, y, z), asserted = "none" PROVE asserted' # "isOpenLocked"
  BY <1>6, <1>7 DEF HandlerEnds
<1>8. CASE ReadResult(t)
  BY <1>6, <1>8 DEF ReadResult, At
<1>9. CASE DataSent(t) \/ DataTimeout(t) \/ FileStreamed(t) \/ PageStreamed(t)
  BY <1>7, <1>9 DEF DataSent, DataTimeout, FileStreamed, PageStreamed, At
<1> QED BY <1>1, <1>2, <1>3, <1>4, <1>5, <1>8, <1>9 DEF Caller

LEMMA SequenceStep == LockInv /\ SequenceHasLock /\ [Next]_vars => SequenceHasLock'
<1> SUFFICES ASSUME LockInv, SequenceHasLock, [Next]_vars, asserted' = "isOpenLocked" PROVE SequenceHasLock'
  BY DEF SequenceHasLock
<1>1. CASE UNCHANGED <<asserted, pc, misled, robber, call>>
  BY <1>1 DEF SequenceHasLock
<1>2. ASSUME NEW t \in Tasks, ReuseLockAssert(t) PROVE SequenceHasLock'
  <2>1. /\ pc[t] = "next" /\ Script(t).manual /\ step[t] > 1 /\ ~isOpenLocked /\ Command(t).k # "again"
        /\ UNCHANGED <<pc, misled, robber, call>>
    BY <1>2, RunsAlone DEF ReuseLockAssert, callVars, histVars
  <2>2. step[t] \in 2..Len(Script(t).cmds) /\ Fit(call[t], Script(t))
    BY <2>1, ScriptOfTask DEF LockInv, Types, StepsOf, Fit
  <2>3. call[t] \notin UnlockedCalls \ {"mdminfo_ltem"}
    BY <2>1, <2>2 DEF Fit, Command
  <2>4. ~Holds(t) /\ Between(t)
    BY <2>1, <2>2 DEF LockInv, HeldOf, Between
  <2>5. t \in misled \/ robber # "none" \/ call[t] = "mdminfo_ltem"
    BY <2>3, <2>4 DEF Holds
  <2> QED BY <2>1, <2>5 DEF SequenceHasLock
<1>3. CASE Serve \/ Emit \/ TakeData \/ Elapse \/ UNCHANGED vars
  BY <1>1, <1>3 DEF Serve, Emit, TakeData, Elapse, ModFrame, vars, callVars, histVars
<1> QED BY <1>2, <1>3, OnlyReuseAsserts DEF Next

(* Theorem 2.  The assertion of atcmd_invokeReuseLock() fails only in a    *)
(* call that has gone on after a failure, one that was robbed of its lock, *)
(* or one that took another's success for its own: a sequence that is left *)
(* alone has its lock at each of its commands.                             *)
THEOREM SequencesLocked == Spec => []SequenceHasLock
<1>1. Init => SequenceHasLock
  BY DEF Init, SequenceHasLock
<1> QED BY <1>1, SequenceStep, LockAlways, PTL DEF Spec

-----------------------------------------------------------------------------
(* What the scripts are made of: the commands they send, and what they     *)
(* report.                                                                 *)
Activating == {"ntwk_activateNetwork", "ntwk_deactivateNetwork"}
ActivateCommand == AskFor("plain", S__contextStatusCompleteParser)
Commands == Plain \cup
    {Ask("list"), Ask("GSN"), Ask("QGMR"), Ask("ATI"), Ask("COPS"),
     AskFor("ICCID", S__iccidCompleteParser), AskFor("QGPSLOC", gnssLocCompleteParser), AskFor("QADC", S__adcValueParser),
     AskFor("QCFG", S__ioValueParser), AskFor("QIOPEN", S__udptcpOpenCompleteParser),
     AskFor("again", S__writeStatusParser), Feed("QFWRITE", ATCMD_okResponseParser, FALSE),
     Stream("QFREAD", "S__filesRxHndlr"), Stream("QHTTPREAD", "S__httpRxHndlr")}

CommandsOf(n) == IF n \in Activating THEN {ActivateCommand} ELSE Commands
Made(n, s) ==
    /\ s.cmds \in Seq(CommandsOf(n))
    /\ s.refused \in Codes \cup {"wait", "skip"} /\ s.won \in Codes /\ s.lost \in Codes \cup {"same"}

LEMMA ScriptsMade ==
    /\ Made("file_getFSInfo", file_getFSInfo) /\ Made("file_getFilelist", file_getFilelist) /\ Made("file_open", file_open)
    /\ Made("file_getOpenFiles", file_getOpenFiles) /\ Made("file_close", file_close) /\ Made("file_seek", file_seek)
    /\ Made("file_delete", file_delete) /\ Made("file_closeAll", file_closeAll) /\ Made("file_getPosition", file_getPosition)
    /\ Made("file_read", file_read) /\ Made("file_write", file_write) /\ Made("gnss_on", gnss_on)
    /\ Made("gnss_off", gnss_off) /\ Made("gnss_getLocation", gnss_getLocation) /\ Made("geo_query", geo_query)
    /\ Made("gpio_adcRead", gpio_adcRead) /\ Made("gpio_configPort", gpio_configPort) /\ Made("gpio_read", gpio_read)
    /\ Made("gpio_write", gpio_write) /\ Made("mdminfo_ltem", mdminfo_ltem) /\ Made("mdmInfo_signalPercent", mdmInfo_signalPercent)
    /\ Made("mdminfo_signalRSSI", mdminfo_signalRSSI) /\ Made("mdminfo_signalBars", mdminfo_signalBars) /\ Made("ltem_setProviderScanMode", ltem_setProviderScanMode)
    /\ Made("ltem_setProviderScanSeq", ltem_setProviderScanSeq) /\ Made("ltem_setIotMode", ltem_setIotMode) /\ Made("tls_configure", tls_configure)
    /\ Made("tlsGetOptions", tlsGetOptions) /\ Made("NTWK_applyDefaulNetwork", NTWK_applyDefaulNetwork) /\ Made("ntwk_setNetworkConfig", ntwk_setNetworkConfig)
    /\ Made("ntwk_getRegistrationStatus", ntwk_getRegistrationStatus) /\ Made("ntwkDIAG_getProviders", ntwkDIAG_getProviders) /\ Made("sckt_open", sckt_open)
    /\ Made("http_readPage", http_readPage) /\ Made("ntwk_activateNetwork", ntwk_activateNetwork) /\ Made("ntwk_deactivateNetwork", ntwk_deactivateNetwork)
<1>1. /\ Made("file_getFSInfo", file_getFSInfo) /\ Made("file_getFilelist", file_getFilelist) /\ Made("file_open", file_open)
      /\ Made("file_getOpenFiles", file_getOpenFiles) /\ Made("file_close", file_close) /\ Made("file_seek", file_seek)
      /\ Made("file_delete", file_delete)
  <2>1. /\ file_getFSInfo.cmds \in Seq(Commands) /\ file_getFilelist.cmds \in Seq(Commands) /\ file_open.cmds \in Seq(Commands)
        /\ file_getOpenFiles.cmds \in Seq(Commands) /\ file_close.cmds \in Seq(Commands) /\ file_seek.cmds \in Seq(Commands)
        /\ file_delete.cmds \in Seq(Commands)
    BY DEF Commands, Plain, Automatic, Sequence, file_getFSInfo, file_getFilelist, file_open, file_getOpenFiles, file_close,
           file_seek, file_delete
  <2>2. /\ file_getFSInfo.refused \in Codes \cup {"wait", "skip"} /\ file_getFSInfo.won \in Codes /\ file_getFSInfo.lost \in Codes \cup {"same"}
        /\ file_getFilelist.refused \in Codes \cup {"wait", "skip"} /\ file_getFilelist.won \in Codes /\ file_getFilelist.lost \in Codes \cup {"same"}
        /\ file_open.refused \in Codes \cup {"wait", "skip"} /\ file_open.won \in Codes /\ file_open.lost \in Codes \cup {"same"}
        /\ file_getOpenFiles.refused \in Codes \cup {"wait", "skip"} /\ file_getOpenFiles.won \in Codes /\ file_getOpenFiles.lost \in Codes \cup {"same"}
        /\ file_close.refused \in Codes \cup {"wait", "skip"} /\ file_close.won \in Codes /\ file_close.lost \in Codes \cup {"same"}
        /\ file_seek.refused \in Codes \cup {"wait", "skip"} /\ file_seek.won \in Codes /\ file_seek.lost \in Codes \cup {"same"}
        /\ file_delete.refused \in Codes \cup {"wait", "skip"} /\ file_delete.won \in Codes /\ file_delete.lost \in Codes \cup {"same"}
    BY DEF Codes, Automatic, Sequence, file_getFSInfo, file_getFilelist, file_open, file_getOpenFiles, file_close,
           file_seek, file_delete
  <2> QED BY <2>1, <2>2 DEF Made, CommandsOf, Activating
<1>2. /\ Made("file_closeAll", file_closeAll) /\ Made("file_getPosition", file_getPosition) /\ Made("file_read", file_read)
      /\ Made("file_write", file_write) /\ Made("gnss_on", gnss_on) /\ Made("gnss_off", gnss_off)
      /\ Made("gnss_getLocation", gnss_getLocation)
  <2>1. /\ file_closeAll.cmds \in Seq(Commands) /\ file_getPosition.cmds \in Seq(Commands) /\ file_read.cmds \in Seq(Commands)
        /\ file_write.cmds \in Seq(Commands) /\ gnss_on.cmds \in Seq(Commands) /\ gnss_off.cmds \in Seq(Commands)
        /\ gnss_getLocation.cmds \in Seq(Commands)
    BY DEF Commands, Plain, Automatic, Sequence, file_closeAll, file_getPosition, file_read, file_write, gnss_on, gnss_off,
           gnss_getLocation
  <2>2. /\ file_closeAll.refused \in Codes \cup {"wait", "skip"} /\ file_closeAll.won \in Codes /\ file_closeAll.lost \in Codes \cup {"same"}
        /\ file_getPosition.refused \in Codes \cup {"wait", "skip"} /\ file_getPosition.won \in Codes /\ file_getPosition.lost \in Codes \cup {"same"}
        /\ file_read.refused \in Codes \cup {"wait", "skip"} /\ file_read.won \in Codes /\ file_read.lost \in Codes \cup {"same"}
        /\ file_write.refused \in Codes \cup {"wait", "skip"} /\ file_write.won \in Codes /\ file_write.lost \in Codes \cup {"same"}
        /\ gnss_on.refused \in Codes \cup {"wait", "skip"} /\ gnss_on.won \in Codes /\ gnss_on.lost \in Codes \cup {"same"}
        /\ gnss_off.refused \in Codes \cup {"wait", "skip"} /\ gnss_off.won \in Codes /\ gnss_off.lost \in Codes \cup {"same"}
        /\ gnss_getLocation.refused \in Codes \cup {"wait", "skip"} /\ gnss_getLocation.won \in Codes /\ gnss_getLocation.lost \in Codes \cup {"same"}
    BY DEF Codes, Automatic, Sequence, file_closeAll, file_getPosition, file_read, file_write, gnss_on, gnss_off,
           gnss_getLocation
  <2> QED BY <2>1, <2>2 DEF Made, CommandsOf, Activating
<1>3. /\ Made("geo_query", geo_query) /\ Made("gpio_adcRead", gpio_adcRead) /\ Made("gpio_configPort", gpio_configPort)
      /\ Made("gpio_read", gpio_read) /\ Made("gpio_write", gpio_write) /\ Made("mdminfo_ltem", mdminfo_ltem)
      /\ Made("mdmInfo_signalPercent", mdmInfo_signalPercent)
  <2>1. /\ geo_query.cmds \in Seq(Commands) /\ gpio_adcRead.cmds \in Seq(Commands) /\ gpio_configPort.cmds \in Seq(Commands)
        /\ gpio_read.cmds \in Seq(Commands) /\ gpio_write.cmds \in Seq(Commands) /\ mdminfo_ltem.cmds \in Seq(Commands)
        /\ mdmInfo_signalPercent.cmds \in Seq(Commands)
    BY DEF Commands, Plain, Automatic, Sequence, geo_query, gpio_adcRead, gpio_configPort, gpio_read, gpio_write, mdminfo_ltem,
           mdmInfo_signalPercent
  <2>2. /\ geo_query.refused \in Codes \cup {"wait", "skip"} /\ geo_query.won \in Codes /\ geo_query.lost \in Codes \cup {"same"}
        /\ gpio_adcRead.refused \in Codes \cup {"wait", "skip"} /\ gpio_adcRead.won \in Codes /\ gpio_adcRead.lost \in Codes \cup {"same"}
        /\ gpio_configPort.refused \in Codes \cup {"wait", "skip"} /\ gpio_configPort.won \in Codes /\ gpio_configPort.lost \in Codes \cup {"same"}
        /\ gpio_read.refused \in Codes \cup {"wait", "skip"} /\ gpio_read.won \in Codes /\ gpio_read.lost \in Codes \cup {"same"}
        /\ gpio_write.refused \in Codes \cup {"wait", "skip"} /\ gpio_write.won \in Codes /\ gpio_write.lost \in Codes \cup {"same"}
        /\ mdminfo_ltem.refused \in Codes \cup {"wait", "skip"} /\ mdminfo_ltem.won \in Codes /\ mdminfo_ltem.lost \in Codes \cup {"same"}
        /\ mdmInfo_signalPercent.refused \in Codes \cup {"wait", "skip"} /\ mdmInfo_signalPercent.won \in Codes /\ mdmInfo_signalPercent.lost \in Codes \cup {"same"}
    BY DEF Codes, Automatic, Sequence, geo_query, gpio_adcRead, gpio_configPort, gpio_read, gpio_write, mdminfo_ltem,
           mdmInfo_signalPercent
  <2> QED BY <2>1, <2>2 DEF Made, CommandsOf, Activating
<1>4. /\ Made("mdminfo_signalRSSI", mdminfo_signalRSSI) /\ Made("mdminfo_signalBars", mdminfo_signalBars) /\ Made("ltem_setProviderScanMode", ltem_setProviderScanMode)
      /\ Made("ltem_setProviderScanSeq", ltem_setProviderScanSeq) /\ Made("ltem_setIotMode", ltem_setIotMode) /\ Made("tls_configure", tls_configure)
      /\ Made("tlsGetOptions", tlsGetOptions)
  <2>1. /\ mdminfo_signalRSSI.cmds \in Seq(Commands) /\ mdminfo_signalBars.cmds \in Seq(Commands) /\ ltem_setProviderScanMode.cmds \in Seq(Commands)
        /\ ltem_setProviderScanSeq.cmds \in Seq(Commands) /\ ltem_setIotMode.cmds \in Seq(Commands) /\ tls_configure.cmds \in Seq(Commands)
        /\ tlsGetOptions.cmds \in Seq(Commands)
    BY DEF Commands, Plain, Automatic, Sequence, mdminfo_signalRSSI, mdminfo_signalBars, ltem_setProviderScanMode,
           ltem_setProviderScanSeq, ltem_setIotMode, tls_configure, tlsGetOptions,
           mdmInfo_signalPercent
  <2>2. /\ mdminfo_signalRSSI.refused \in Codes \cup {"wait", "skip"} /\ mdminfo_signalRSSI.won \in Codes /\ mdminfo_signalRSSI.lost \in Codes \cup {"same"}
        /\ mdminfo_signalBars.refused \in Codes \cup {"wait", "skip"} /\ mdminfo_signalBars.won \in Codes /\ mdminfo_signalBars.lost \in Codes \cup {"same"}
        /\ ltem_setProviderScanMode.refused \in Codes \cup {"wait", "skip"} /\ ltem_setProviderScanMode.won \in Codes /\ ltem_setProviderScanMode.lost \in Codes \cup {"same"}
        /\ ltem_setProviderScanSeq.refused \in Codes \cup {"wait", "skip"} /\ ltem_setProviderScanSeq.won \in Codes /\ ltem_setProviderScanSeq.lost \in Codes \cup {"same"}
        /\ ltem_setIotMode.refused \in Codes \cup {"wait", "skip"} /\ ltem_setIotMode.won \in Codes /\ ltem_setIotMode.lost \in Codes \cup {"same"}
        /\ tls_configure.refused \in Codes \cup {"wait", "skip"} /\ tls_configure.won \in Codes /\ tls_configure.lost \in Codes \cup {"same"}
        /\ tlsGetOptions.refused \in Codes \cup {"wait", "skip"} /\ tlsGetOptions.won \in Codes /\ tlsGetOptions.lost \in Codes \cup {"same"}
    BY DEF Codes, Automatic, Sequence, mdminfo_signalRSSI, mdminfo_signalBars, ltem_setProviderScanMode,
           ltem_setProviderScanSeq, ltem_setIotMode, tls_configure, tlsGetOptions,
           mdmInfo_signalPercent
  <2> QED BY <2>1, <2>2 DEF Made, CommandsOf, Activating
<1>5. /\ Made("NTWK_applyDefaulNetwork", NTWK_applyDefaulNetwork) /\ Made("ntwk_setNetworkConfig", ntwk_setNetworkConfig) /\ Made("ntwk_getRegistrationStatus", ntwk_getRegistrationStatus)
      /\ Made("ntwkDIAG_getProviders", ntwkDIAG_getProviders) /\ Made("sckt_open", sckt_open) /\ Made("http_readPage", http_readPage)
  <2>1. /\ NTWK_applyDefaulNetwork.cmds \in Seq(Commands) /\ ntwk_setNetworkConfig.cmds \in Seq(Commands) /\ ntwk_getRegistrationStatus.cmds \in Seq(Commands)
        /\ ntwkDIAG_getProviders.cmds \in Seq(Commands) /\ sckt_open.cmds \in Seq(Commands) /\ http_readPage.cmds \in Seq(Commands)
    BY DEF Commands, Plain, Automatic, Sequence, NTWK_applyDefaulNetwork, ntwk_setNetworkConfig, ntwk_getRegistrationStatus,
           ntwkDIAG_getProviders, sckt_open, http_readPage
  <2>2. /\ NTWK_applyDefaulNetwork.refused \in Codes \cup {"wait", "skip"} /\ NTWK_applyDefaulNetwork.won \in Codes /\ NTWK_applyDefaulNetwork.lost \in Codes \cup {"same"}
        /\ ntwk_setNetworkConfig.refused \in Codes \cup {"wait", "skip"} /\ ntwk_setNetworkConfig.won \in Codes /\ ntwk_setNetworkConfig.lost \in Codes \cup {"same"}
        /\ ntwk_getRegistrationStatus.refused \in Codes \cup {"wait", "skip"} /\ ntwk_getRegistrationStatus.won \in Codes /\ ntwk_getRegistrationStatus.lost \in Codes \cup {"same"}
        /\ ntwkDIAG_getProviders.refused \in Codes \cup {"wait", "skip"} /\ ntwkDIAG_getProviders.won \in Codes /\ ntwkDIAG_getProviders.lost \in Codes \cup {"same"}
        /\ sckt_open.refused \in Codes \cup {"wait", "skip"} /\ sckt_open.won \in Codes /\ sckt_open.lost \in Codes \cup {"same"}
        /\ http_readPage.refused \in Codes \cup {"wait", "skip"} /\ http_readPage.won \in Codes /\ http_readPage.lost \in Codes \cup {"same"}
    BY DEF Codes, Automatic, Sequence, NTWK_applyDefaulNetwork, ntwk_setNetworkConfig, ntwk_getRegistrationStatus,
           ntwkDIAG_getProviders, sckt_open, http_readPage
  <2> QED BY <2>1, <2>2 DEF Made, CommandsOf, Activating
<1>6. Made("ntwk_activateNetwork", ntwk_activateNetwork) /\ Made("ntwk_deactivateNetwork", ntwk_deactivateNetwork)
  BY DEF Made, CommandsOf, Activating, ActivateCommand, Codes, Automatic, ntwk_activateNetwork, ntwk_deactivateNetwork
<1> QED BY <1>1, <1>2, <1>3, <1>4, <1>5, <1>6
LEMMA RequestsMade == ASSUME NEW h PROVE Made("http_get", http_get(h)) /\ Made("http_post", http_post(h))
<1> DEFINE a == Given(h.responseHdrs, <<Ask("plain")>>)
           b == Given(h.useTls, <<Ask("plain")>>)
           g == IF h.cstmHdrs THEN Feed("QHTTPGET+", S__httpGetStatusParser, FALSE)
                              ELSE AskFor("QHTTPGET", S__httpGetStatusParser)
           p == Feed("QHTTPPOST", S__httpPostStatusParser, FALSE)
           u == S__setUrl
           q == Ask("plain")
<1>1. a \in Seq(Plain) /\ b \in Seq(Plain) /\ g \in Plain /\ p \in Plain /\ u \in Plain /\ q \in Plain
  <2>1. q \in Plain /\ u \in Plain /\ p \in Plain /\ g \in Plain
    BY DEF Plain
  <2> HIDE DEF q, u, p, g
  <2>2. \A x \in Plain : <<x>> \in Seq(Plain) /\ <<>> \in Seq(Plain)
    OBVIOUS
  <2>3. a \in {<<q>>, <<>>} /\ b \in {<<q>>, <<>>}
    BY DEF Given, q
  <2> QED BY <2>1, <2>2, <2>3
<1>2. /\ http_get(h).cmds = (a \o b) \o <<u, q, g>> /\ http_post(h).cmds = (a \o b) \o <<u, p>>
      /\ http_get(h).refused = "timeout" /\ http_get(h).won = "success" /\ http_get(h).lost = "same"
      /\ http_post(h).refused = "timeout" /\ http_post(h).won = "success" /\ http_post(h).lost = "same"
  BY DEF http_get, http_post, http_configure, Sequence, Automatic
<1> HIDE DEF a, b, g, p, u, q
<1>3. <<u, q, g>> \in Seq(Plain) /\ <<u, p>> \in Seq(Plain) /\ a \o b \in Seq(Plain)
  BY <1>1
<1> DEFINE x == a \o b
           y == <<u, q, g>>
           z == <<u, p>>
<1> HIDE DEF x, y, z
<1>4. x \o y \in Seq(Plain) /\ x \o z \in Seq(Plain)
  BY <1>3 DEF x, y, z
<1>5. http_get(h).cmds \in Seq(Commands) /\ http_post(h).cmds \in Seq(Commands)
  <2>1. Plain \subseteq Commands
    BY DEF Commands
  <2> QED BY <1>2, <1>4, <2>1, SeqMonotonic DEF x, y, z
<1> QED BY <1>2, <1>5 DEF Made, CommandsOf, Activating, Codes

LEMMA ScriptMade == ASSUME NEW n \in Names, NEW h PROVE Made(n, ScriptOf(n, h))
<1>1. CASE n \in Requests
  BY <1>1, RequestsMade DEF ScriptOf, Requests
<1>2. CASE n \notin Requests
  <2>1. n \in DOMAIN Scripts /\ ScriptOf(n, h) = Scripts[n]
    BY <1>2 DEF Names, Requests, ScriptOf, Scripts
  <2>2. \A m \in DOMAIN Scripts : Made(m, Scripts[m])
    BY ScriptsMade DEF Scripts, Fixed
  <2> QED BY <2>1, <2>2
<1> QED BY <1>1, <1>2

(* What a command may ask. *)
Asked == {"plain", "list", "GSN", "QGMR", "ATI", "COPS", "ICCID", "QGPSLOC", "QADC", "QCFG", "QIOPEN", "again", "QFWRITE",
          "QFREAD", "QHTTPREAD", "QHTTPURL", "QHTTPGET", "QHTTPGET+", "QHTTPPOST"}

LEMMA CommandFacts ==
    (\A c \in Commands : c.k \in Asked /\ c.p.pre # "QIACT") /\ ActivateCommand.k \in Asked
<1>1. /\ Ask("plain").k = "plain"
      /\ S__setUrl.k = "QHTTPURL"
      /\ AskFor("QHTTPGET", S__httpGetStatusParser).k = "QHTTPGET"
      /\ Feed("QHTTPGET+", S__httpGetStatusParser, FALSE).k = "QHTTPGET+"
      /\ Feed("QHTTPPOST", S__httpPostStatusParser, FALSE).k = "QHTTPPOST"
      /\ Ask("list").k = "list"
      /\ Ask("GSN").k = "GSN"
      /\ Ask("QGMR").k = "QGMR"
      /\ Ask("ATI").k = "ATI"
      /\ Ask("COPS").k = "COPS"
      /\ AskFor("ICCID", S__iccidCompleteParser).k = "ICCID"
      /\ AskFor("QGPSLOC", gnssLocCompleteParser).k = "QGPSLOC"
      /\ AskFor("QADC", S__adcValueParser).k = "QADC"
      /\ AskFor("QCFG", S__ioValueParser).k = "QCFG"
      /\ AskFor("QIOPEN", S__udptcpOpenCompleteParser).k = "QIOPEN"
      /\ AskFor("again", S__writeStatusParser).k = "again"
      /\ Feed("QFWRITE", ATCMD_okResponseParser, FALSE).k = "QFWRITE"
      /\ Stream("QFREAD", "S__filesRxHndlr").k = "QFREAD"
      /\ Stream("QHTTPREAD", "S__httpRxHndlr").k = "QHTTPREAD"
      /\ ActivateCommand.k = "plain"
  BY CommandKinds DEF S__setUrl, Ask, ActivateCommand
<1>2. /\ Ask("plain").p = ATCMD_okResponseParser
      /\ S__setUrl.p = ATCMD_okResponseParser
      /\ AskFor("QHTTPGET", S__httpGetStatusParser).p = S__httpGetStatusParser
      /\ Feed("QHTTPGET+", S__httpGetStatusParser, FALSE).p = S__httpGetStatusParser
      /\ Feed("QHTTPPOST", S__httpPostStatusParser, FALSE).p = S__httpPostStatusParser
  BY DEF S__setUrl, Feed, AskFor, Ask
<1>3. /\ Ask("list").p = ATCMD_okResponseParser
      /\ Ask("GSN").p = ATCMD_okResponseParser
      /\ Ask("QGMR").p = ATCMD_okResponseParser
      /\ Ask("ATI").p = ATCMD_okResponseParser
      /\ Ask("COPS").p = ATCMD_okResponseParser
      /\ AskFor("ICCID", S__iccidCompleteParser).p = S__iccidCompleteParser
      /\ AskFor("QGPSLOC", gnssLocCompleteParser).p = gnssLocCompleteParser
      /\ AskFor("QADC", S__adcValueParser).p = S__adcValueParser
      /\ AskFor("QCFG", S__ioValueParser).p = S__ioValueParser
      /\ AskFor("QIOPEN", S__udptcpOpenCompleteParser).p = S__udptcpOpenCompleteParser
      /\ AskFor("again", S__writeStatusParser).p = S__writeStatusParser
      /\ Feed("QFWRITE", ATCMD_okResponseParser, FALSE).p = ATCMD_okResponseParser
      /\ Stream("QFREAD", "S__filesRxHndlr").p = ATCMD_okResponseParser
      /\ Stream("QHTTPREAD", "S__httpRxHndlr").p = ATCMD_okResponseParser
  BY DEF Stream, Feed, AskFor, Ask
<1>4. /\ ATCMD_okResponseParser.pre # "QIACT"
      /\ S__httpGetStatusParser.pre # "QIACT"
      /\ S__httpPostStatusParser.pre # "QIACT"
      /\ S__iccidCompleteParser.pre # "QIACT"
      /\ gnssLocCompleteParser.pre # "QIACT"
      /\ S__adcValueParser.pre # "QIACT"
      /\ S__ioValueParser.pre # "QIACT"
      /\ S__udptcpOpenCompleteParser.pre # "QIACT"
      /\ S__writeStatusParser.pre # "QIACT"
  BY DEF Std, ATCMD_okResponseParser, S__httpGetStatusParser, S__httpPostStatusParser, S__iccidCompleteParser, gnssLocCompleteParser,
         S__adcValueParser, S__ioValueParser, S__udptcpOpenCompleteParser, S__writeStatusParser
<1>5. \A c \in Plain : c.k \in Asked /\ c.p.pre # "QIACT"
  <2>1. /\ Ask("plain").k \in Asked
        /\ S__setUrl.k \in Asked
        /\ AskFor("QHTTPGET", S__httpGetStatusParser).k \in Asked
        /\ Feed("QHTTPGET+", S__httpGetStatusParser, FALSE).k \in Asked
        /\ Feed("QHTTPPOST", S__httpPostStatusParser, FALSE).k \in Asked
    BY <1>1 DEF Asked
  <2>2. /\ Ask("plain").p.pre # "QIACT"
        /\ S__setUrl.p.pre # "QIACT"
        /\ AskFor("QHTTPGET", S__httpGetStatusParser).p.pre # "QIACT"
        /\ Feed("QHTTPGET+", S__httpGetStatusParser, FALSE).p.pre # "QIACT"
        /\ Feed("QHTTPPOST", S__httpPostStatusParser, FALSE).p.pre # "QIACT"
    BY <1>2, <1>4
  <2> QED BY <2>1, <2>2 DEF Plain
<1>6. \A c \in Commands : c.k \in Asked /\ c.p.pre # "QIACT"
  <2>1. \A c \in Commands : c.k \in Asked
    <3>1. /\ Ask("list").k \in Asked
          /\ Ask("GSN").k \in Asked
          /\ Ask("QGMR").k \in Asked
          /\ Ask("ATI").k \in Asked
          /\ Ask("COPS").k \in Asked
          /\ AskFor("ICCID", S__iccidCompleteParser).k \in Asked
          /\ AskFor("QGPSLOC", gnssLocCompleteParser).k \in Asked
          /\ AskFor("QADC", S__adcValueParser).k \in Asked
          /\ AskFor("QCFG", S__ioValueParser).k \in Asked
          /\ AskFor("QIOPEN", S__udptcpOpenCompleteParser).k \in Asked
          /\ AskFor("again", S__writeStatusParser).k \in Asked
          /\ Feed("QFWRITE", ATCMD_okResponseParser, FALSE).k \in Asked
          /\ Stream("QFREAD", "S__filesRxHndlr").k \in Asked
          /\ Stream("QHTTPREAD", "S__httpRxHndlr").k \in Asked
      BY <1>1 DEF Asked
    <3> QED BY <1>5, <3>1 DEF Commands
  <2>2. /\ Ask("list").p.pre # "QIACT" /\ Ask("GSN").p.pre # "QIACT" /\ Ask("QGMR").p.pre # "QIACT"
        /\ Ask("ATI").p.pre # "QIACT" /\ Ask("COPS").p.pre # "QIACT"
        /\ AskFor("ICCID", S__iccidCompleteParser).p.pre # "QIACT" /\ AskFor("QGPSLOC", gnssLocCompleteParser).p.pre # "QIACT"
        /\ AskFor("QADC", S__adcValueParser).p.pre # "QIACT" /\ AskFor("QCFG", S__ioValueParser).p.pre # "QIACT"
        /\ AskFor("QIOPEN", S__udptcpOpenCompleteParser).p.pre # "QIACT" /\ AskFor("again", S__writeStatusParser).p.pre # "QIACT"
        /\ Feed("QFWRITE", ATCMD_okResponseParser, FALSE).p.pre # "QIACT"
        /\ Stream("QFREAD", "S__filesRxHndlr").p.pre # "QIACT" /\ Stream("QHTTPREAD", "S__httpRxHndlr").p.pre # "QIACT"
    BY <1>3, <1>4
  <2>3. \A c \in Commands : c.p.pre # "QIACT"
    BY <1>5, <2>2 DEF Commands
  <2> QED BY <2>1, <2>3
<1>7. ActivateCommand.k \in Asked
  BY <1>1 DEF Asked
<1> QED BY <1>6, <1>7

-----------------------------------------------------------------------------
(* Numbers: the least and the greatest of a set, and induction.            *)
LEMMA Least == ASSUME NEW S \in SUBSET Nat, S # {} PROVE \E m \in S : \A n \in S : m <= n
<1>1. PICK x \in S : \A y \in S : ~(<<y, x>> \in OpToRel(<, Nat))
  BY NatLessThanWellFounded, WFMin
<1>2. \A y \in S : ~(y < x)
  BY <1>1 DEF OpToRel
<1> QED BY <1>2

LEMMA MinLeast == ASSUME NEW S \in SUBSET Nat, S # {} PROVE Min(S) \in S /\ \A n \in S : Min(S) <= n
BY Least DEF Min

LEMMA MaxGreatest ==
    ASSUME NEW n \in Nat, NEW S \in SUBSET (1..n), S # {}
    PROVE  Max(S) \in S /\ \A x \in S : Max(S) >= x
<1> DEFINE D == {n - x : x \in S}
<1>1. D \in SUBSET Nat /\ D # {}
  <2>1. \A x \in S : n - x \in Nat /\ n - x \in D
    OBVIOUS
  <2>2. PICK x \in S : TRUE
    OBVIOUS
  <2> QED BY <2>1, <2>2
<1>2. PICK d \in D : \A e \in D : d <= e
  BY <1>1, Least
<1>3. PICK x \in S : d = n - x
  OBVIOUS
<1>4. ASSUME NEW y \in S PROVE x >= y
  <2>1. n - y \in D /\ n \in Nat /\ x \in Nat /\ y \in Nat
    OBVIOUS
  <2> QED BY <2>1, <1>2, <1>3
<1> QED BY <1>4 DEF Max

LEMMA UpTo ==
    ASSUME NEW n \in Nat, NEW S, 0 \in S, \A i \in 1..n : i - 1 \in S => i \in S
    PROVE  \A i \in 0..n : i \in S
<1> DEFINE D == {i \in 0..n : i \notin S}
<1>1. SUFFICES ASSUME D # {} PROVE FALSE
  OBVIOUS
<1>2. PICK d \in D : \A e \in D : d <= e
  <2>1. D \in SUBSET Nat
    OBVIOUS
  <2> HIDE DEF D
  <2> QED BY <1>1, <2>1, Least
<1>3. d # 0 /\ d - 1 \in 0..n /\ d \in 1..n
  BY <1>2
<1>4. d - 1 \in S
  BY <1>2, <1>3
<1> QED BY <1>3, <1>4

-----------------------------------------------------------------------------
(* strlen() adds up the sizes of the pieces.                               *)
LEMMA Sizes == \A k : Size(k) \in Nat
BY DEF Size

Recursion(text, n, f) ==
    f = [s \in SUBSET (1..n) |-> IF s = {} THEN 0 ELSE f[s \ {Max(s)}] + Size(text[Max(s)].k)]

LEMMA SumsExist == ASSUME NEW text, NEW n \in Nat PROVE \E f : Recursion(text, n, f)
<1> DEFINE S == {i \in 0..n : \E f : Recursion(text, i, f)}
<1>1. 0 \in S
  <2> DEFINE f == [s \in SUBSET (1..0) |-> 0]
  <2>1. Recursion(text, 0, f)
    BY DEF Recursion
  <2> HIDE DEF f
  <2> QED BY <2>1
<1>2. ASSUME NEW i \in 1..n, i - 1 \in S PROVE i \in S
  <2>1. PICK f : Recursion(text, i - 1, f)
    BY <1>2
  <2> DEFINE g == [s \in SUBSET (1..i) |-> IF s = {} THEN 0
                                           ELSE IF Max(s) = i THEN f[s \ {i}] + Size(text[i].k) ELSE f[s]]
             h == [s \in SUBSET (1..i) |-> IF s = {} THEN 0 ELSE g[s \ {Max(s)}] + Size(text[Max(s)].k)]
  <2>2. \A s \in SUBSET (1..i) : s # {} => Max(s) \in s /\ \A x \in s : Max(s) >= x
    <3>1. i \in Nat
      OBVIOUS
    <3> QED BY <3>1, MaxGreatest
  <2>3. \A s \in SUBSET (1..(i - 1)) : g[s] = f[s]
    BY <2>1, <2>2 DEF Recursion
  <2>4. ASSUME NEW s \in SUBSET (1..i) PROVE g[s] = h[s]
    <3>1. CASE s = {}
      BY <3>1
    <3>2. CASE s # {} /\ Max(s) = i
      <4>1. s \ {i} \in SUBSET (1..(i - 1))
        BY <3>2, <2>2
      <4> HIDE DEF g
      <4>2. g[s \ {i}] = f[s \ {i}] /\ h[s] = g[s \ {i}] + Size(text[i].k)
        BY <4>1, <2>3, <3>2
      <4>3. g[s] = f[s \ {i}] + Size(text[i].k)
        BY <3>2 DEF g
      <4> QED BY <4>2, <4>3
    <3>3. CASE s # {} /\ Max(s) # i
      <4>1. s \in SUBSET (1..(i - 1)) /\ s \ {Max(s)} \in SUBSET (1..(i - 1))
        <5> DEFINE m == Max(s)
        <5> HIDE DEF m
        <5>1. m \in s /\ (\A x \in s : m >= x) /\ m # i /\ i \in Nat
          BY <3>3, <2>2 DEF m
        <5>2. \A x \in s : x \in 1..(i - 1)
          BY <5>1
        <5> QED BY <5>1, <5>2
      <4> HIDE DEF g
      <4>2. g[s] = f[s] /\ g[s \ {Max(s)}] = f[s \ {Max(s)}]
        BY <4>1, <2>3
      <4>3. f[s] = f[s \ {Max(s)}] + Size(text[Max(s)].k)
        BY <4>1, <2>1, <3>3 DEF Recursion
      <4>4. h[s] = g[s \ {Max(s)}] + Size(text[Max(s)].k)
        BY <3>3
      <4> QED BY <4>2, <4>3, <4>4
    <3> QED BY <3>1, <3>2, <3>3
  <2>5. g = h
    BY <2>4
  <2> HIDE DEF g
  <2>6. Recursion(text, i, g)
    BY <2>5 DEF Recursion
  <2> QED BY <2>6
<1> HIDE DEF S
<1>3. n \in S
  BY <1>1, <1>2, UpTo
<1> QED BY <1>3 DEF S

(* The sums of the prefixes of a text.                                     *)
Sums(text, f) == f[0] = 0 /\ \A i \in 1..Len(text) : f[i] = f[i - 1] + Size(text[i].k)

LEMMA StrlenSums == ASSUME NEW T, NEW text \in Seq(T) PROVE \E f : Sums(text, f) /\ strlen(text) = f[Len(text)]
<1> DEFINE n == Len(text)
<1>1. n \in Nat /\ DOMAIN text = 1..n
  OBVIOUS
<1>2. PICK f : f = (CHOOSE g : Recursion(text, n, g)) /\ strlen(text) = f[1..n]
  BY <1>1 DEF strlen, FoldLeft, MapThenFoldSet, Recursion
<1>3. Recursion(text, n, f)
  BY <1>1, <1>2, SumsExist
<1> HIDE DEF n
<1> DEFINE g == [i \in 0..n |-> f[1..i]]
<1>4. g[0] = 0
  BY <1>1, <1>3 DEF Recursion
<1>5. ASSUME NEW i \in 1..n PROVE g[i] = g[i - 1] + Size(text[i].k)
  <2>1. 1..i \in SUBSET (1..n) /\ 1..i # {} /\ i \in Nat
    BY <1>1
  <2>2. Max(1..i) = i
    <3>1. Max(1..i) \in 1..i /\ \A x \in 1..i : Max(1..i) >= x
      BY <2>1, MaxGreatest
    <3> QED BY <3>1
  <2>3. (1..i) \ {i} = 1..(i - 1)
    BY <2>1
  <2>4. f[1..i] = f[1..(i - 1)] + Size(text[i].k)
    BY <2>1, <2>2, <2>3, <1>3 DEF Recursion
  <2> QED BY <2>4, <1>1
<1>6. g[n] = f[1..n]
  BY <1>1
<1> HIDE DEF g
<1>7. Sums(text, g)
  BY <1>4, <1>5 DEF Sums, n
<1> QED BY <1>2, <1>6, <1>7 DEF n

-----------------------------------------------------------------------------
LEMMA SumsNat == ASSUME NEW T, NEW text \in Seq(T), NEW f, Sums(text, f) PROVE \A i \in 0..Len(text) : f[i] \in Nat
<1> DEFINE n == Len(text)
           S == {i \in 0..n : f[i] \in Nat}
<1>1. n \in Nat
  OBVIOUS
<1>2. 0 \in S
  BY <1>1 DEF Sums
<1>3. \A i \in 1..n : i - 1 \in S => i \in S
  BY Sizes DEF Sums
<1> HIDE DEF n, S
<1>4. \A i \in 0..n : i \in S
  BY <1>1, <1>2, <1>3, UpTo
<1> QED BY <1>4 DEF n, S

LEMMA StrlenNat == ASSUME NEW T, NEW text \in Seq(T) PROVE strlen(text) \in Nat
<1>1. PICK f : Sums(text, f) /\ strlen(text) = f[Len(text)]
  BY StrlenSums
<1>2. Len(text) \in 0..Len(text)
  OBVIOUS
<1> QED BY <1>1, <1>2, SumsNat

LEMMA StrlenCat ==
    ASSUME NEW T, NEW a \in Seq(T), NEW b \in Seq(T)
    PROVE  a \o b \in Seq(T) /\ strlen(a \o b) = strlen(a) + strlen(b)
<1> DEFINE m == Len(a)
           n == Len(b)
           ab == a \o b
<1>1. m \in Nat /\ n \in Nat /\ ab \in Seq(T) /\ Len(ab) = m + n
  OBVIOUS
<1>2. (\A i \in 1..m : ab[i] = a[i]) /\ (\A i \in 1..n : ab[m + i] = b[i])
  OBVIOUS
<1> HIDE DEF ab
<1>3. PICK f : Sums(a, f) /\ strlen(a) = f[m]
  BY StrlenSums
<1>4. PICK g : Sums(b, g) /\ strlen(b) = g[n]
  BY StrlenSums
<1>5. PICK h : Sums(ab, h) /\ strlen(ab) = h[m + n]
  BY <1>1, StrlenSums
<1> DEFINE S == {i \in 0..m : h[i] = f[i]}
           R == {i \in 0..n : h[m + i] = f[m] + g[i]}
<1>6. 0 \in S /\ \A i \in 1..m : i - 1 \in S => i \in S
  <2>1. 0 \in S
    BY <1>1, <1>3, <1>5 DEF Sums
  <2>2. ASSUME NEW i \in 1..m, i - 1 \in S PROVE i \in S
    <3>1. i \in 1..(m + n) /\ i \in 0..m
      BY <1>1
    <3>2. h[i] = h[i - 1] + Size(ab[i].k) /\ f[i] = f[i - 1] + Size(a[i].k) /\ ab[i] = a[i]
      BY <3>1, <1>1, <1>2, <1>3, <1>5 DEF Sums
    <3> QED BY <3>1, <3>2, <2>2
  <2> HIDE DEF S
  <2> QED BY <2>1, <2>2
<1>7. \A i \in 0..m : i \in S
  <2> HIDE DEF S, m
  <2> QED BY <1>1, <1>6, UpTo
<1>8. h[m] = f[m] /\ f[m] \in Nat
  <2>1. m \in 0..m
    BY <1>1
  <2> QED BY <2>1, <1>3, <1>7, SumsNat
<1> HIDE DEF m, n, S
<1>9. 0 \in R
  BY <1>1, <1>4, <1>8 DEF Sums
<1>10. ASSUME NEW i \in 1..n, i - 1 \in R PROVE i \in R
  <2>1. m + i \in 1..(m + n) /\ (m + i) - 1 = m + (i - 1) /\ i - 1 \in 0..n /\ i \in 0..n
    BY <1>1
  <2>2. h[m + i] = h[m + (i - 1)] + Size(ab[m + i].k)
    BY <2>1, <1>1, <1>5 DEF Sums
  <2>3. g[i] = g[i - 1] + Size(b[i].k) /\ ab[m + i] = b[i]
    BY <1>2, <1>4 DEF Sums, n
  <2>4. g[i - 1] \in Nat /\ Size(b[i].k) \in Nat
    BY <2>1, <1>4, SumsNat, Sizes DEF n
  <2>5. h[m + (i - 1)] = f[m] + g[i - 1]
    BY <1>10
  <2>6. h[m + i] = f[m] + g[i]
    BY <2>2, <2>3, <2>4, <2>5, <1>8
  <2> QED BY <2>1, <2>6
<1> HIDE DEF R
<1>11. \A i \in 0..n : i \in R
  BY <1>1, <1>9, <1>10, UpTo
<1>12. h[m + n] = f[m] + g[n]
  BY <1>1, <1>11 DEF R
<1> QED BY <1>1, <1>3, <1>4, <1>5, <1>12 DEF ab

LEMMA Split ==
    ASSUME NEW T, NEW text \in Seq(T), NEW i \in Nat \ {0}
    PROVE  \E a \in Seq(T) : Rest(text, i) \in Seq(T) /\ (text = a \o Rest(text, i) \/ Rest(text, i) = <<>>)
<1> DEFINE a == SubSeq(text, 1, i - 1)
           b == SubSeq(text, i, Len(text))
<1>1. Rest(text, i) = b
  BY DEF Rest
<1>2. CASE i > Len(text)
  <2>1. b = <<>>
    BY <1>2
  <2> QED BY <1>1, <2>1
<1>3. CASE i <= Len(text)
  <2>1. a \in Seq(T) /\ Len(a) = i - 1 /\ \A j \in 1..(i - 1) : a[j] = text[j]
    BY <1>3
  <2>2. b \in Seq(T) /\ Len(b) = Len(text) - i + 1 /\ \A j \in 1..(Len(text) - i + 1) : b[j] = text[i + j - 1]
    BY <1>3
  <2> HIDE DEF a, b
  <2>3. a \o b \in Seq(T) /\ Len(a \o b) = Len(text)
    BY <2>1, <2>2, <1>3
  <2>4. ASSUME NEW j \in 1..Len(text) PROVE (a \o b)[j] = text[j]
    <3>1. CASE j <= i - 1
      BY <2>1, <2>2, <3>1
    <3>2. CASE j > i - 1
      <4>1. j - (i - 1) \in 1..(Len(text) - i + 1) /\ i + (j - (i - 1)) - 1 = j
        BY <3>2, <1>3
      <4>2. (a \o b)[j] = b[j - (i - 1)]
        BY <4>1, <2>1, <2>2, <3>2
      <4> QED BY <4>1, <4>2, <2>2
    <3>3. j <= i - 1 \/ j > i - 1
      OBVIOUS
    <3> QED BY <3>1, <3>2, <3>3
  <2>5. text = a \o b
    <3> DEFINE ab == a \o b
    <3>1. ab \in Seq(T) /\ Len(ab) = Len(text) /\ \A j \in 1..Len(text) : ab[j] = text[j]
      BY <2>3, <2>4
    <3> HIDE DEF ab
    <3>2. text = ab
      BY <3>1, SeqEqual
    <3> QED BY <3>2 DEF ab
  <2> QED BY <1>1, <2>1, <2>2, <2>5
<1>4. i \in Nat /\ Len(text) \in Nat
  OBVIOUS
<1> QED BY <1>2, <1>3, <1>4

LEMMA StrlenEmpty == strlen(<<>>) = 0
<1>1. <<>> \in Seq(Nat) /\ Len(<<>>) = 0
  OBVIOUS
<1>2. PICK f : Sums(<<>>, f) /\ strlen(<<>>) = f[0]
  BY <1>1, StrlenSums
<1> QED BY <1>2 DEF Sums

LEMMA StrlenRest ==
    ASSUME NEW T, NEW text \in Seq(T), NEW i \in Nat \ {0}
    PROVE  Rest(text, i) \in Seq(T) /\ strlen(Rest(text, i)) <= strlen(text)
<1>1. PICK a \in Seq(T) : Rest(text, i) \in Seq(T) /\ (text = a \o Rest(text, i) \/ Rest(text, i) = <<>>)
  BY Split
<1>2. strlen(a) \in Nat /\ strlen(text) \in Nat /\ strlen(Rest(text, i)) \in Nat
  BY <1>1, StrlenNat
<1>3. strlen(a \o Rest(text, i)) = strlen(a) + strlen(Rest(text, i))
  BY <1>1, StrlenCat
<1>4. CASE Rest(text, i) = <<>>
  <2>1. strlen(Rest(text, i)) = 0
    BY <1>4, StrlenEmpty
  <2> QED BY <2>1, <1>1, <1>2
<1>5. CASE text = a \o Rest(text, i)
  <2>1. strlen(text) = strlen(a) + strlen(Rest(text, i))
    BY <1>3, <1>5
  <2> QED BY <2>1, <1>1, <1>2
<1> QED BY <1>1, <1>4, <1>5

(* A text is what a parser of this engine sees.                            *)
LEMMA StrlenAppend == ASSUME NEW T, NEW a \in Seq(T), NEW p \in T PROVE strlen(Append(a, p)) = strlen(a) + Size(p.k)
<1>1. Append(a, p) = a \o <<p>> /\ <<p>> \in Seq(T)
  OBVIOUS
<1>2. PICK f : Sums(<<p>>, f) /\ strlen(<<p>>) = f[Len(<<p>>)]
  BY <1>1, StrlenSums
<1>3. Len(<<p>>) = 1 /\ <<p>>[1] = p
  OBVIOUS
<1>4. strlen(<<p>>) = Size(p.k)
  BY <1>2, <1>3, Sizes DEF Sums
<1> QED BY <1>1, <1>4, StrlenCat

-----------------------------------------------------------------------------
(* What the answer to one command weighs in a text: the characters of its  *)
(* pieces, but for those of the items of a list.                           *)
PieceKinds == {"eol", "OK", "ERROR", "CONNECT", "dlm", "tok", "item", "QADC", "ICCID", "QIOPEN", "QCFG", "QFWRITE",
               "QGPSLOC", "QHTTPGET", "QHTTPREAD", "QHTTPPOST"}
Pieces(C) == [k : PieceKinds, v : Int, c : C]
Blank == Piece("", 0, NoCmd)
Own(c, text) == [i \in DOMAIN text |-> IF text[i].c = c /\ text[i].k # "item" THEN text[i] ELSE Blank]
Weight(c, text) == strlen(Own(c, text))

LEMMA StrlenKinds ==
    ASSUME NEW T, NEW a \in Seq(T), NEW b \in Seq(T), Len(a) = Len(b), \A i \in 1..Len(a) : Size(a[i].k) = Size(b[i].k)
    PROVE  strlen(a) = strlen(b)
<1> DEFINE n == Len(a)
<1>1. PICK f : Sums(a, f) /\ strlen(a) = f[n]
  BY StrlenSums
<1>2. PICK g : Sums(b, g) /\ strlen(b) = g[n]
  BY StrlenSums
<1> DEFINE S == {i \in 0..n : f[i] = g[i]}
<1>3. n \in Nat /\ n = Len(b) /\ n = Len(a)
  OBVIOUS
<1> HIDE DEF n
<1>4. 0 \in S
  BY <1>1, <1>2, <1>3 DEF Sums
<1>5. ASSUME NEW i \in 1..n, i - 1 \in S PROVE i \in S
  <2>1. f[i] = f[i - 1] + Size(a[i].k) /\ g[i] = g[i - 1] + Size(b[i].k)
    BY <1>1, <1>2, <1>3 DEF Sums
  <2>2. Size(a[i].k) = Size(b[i].k) /\ i \in 0..n
    BY <1>3
  <2> QED BY <2>1, <2>2, <1>5
<1> HIDE DEF S
<1>6. \A i \in 0..n : i \in S
  BY <1>3, <1>4, <1>5, UpTo
<1> QED BY <1>1, <1>2, <1>3, <1>6 DEF S

LEMMA OwnText ==
    ASSUME NEW T, NEW text \in Seq(T), NEW c
    PROVE  /\ Own(c, text) \in Seq(T \cup {Blank}) /\ Len(Own(c, text)) = Len(text)
           /\ \A i \in 1..Len(text) : Own(c, text)[i] = IF text[i].c = c /\ text[i].k # "item" THEN text[i] ELSE Blank
<1>1. DOMAIN text = 1..Len(text) /\ Len(text) \in Nat /\ \A i \in 1..Len(text) : text[i] \in T
  OBVIOUS
<1> QED BY <1>1 DEF Own

LEMMA WeightNat == ASSUME NEW T, NEW text \in Seq(T), NEW c PROVE Weight(c, text) \in Nat
BY OwnText, StrlenNat DEF Weight

LEMMA WeightCat ==
    ASSUME NEW T, NEW a \in Seq(T), NEW b \in Seq(T), NEW c
    PROVE  a \o b \in Seq(T) /\ Weight(c, a \o b) = Weight(c, a) + Weight(c, b)
<1> DEFINE ab == a \o b
           x == Own(c, a)
           y == Own(c, b)
           z == Own(c, ab)
           U == T \cup {Blank}
           m == Len(a)
           n == Len(b)
<1>1. ab \in Seq(T) /\ Len(ab) = m + n /\ m \in Nat /\ n \in Nat
      /\ (\A i \in 1..m : ab[i] = a[i]) /\ (\A i \in 1..n : ab[m + i] = b[i])
  OBVIOUS
<1> HIDE DEF ab
<1>2. /\ x \in Seq(U) /\ Len(x) = m /\ y \in Seq(U) /\ Len(y) = n /\ z \in Seq(U) /\ Len(z) = m + n
      /\ \A i \in 1..m : x[i] = IF a[i].c = c /\ a[i].k # "item" THEN a[i] ELSE Blank
      /\ \A i \in 1..n : y[i] = IF b[i].c = c /\ b[i].k # "item" THEN b[i] ELSE Blank
      /\ \A i \in 1..(m + n) : z[i] = IF ab[i].c = c /\ ab[i].k # "item" THEN ab[i] ELSE Blank
  <2>1. /\ x \in Seq(U) /\ Len(x) = m
        /\ \A i \in 1..m : x[i] = IF a[i].c = c /\ a[i].k # "item" THEN a[i] ELSE Blank
    BY OwnText
  <2>2. /\ y \in Seq(U) /\ Len(y) = n
        /\ \A i \in 1..n : y[i] = IF b[i].c = c /\ b[i].k # "item" THEN b[i] ELSE Blank
    BY OwnText
  <2>3. /\ z \in Seq(U) /\ Len(z) = Len(ab)
        /\ \A i \in 1..Len(ab) : z[i] = IF ab[i].c = c /\ ab[i].k # "item" THEN ab[i] ELSE Blank
    <3>1. ab \in Seq(T)
      BY <1>1
    <3> QED BY <3>1, OwnText
  <2> HIDE DEF x, y, z, U, m, n
  <2> QED BY <2>1, <2>2, <2>3, <1>1
<1> HIDE DEF x, y, z, U, m, n
<1> DEFINE w == x \o y
<1>3. w \in Seq(U) /\ Len(w) = m + n /\ (\A i \in 1..m : w[i] = x[i]) /\ (\A i \in 1..n : w[m + i] = y[i])
  <2>1. /\ w \in Seq(U) /\ Len(w) = Len(x) + Len(y)
        /\ \A i \in 1 .. Len(x) + Len(y) : w[i] = IF i <= Len(x) THEN x[i] ELSE y[i - Len(x)]
    BY <1>2, ConcatProperties
  <2> HIDE DEF w
  <2>2. \A i \in 1..(m + n) : w[i] = IF i <= m THEN x[i] ELSE y[i - m]
    BY <1>2, <2>1
  <2>3. \A i \in 1..m : w[i] = x[i]
    BY <1>1, <2>2
  <2>4. ASSUME NEW i \in 1..n PROVE w[m + i] = y[i]
    <3>1. m + i \in 1..(m + n) /\ ~(m + i <= m) /\ (m + i) - m = i
      BY <1>1
    <3> QED BY <3>1, <2>2
  <2> QED BY <1>2, <2>1, <2>3, <2>4
<1> HIDE DEF w
<1>4. ASSUME NEW i \in 1..(m + n) PROVE z[i] = w[i]
  <2>1. CASE i <= m
    <3>1. i \in 1..m
      BY <1>1, <2>1
    <3>2. ab[i] = a[i] /\ w[i] = x[i]
      BY <3>1, <1>1, <1>3
    <3> QED BY <3>1, <3>2, <1>2
  <2>2. CASE i > m
    <3>1. i - m \in 1..n /\ i = m + (i - m)
      BY <1>1, <2>2
    <3>2. ab[i] = b[i - m] /\ w[i] = y[i - m]
      BY <3>1, <1>1, <1>3
    <3> QED BY <3>1, <3>2, <1>2
  <2> QED BY <2>1, <2>2, <1>1
<1>5. z = w
  BY <1>2, <1>3, <1>4, SeqEqual
<1>6. strlen(w) = strlen(x) + strlen(y)
  BY <1>2, StrlenCat DEF w
<1> QED BY <1>1, <1>5, <1>6 DEF Weight, ab, x, y, z

LEMMA WeightRest ==
    ASSUME NEW T, NEW text \in Seq(T), NEW i \in Nat \ {0}, NEW c
    PROVE  Weight(c, Rest(text, i)) <= Weight(c, text)
<1>1. PICK a \in Seq(T) : Rest(text, i) \in Seq(T) /\ (text = a \o Rest(text, i) \/ Rest(text, i) = <<>>)
  BY Split
<1>2. Weight(c, a) \in Nat /\ Weight(c, text) \in Nat /\ Weight(c, Rest(text, i)) \in Nat
  BY <1>1, WeightNat
<1>3. Own(c, <<>>) = <<>>
  BY DEF Own
<1>4. CASE Rest(text, i) = <<>>
  <2>1. Weight(c, Rest(text, i)) = 0
    BY <1>3, <1>4, StrlenEmpty DEF Weight
  <2> QED BY <2>1, <1>2
<1>5. CASE text = a \o Rest(text, i)
  <2>1. Weight(c, a \o Rest(text, i)) = Weight(c, a) + Weight(c, Rest(text, i))
    BY <1>1, WeightCat
  <2>2. Weight(c, text) = Weight(c, a) + Weight(c, Rest(text, i))
    BY <2>1, <1>5
  <2> QED BY <2>2, <1>2
<1> QED BY <1>1, <1>4, <1>5

LEMMA WeightEmpty == ASSUME NEW c PROVE Weight(c, <<>>) = 0
<1>1. Own(c, <<>>) = <<>>
  BY DEF Own
<1> QED BY <1>1, StrlenEmpty DEF Weight

LEMMA WeightWhole ==
    ASSUME NEW T, NEW text \in Seq(T), NEW c, \A i \in 1..Len(text) : text[i].c = c /\ text[i].k # "item"
    PROVE  Weight(c, text) = strlen(text)
<1>1. text \in Seq(T \cup {Blank}) /\ DOMAIN text = 1..Len(text)
  OBVIOUS
<1>2. Own(c, text) = text
  BY <1>1, OwnText, SeqEqual
<1> QED BY <1>2 DEF Weight

LEMMA WeightNone ==
    ASSUME NEW T, NEW text \in Seq(T), NEW c, \A i \in 1..Len(text) : text[i].c # c \/ text[i].k = "item"
    PROVE  Weight(c, text) = 0
<1> DEFINE n == Len(text)
           x == Own(c, text)
<1>1. x \in Seq(T \cup {Blank}) /\ Len(x) = n /\ n \in Nat /\ \A i \in 1..n : x[i] = Blank
  <2>1. /\ x \in Seq(T \cup {Blank}) /\ Len(x) = n
        /\ \A i \in 1..n : x[i] = IF text[i].c = c /\ text[i].k # "item" THEN text[i] ELSE Blank
    BY OwnText
  <2>2. n \in Nat
    OBVIOUS
  <2> HIDE DEF x, n
  <2>3. \A i \in 1..n : text[i].c # c \/ text[i].k = "item"
    BY DEF n
  <2> QED BY <2>1, <2>2, <2>3
<1>2. Size(Blank.k) = 0
  BY DEF Size, Blank, Piece
<1> HIDE DEF x, n
<1>3. PICK f : Sums(x, f) /\ strlen(x) = f[n]
  BY <1>1, StrlenSums
<1> DEFINE S == {i \in 0..n : f[i] = 0}
<1>4. 0 \in S
  BY <1>1, <1>3 DEF Sums
<1>5. \A i \in 1..n : i - 1 \in S => i \in S
  BY <1>1, <1>2, <1>3 DEF Sums
<1> HIDE DEF S
<1>6. \A i \in 0..n : i \in S
  BY <1>1, <1>4, <1>5, UpTo
<1> QED BY <1>1, <1>3, <1>6 DEF S, x, n, Weight

-----------------------------------------------------------------------------
(* What the module answers: chunks of pieces, none of which weighs much.   *)
Chunks == Seq(Pieces({NoCmd}))
Net(k) == IF k = "item" THEN 0 ELSE Size(k)

LEMMA WeightSums ==
    ASSUME NEW text \in Chunks
    PROVE  \E f : /\ f[0] = 0 /\ \A i \in 1..Len(text) : f[i] = f[i - 1] + Net(text[i].k)
                  /\ Weight(NoCmd, text) = f[Len(text)]
<1> DEFINE x == Own(NoCmd, text)
<1>1. /\ x \in Seq(Pieces({NoCmd}) \cup {Blank}) /\ Len(x) = Len(text)
      /\ \A i \in 1..Len(text) : x[i] = IF text[i].c = NoCmd /\ text[i].k # "item" THEN text[i] ELSE Blank
  BY OwnText DEF Chunks
<1>2. \A i \in 1..Len(text) : text[i].c = NoCmd
  <2>1. \A i \in 1..Len(text) : text[i] \in Pieces({NoCmd})
    BY DEF Chunks
  <2> QED BY <2>1 DEF Pieces
<1> HIDE DEF x
<1>3. PICK f : Sums(x, f) /\ strlen(x) = f[Len(x)]
  BY <1>1, StrlenSums
<1>4. Size(Blank.k) = 0
  BY DEF Size, Blank, Piece
<1>5. \A i \in 1..Len(text) : Size(x[i].k) = Net(text[i].k)
  BY <1>1, <1>2, <1>4 DEF Net
<1>6. f[0] = 0 /\ \A i \in 1..Len(text) : f[i] = f[i - 1] + Net(text[i].k)
  BY <1>1, <1>3, <1>5 DEF Sums
<1> QED BY <1>1, <1>3, <1>6 DEF Weight, x

LEMMA Nets ==
    /\ Net("eol") = 2 /\ Net("OK") = 2 /\ Net("ERROR") = 5 /\ Net("CONNECT") = 7 /\ Net("dlm") = 1 /\ Net("tok") = 5
    /\ Net("item") = 0 /\ Net("QADC") = 7 /\ Net("ICCID") = 8 /\ Net("QIOPEN") = 9 /\ Net("QCFG") = 14
    /\ Net("QFWRITE") = 10 /\ Net("QGPSLOC") = 10 /\ Net("QHTTPGET") = 11 /\ Net("QHTTPREAD") = 11 /\ Net("QHTTPPOST") = 12
BY DEF Net, Size

Light(text, n) == text \in Chunks /\ text # Data /\ Weight(NoCmd, text) <= n

LEMMA PieceTyped == \A k \in PieceKinds : P(k) \in Pieces({NoCmd}) /\ P(k).k = k
BY DEF P, Piece, Pieces

LEMMA LineSums ==
    ASSUME NEW ks \in Seq(PieceKinds), ks # <<>>
    PROVE  /\ Line(ks) \in Chunks /\ Line(ks) # Data /\ Len(Line(ks)) = Len(ks)
           /\ \E f : /\ f[0] = 0 /\ (\A i \in 1..Len(ks) : f[i] = f[i - 1] + Net(ks[i]))
                     /\ Weight(NoCmd, Line(ks)) = f[Len(ks)]
<1> DEFINE t == Line(ks)
<1>1. DOMAIN ks = 1..Len(ks) /\ Len(ks) \in Nat /\ Len(ks) # 0 /\ \A i \in 1..Len(ks) : ks[i] \in PieceKinds
  OBVIOUS
<1>2. t = [i \in 1..Len(ks) |-> P(ks[i])]
  BY <1>1 DEF Line
<1>3. t \in Chunks /\ Len(t) = Len(ks) /\ \A i \in 1..Len(ks) : t[i].k = ks[i]
  <2>1. \A i \in 1..Len(ks) : P(ks[i]) \in Pieces({NoCmd}) /\ P(ks[i]).k = ks[i]
    BY <1>1, PieceTyped
  <2>2. t \in Seq(Pieces({NoCmd})) /\ Len(t) = Len(ks)
    <3> DEFINE m == Len(ks)
               C == Pieces({NoCmd})
    <3>1. m \in Nat /\ t = [i \in 1..m |-> P(ks[i])] /\ \A i \in 1..m : P(ks[i]) \in C
      BY <1>1, <1>2, <2>1
    <3> HIDE DEF m, t, C
    <3>2. t \in [1..m -> C]
      BY <3>1
    <3>3. t \in Seq(C) /\ Len(t) = m
      BY <3>1, <3>2
    <3> QED BY <3>3 DEF m, C
  <2> QED BY <1>2, <2>1, <2>2 DEF Chunks
<1> HIDE DEF t
<1>4. t # Data
  BY <1>1, <1>3 DEF Data
<1>5. PICK f : f[0] = 0 /\ (\A i \in 1..Len(t) : f[i] = f[i - 1] + Net(t[i].k)) /\ Weight(NoCmd, t) = f[Len(t)]
  BY <1>3, WeightSums
<1> QED BY <1>3, <1>4, <1>5 DEF t

LEMMA Line3 ==
    ASSUME NEW a \in PieceKinds, NEW b \in PieceKinds, NEW c \in PieceKinds, NEW n \in Nat, Net(a) + Net(b) + Net(c) <= n,
           Net(a) \in Nat, Net(b) \in Nat, Net(c) \in Nat
    PROVE  Light(Line(<<a, b, c>>), n)
<1> DEFINE ks == <<a, b, c>>
<1>1. ks \in Seq(PieceKinds) /\ ks # <<>> /\ Len(ks) = 3 /\ ks[1] = a /\ ks[2] = b /\ ks[3] = c
  OBVIOUS
<1> HIDE DEF ks
<1>2. Line(ks) \in Chunks /\ Line(ks) # Data
  BY <1>1, LineSums
<1>3. PICK f : f[0] = 0 /\ (\A i \in 1..3 : f[i] = f[i - 1] + Net(ks[i])) /\ Weight(NoCmd, Line(ks)) = f[3]
  BY <1>1, LineSums
<1>4. f[1] = Net(a) /\ f[2] = f[1] + Net(b) /\ f[3] = f[2] + Net(c)
  BY <1>1, <1>3
<1> QED BY <1>2, <1>3, <1>4 DEF Light, ks

LEMMA ChunkWeights ==
    /\ Light(Okay, 6) /\ Light(Refusal, 9) /\ Light(Prompt, 11)
    /\ Light(Line(<<"eol", "ICCID", "item", "eol">>), 12)
    /\ Light(Line(<<"eol", "QHTTPREAD", "tok", "eol">>), 20)
    /\ \A pre \in {"QADC", "QCFG", "QIOPEN", "QFWRITE"} : Light(Info(pre), 29)
<1>1. /\ Light(Okay, 6) /\ Light(Refusal, 9) /\ Light(Prompt, 11)
  <2>1. {"eol", "OK", "ERROR", "CONNECT"} \subseteq PieceKinds
    BY DEF PieceKinds
  <2> QED BY <2>1, Nets, Line3 DEF Okay, Refusal, Prompt
<1>2. ASSUME NEW k \in {"ICCID", "QHTTPREAD"}, NEW j \in {"item", "tok"}, NEW n \in Nat, Net(k) + Net(j) + 4 <= n
      PROVE  Light(Line(<<"eol", k, j, "eol">>), n)
  <2> DEFINE ks == <<"eol", k, j, "eol">>
  <2>1. ks \in Seq(PieceKinds) /\ ks # <<>> /\ Len(ks) = 4 /\ ks[1] = "eol" /\ ks[2] = k /\ ks[3] = j /\ ks[4] = "eol"
    BY DEF PieceKinds
  <2> HIDE DEF ks
  <2>2. Line(ks) \in Chunks /\ Line(ks) # Data
    BY <2>1, LineSums
  <2>3. PICK f : f[0] = 0 /\ (\A i \in 1..4 : f[i] = f[i - 1] + Net(ks[i])) /\ Weight(NoCmd, Line(ks)) = f[4]
    BY <2>1, LineSums
  <2>4. f[1] = 2 /\ f[2] = f[1] + Net(k) /\ f[3] = f[2] + Net(j) /\ f[4] = f[3] + 2
    BY <2>1, <2>3, Nets
  <2>5. Net(k) \in Nat /\ Net(j) \in Nat
    BY Nets
  <2> QED BY <2>2, <2>3, <2>4, <2>5, <1>2 DEF Light, ks
<1>3. Light(Line(<<"eol", "ICCID", "item", "eol">>), 12) /\ Light(Line(<<"eol", "QHTTPREAD", "tok", "eol">>), 20)
  BY <1>2, Nets
<1>4. ASSUME NEW pre \in {"QADC", "QCFG", "QIOPEN", "QFWRITE"} PROVE Light(Info(pre), 29)
  <2> DEFINE ks == <<"eol", pre, "tok", "dlm", "tok", "eol">>
  <2>1. /\ ks \in Seq(PieceKinds) /\ ks # <<>> /\ Len(ks) = 6
        /\ ks[1] = "eol" /\ ks[2] = pre /\ ks[3] = "tok" /\ ks[4] = "dlm" /\ ks[5] = "tok" /\ ks[6] = "eol"
    BY DEF PieceKinds
  <2> HIDE DEF ks
  <2>2. Line(ks) \in Chunks /\ Line(ks) # Data
    BY <2>1, LineSums
  <2>3. PICK f : f[0] = 0 /\ (\A i \in 1..6 : f[i] = f[i - 1] + Net(ks[i])) /\ Weight(NoCmd, Line(ks)) = f[6]
    BY <2>1, LineSums
  <2>4. /\ f[1] = 2 /\ f[2] = f[1] + Net(pre) /\ f[3] = f[2] + 5 /\ f[4] = f[3] + 1 /\ f[5] = f[4] + 5 /\ f[6] = f[5] + 2
    BY <2>1, <2>3, Nets
  <2>5. Net(pre) \in Nat /\ Net(pre) <= 14
    BY Nets
  <2> QED BY <2>2, <2>3, <2>4, <2>5 DEF Light, ks, Info
<1> QED BY <1>1, <1>3, <1>4

LEMMA ItemsLight == ASSUME NEW n \in Nat \ {0} PROVE Light(Items(n), 0)
<1> DEFINE t == Items(n)
           C == Pieces({NoCmd})
<1>1. t = [i \in 1..n |-> P("item")] /\ P("item") \in C /\ P("item").k = "item"
  BY PieceTyped DEF Items, PieceKinds
<1> HIDE DEF t, C
<1>2. t \in [1..n -> C]
  BY <1>1
<1>3. t \in Seq(C) /\ Len(t) = n /\ \A i \in 1..n : t[i].k = "item"
  BY <1>1, <1>2
<1>4. Weight(NoCmd, t) = 0
  BY <1>3, WeightNone
<1>5. t # Data
  BY <1>3 DEF Data
<1> QED BY <1>3, <1>4, <1>5 DEF Light, Chunks, t, C

LEMMA PositionLight == Light(Position[1], 41) /\ Light(Position[2], 38) /\ Light(Position[1] \o Position[2], 79)
<1> DEFINE a == <<"eol", "QGPSLOC", "tok", "dlm", "tok", "dlm", "tok", "dlm", "tok", "dlm", "tok">>
           b == <<"dlm", "tok", "dlm", "tok", "dlm", "tok", "dlm", "tok", "dlm", "tok", "dlm", "tok", "eol">>
<1>1. /\ a \in Seq(PieceKinds) /\ a # <<>> /\ Len(a) = 11
      /\ a[1] = "eol" /\ a[2] = "QGPSLOC" /\ a[3] = "tok" /\ a[4] = "dlm" /\ a[5] = "tok" /\ a[6] = "dlm"
      /\ a[7] = "tok" /\ a[8] = "dlm" /\ a[9] = "tok" /\ a[10] = "dlm" /\ a[11] = "tok"
  BY DEF PieceKinds
<1>2. /\ b \in Seq(PieceKinds) /\ b # <<>> /\ Len(b) = 13
      /\ b[1] = "dlm" /\ b[2] = "tok" /\ b[3] = "dlm" /\ b[4] = "tok" /\ b[5] = "dlm" /\ b[6] = "tok"
      /\ b[7] = "dlm" /\ b[8] = "tok" /\ b[9] = "dlm" /\ b[10] = "tok" /\ b[11] = "dlm" /\ b[12] = "tok" /\ b[13] = "eol"
  BY DEF PieceKinds
<1>3. Position[1] = Line(a) /\ Position[2] = Line(b)
  BY DEF Position
<1> HIDE DEF a, b
<1>4. Line(a) \in Chunks /\ Line(a) # Data /\ Weight(NoCmd, Line(a)) = 41
  <2>1. PICK f : f[0] = 0 /\ (\A i \in 1..11 : f[i] = f[i - 1] + Net(a[i])) /\ Weight(NoCmd, Line(a)) = f[11]
    BY <1>1, LineSums
  <2>2. f[1] = 2 /\ f[2] = f[1] + 10 /\ f[3] = f[2] + 5 /\ f[4] = f[3] + 1 /\ f[5] = f[4] + 5 /\ f[6] = f[5] + 1
    BY <1>1, <2>1, Nets
  <2>3. f[7] = f[6] + 5 /\ f[8] = f[7] + 1 /\ f[9] = f[8] + 5 /\ f[10] = f[9] + 1 /\ f[11] = f[10] + 5
    BY <1>1, <2>1, Nets
  <2> QED BY <2>1, <2>2, <2>3, <1>1, LineSums
<1>5. Line(b) \in Chunks /\ Line(b) # Data /\ Weight(NoCmd, Line(b)) = 38
  <2>1. PICK f : f[0] = 0 /\ (\A i \in 1..13 : f[i] = f[i - 1] + Net(b[i])) /\ Weight(NoCmd, Line(b)) = f[13]
    BY <1>2, LineSums
  <2>2. f[1] = 1 /\ f[2] = f[1] + 5 /\ f[3] = f[2] + 1 /\ f[4] = f[3] + 5 /\ f[5] = f[4] + 1 /\ f[6] = f[5] + 5
    BY <1>2, <2>1, Nets
  <2>3. /\ f[7] = f[6] + 1 /\ f[8] = f[7] + 5 /\ f[9] = f[8] + 1 /\ f[10] = f[9] + 5 /\ f[11] = f[10] + 1
        /\ f[12] = f[11] + 5 /\ f[13] = f[12] + 2
    BY <1>2, <2>1, Nets
  <2> QED BY <2>1, <2>2, <2>3, <1>2, LineSums
<1>6. Light(Line(a) \o Line(b), 79)
  <2> DEFINE x == Line(a)
             y == Line(b)
  <2> HIDE DEF x, y
  <2>1. x \in Chunks /\ y \in Chunks /\ x # <<>> /\ Weight(NoCmd, x) = 41 /\ Weight(NoCmd, y) = 38
    BY <1>4, <1>5 DEF x, y, Data
  <2>2. x \o y \in Chunks /\ Weight(NoCmd, x \o y) = 79
    BY <2>1, WeightCat DEF Chunks
  <2>3. x \o y # <<>>
    BY <2>1 DEF Chunks
  <2> QED BY <2>2, <2>3 DEF Light, Data, x, y
<1> QED BY <1>3, <1>4, <1>5, <1>6 DEF Light

LEMMA OutcomeLight ==
    ASSUME NEW pre \in {"QIOPEN", "QHTTPGET", "QHTTPPOST", "QHTTPREAD"}, NEW err \in Int, NEW status \in Int
    PROVE  Light(Outcome(pre, err, status), 27)
<1> DEFINE t == Outcome(pre, err, status)
           e == Piece("tok", err, NoCmd)
           s == Piece("tok", status, NoCmd)
<1>1. /\ {"eol", "tok", "dlm", pre} \subseteq PieceKinds
      /\ Net(pre) \in Nat /\ Net(pre) <= 12
  BY Nets DEF PieceKinds
<1>2. {P("eol"), P(pre), P("tok"), P("dlm")} \subseteq Pieces({NoCmd}) /\ P("eol").k = "eol" /\ P(pre).k = pre /\ P("tok").k = "tok" /\ P("dlm").k = "dlm"
  BY <1>1, PieceTyped
<1>3. e \in Pieces({NoCmd}) /\ s \in Pieces({NoCmd}) /\ e.k = "tok" /\ s.k = "tok"
  BY <1>1 DEF Piece, Pieces
<1> HIDE DEF e, s
<1>4. CASE err = 0
  <2>1. t = <<P("eol"), P(pre), P("tok"), P("dlm"), s, P("eol")>>
    BY <1>4 DEF Outcome, s
  <2>2. t \in Chunks /\ Len(t) = 6 /\ t[1].k = "eol" /\ t[2].k = pre /\ t[3].k = "tok" /\ t[4].k = "dlm" /\ t[5].k = "tok" /\ t[6].k = "eol"
    BY <1>2, <1>3, <2>1 DEF Chunks
  <2> HIDE DEF t
  <2>3. PICK f : f[0] = 0 /\ (\A i \in 1..6 : f[i] = f[i - 1] + Net(t[i].k)) /\ Weight(NoCmd, t) = f[6]
    BY <2>2, WeightSums
  <2>4. f[1] = 2 /\ f[2] = f[1] + Net(pre) /\ f[3] = f[2] + 5 /\ f[4] = f[3] + 1 /\ f[5] = f[4] + 5 /\ f[6] = f[5] + 2
    BY <2>2, <2>3, Nets
  <2>5. t # Data
    <3>1. Len(t) # Len(<<>>)
      BY <2>2
    <3> QED BY <3>1 DEF Data
  <2> QED BY <1>1, <2>2, <2>3, <2>4, <2>5 DEF Light, t
<1>5. CASE err # 0
  <2>1. t = <<P("eol"), P(pre), e, P("eol")>>
    BY <1>5 DEF Outcome, e
  <2>2. t \in Chunks /\ Len(t) = 4 /\ t[1].k = "eol" /\ t[2].k = pre /\ t[3].k = "tok" /\ t[4].k = "eol"
    BY <1>2, <1>3, <2>1 DEF Chunks
  <2> HIDE DEF t
  <2>3. PICK f : f[0] = 0 /\ (\A i \in 1..4 : f[i] = f[i - 1] + Net(t[i].k)) /\ Weight(NoCmd, t) = f[4]
    BY <2>2, WeightSums
  <2>4. f[1] = 2 /\ f[2] = f[1] + Net(pre) /\ f[3] = f[2] + 5 /\ f[4] = f[3] + 2
    BY <2>2, <2>3, Nets
  <2>5. t # Data
    <3>1. Len(t) # Len(<<>>)
      BY <2>2
    <3> QED BY <3>1 DEF Data
  <2> QED BY <1>1, <2>2, <2>3, <2>4, <2>5 DEF Light, t
<1> QED BY <1>4, <1>5

-----------------------------------------------------------------------------
(* What an answer still has to bring: the empty chunk counts as the        *)
(* refusal that may come in its place.                                     *)
ChunkWeight(chunk) == IF chunk = Data THEN 9 ELSE Weight(NoCmd, chunk)
Part(chunks, i) == IF i <= Len(chunks) THEN ChunkWeight(chunks[i]) ELSE 0
Load(chunks) == Part(chunks, 1) + Part(chunks, 2) + Part(chunks, 3) + Part(chunks, 4) + Part(chunks, 5)
MaxLoad == 85

Answer(chunks) == chunks \in Seq(Chunks) /\ Len(chunks) <= 5
GoodReply(r) == r.good \in BOOLEAN /\ Answer(r.chunks) /\ r.chunks # <<>> /\ Load(r.chunks) <= MaxLoad

(* A chunk of an answer and what it weighs at most. *)
Heavy(chunk, n) == chunk \in Chunks /\ ChunkWeight(chunk) <= n

LEMMA DataHeavy == Heavy(Data, 9) /\ \A x, n : Light(x, n) => Heavy(x, n)
BY DEF Heavy, Light, ChunkWeight, Data, Chunks

LEMMA ChunkWeightNat == ASSUME NEW chunk \in Chunks PROVE ChunkWeight(chunk) \in Nat
<1>1. Weight(NoCmd, chunk) \in Nat
  BY WeightNat DEF Chunks
<1> QED BY <1>1 DEF ChunkWeight

LEMMA Load1 ==
    ASSUME NEW a, NEW n \in Nat, Heavy(a, n), n <= MaxLoad
    PROVE  GoodReply(Yes(<<a>>)) /\ GoodReply(No(<<a>>))
<1>1. ChunkWeight(a) \in Nat
  BY ChunkWeightNat DEF Heavy
<1> QED BY <1>1 DEF GoodReply, Answer, Load, Part, MaxLoad, Heavy, Yes, No

LEMMA Load2 ==
    ASSUME NEW a, NEW n \in Nat, Heavy(a, n), NEW b, NEW m \in Nat, Heavy(b, m), n + m <= MaxLoad
    PROVE  GoodReply(Yes(<<a, b>>)) /\ GoodReply(No(<<a, b>>))
<1>1. ChunkWeight(a) \in Nat /\ ChunkWeight(b) \in Nat
  BY ChunkWeightNat DEF Heavy
<1> QED BY <1>1 DEF GoodReply, Answer, Load, Part, MaxLoad, Heavy, Yes, No

LEMMA Load3 ==
    ASSUME NEW a, NEW n \in Nat, Heavy(a, n), NEW b, NEW m \in Nat, Heavy(b, m), NEW c, NEW l \in Nat, Heavy(c, l), n + m + l <= MaxLoad
    PROVE  GoodReply(Yes(<<a, b, c>>)) /\ GoodReply(No(<<a, b, c>>))
<1>1. ChunkWeight(a) \in Nat /\ ChunkWeight(b) \in Nat /\ ChunkWeight(c) \in Nat
  BY ChunkWeightNat DEF Heavy
<1> QED BY <1>1 DEF GoodReply, Answer, Load, Part, MaxLoad, Heavy, Yes, No

LEMMA Load4 ==
    ASSUME NEW a, NEW n \in Nat, Heavy(a, n), NEW b, NEW m \in Nat, Heavy(b, m), NEW c, NEW l \in Nat, Heavy(c, l), NEW d, NEW k \in Nat, Heavy(d, k), n + m + l + k <= MaxLoad
    PROVE  GoodReply(Yes(<<a, b, c, d>>)) /\ GoodReply(No(<<a, b, c, d>>))
<1>1. ChunkWeight(a) \in Nat /\ ChunkWeight(b) \in Nat /\ ChunkWeight(c) \in Nat /\ ChunkWeight(d) \in Nat
  BY ChunkWeightNat DEF Heavy
<1> QED BY <1>1 DEF GoodReply, Answer, Load, Part, MaxLoad, Heavy, Yes, No

LEMMA AppendIs ==
    ASSUME NEW S, NEW d \in S, NEW s \in Seq(S), NEW t \in Seq(S),
           Len(t) = Len(s) + 1, \A i \in 1..Len(s) : t[i] = s[i], t[Len(s) + 1] = d
    PROVE  Append(s, d) = t
<1>1. /\ Append(s, d) \in Seq(S) /\ Len(Append(s, d)) = Len(s) + 1 /\ Append(s, d)[Len(s) + 1] = d
      /\ \A i \in 1..Len(s) : Append(s, d)[i] = s[i]
  BY AppendProperties
<1> DEFINE u == Append(s, d)
<1> HIDE DEF u
<1>2. u \in Seq(S) /\ Len(u) = Len(t) /\ \A i \in 1..Len(u) : u[i] = t[i]
  BY <1>1 DEF u
<1>3. u = t
  BY <1>2, SeqEqual
<1> QED BY <1>3 DEF u

LEMMA Append1 == ASSUME NEW a, NEW d PROVE Append(<<a>>, d) = <<a, d>>
<1> DEFINE s == <<a>>
           t == <<a, d>>
<1>1. s \in Seq({a, d}) /\ t \in Seq({a, d}) /\ Len(s) = 1 /\ Len(t) = 2
      /\ s[1] = a /\ t[1] = a /\ t[2] = d
  OBVIOUS
<1> HIDE DEF s, t
<1>2. d \in {a, d} /\ Len(t) = Len(s) + 1 /\ (\A i \in 1..Len(s) : t[i] = s[i]) /\ t[Len(s) + 1] = d
  BY <1>1
<1>3. Append(s, d) = t
  BY <1>1, <1>2, AppendIs
<1> QED BY <1>3 DEF s, t

LEMMA Append2 == ASSUME NEW a, NEW b, NEW d PROVE Append(<<a, b>>, d) = <<a, b, d>>
<1> DEFINE s == <<a, b>>
           t == <<a, b, d>>
<1>1. s \in Seq({a, b, d}) /\ t \in Seq({a, b, d}) /\ Len(s) = 2 /\ Len(t) = 3
      /\ s[1] = a /\ t[1] = a /\ s[2] = b /\ t[2] = b /\ t[3] = d
  OBVIOUS
<1> HIDE DEF s, t
<1>2. d \in {a, b, d} /\ Len(t) = Len(s) + 1 /\ (\A i \in 1..Len(s) : t[i] = s[i]) /\ t[Len(s) + 1] = d
  BY <1>1
<1>3. Append(s, d) = t
  BY <1>1, <1>2, AppendIs
<1> QED BY <1>3 DEF s, t

LEMMA Append3 == ASSUME NEW a, NEW b, NEW c, NEW d PROVE Append(<<a, b, c>>, d) = <<a, b, c, d>>
<1> DEFINE s == <<a, b, c>>
           t == <<a, b, c, d>>
<1>1. s \in Seq({a, b, c, d}) /\ t \in Seq({a, b, c, d}) /\ Len(s) = 3 /\ Len(t) = 4
      /\ s[1] = a /\ t[1] = a /\ s[2] = b /\ t[2] = b /\ s[3] = c /\ t[3] = c /\ t[4] = d
  OBVIOUS
<1> HIDE DEF s, t
<1>2. d \in {a, b, c, d} /\ Len(t) = Len(s) + 1 /\ (\A i \in 1..Len(s) : t[i] = s[i]) /\ t[Len(s) + 1] = d
  BY <1>1
<1>3. Append(s, d) = t
  BY <1>1, <1>2, AppendIs
<1> QED BY <1>3 DEF s, t

LEMMA RepliesGood == ASSUME NEW k \in Asked, NEW r \in Replies(k) PROVE GoodReply(r)
<1>1. /\ Heavy(Okay, 6) /\ Heavy(Refusal, 9) /\ Heavy(Prompt, 11) /\ Heavy(Data, 9)
      /\ Heavy(Line(<<"eol", "ICCID", "item", "eol">>), 12) /\ Heavy(Line(<<"eol", "QHTTPREAD", "tok", "eol">>), 20)
      /\ \A pre \in {"QADC", "QCFG", "QIOPEN", "QFWRITE"} : Heavy(Info(pre), 29)
      /\ \A n \in {1, 4} : Heavy(Items(n), 0)
      /\ Heavy(Position[1], 41) /\ Heavy(Position[2], 38) /\ Heavy(Position[1] \o Position[2], 79)
  BY DataHeavy, ChunkWeights, ItemsLight, PositionLight
<1>2. \A pre \in {"QIOPEN", "QHTTPGET", "QHTTPPOST", "QHTTPREAD"} : \A err, status \in Int : Heavy(Outcome(pre, err, status), 27)
  BY DataHeavy, OutcomeLight
<1>3. GoodReply(No(<<Refusal>>)) /\ GoodReply(Yes(<<Okay>>))
  BY <1>1, Load1 DEF MaxLoad
<1>4. /\ GoodReply(Yes(<<Items(1), Okay>>)) /\ GoodReply(Yes(<<Items(4), Okay>>))
      /\ GoodReply(Yes(<<Info("QADC"), Okay>>)) /\ GoodReply(Yes(<<Info("QCFG"), Okay>>)) /\ GoodReply(Yes(<<Okay, Info("QIOPEN")>>))
  <2>1. ASSUME NEW n \in {1, 4} PROVE GoodReply(Yes(<<Items(n), Okay>>))
    BY <1>1, Load2 DEF MaxLoad
  <2>2. ASSUME NEW pre \in {"QADC", "QCFG", "QIOPEN"} PROVE GoodReply(Yes(<<Info(pre), Okay>>)) /\ GoodReply(Yes(<<Okay, Info(pre)>>))
    BY <1>1, Load2 DEF MaxLoad
  <2> QED BY <2>1, <2>2
<1>5. GoodReply(Yes(Append(Position, Okay))) /\ GoodReply(Yes(<<Position[1] \o Position[2], Okay>>))
  <2> DEFINE a == Position[1]
             b == Position[2]
             ab == Position[1] \o Position[2]
  <2>1. Position = <<a, b>>
    BY DEF Position
  <2>2. Heavy(a, 41) /\ Heavy(b, 38) /\ Heavy(ab, 79)
    BY <1>1
  <2> HIDE DEF a, b, ab
  <2>3. Append(Position, Okay) = <<a, b, Okay>>
    BY <2>1, Append2
  <2>4. GoodReply(Yes(<<a, b, Okay>>))
    BY <1>1, <2>2, Load3 DEF MaxLoad
  <2>5. GoodReply(Yes(<<ab, Okay>>))
    BY <1>1, <2>2, Load2 DEF MaxLoad
  <2> QED BY <2>3, <2>4, <2>5 DEF ab
<1>6. GoodReply(Yes(<<Line(<<"eol", "ICCID", "item", "eol">>), Okay>>)) /\ GoodReply(No(<<Okay, Outcome("QIOPEN", 0, 563)>>))
  <2> DEFINE a == Line(<<"eol", "ICCID", "item", "eol">>)
             b == Outcome("QIOPEN", 0, 563)
  <2>1. Heavy(a, 12) /\ Heavy(b, 27)
    BY <1>1, <1>2
  <2> HIDE DEF a, b
  <2>2. GoodReply(Yes(<<a, Okay>>)) /\ GoodReply(No(<<Okay, b>>))
    BY <1>1, <2>1, Load2 DEF MaxLoad
  <2> QED BY <2>2 DEF a, b
<1>7. /\ GoodReply(Yes(<<Prompt, Data, Info("QFWRITE"), Okay>>)) /\ GoodReply(No(<<Prompt, Data, Refusal>>))
      /\ GoodReply(Yes(<<Prompt, Items(1), Okay>>)) /\ GoodReply(Yes(<<Prompt, Data, Okay>>))
  <2> DEFINE a == Info("QFWRITE")
             b == Items(1)
  <2>1. Heavy(a, 29) /\ Heavy(b, 0)
    BY <1>1
  <2> HIDE DEF a, b
  <2>2. GoodReply(No(<<Prompt, Data, Refusal>>)) /\ GoodReply(Yes(<<Prompt, b, Okay>>)) /\ GoodReply(Yes(<<Prompt, Data, Okay>>))
    BY <1>1, <2>1, Load3 DEF MaxLoad
  <2>3. GoodReply(Yes(<<Prompt, Data, a, Okay>>))
    BY <1>1, <2>1, Load4 DEF MaxLoad
  <2> QED BY <2>2, <2>3 DEF a, b
<1>8. /\ GoodReply(Yes(<<Prompt, Items(1), Okay, Line(<<"eol", "QHTTPREAD", "tok", "eol">>)>>))
      /\ GoodReply(No(<<Prompt, Items(1), Okay, Outcome("QHTTPREAD", 3, 0)>>))
  <2> DEFINE a == Line(<<"eol", "QHTTPREAD", "tok", "eol">>)
             b == Items(1)
             o == Outcome("QHTTPREAD", 3, 0)
  <2>1. Heavy(a, 20) /\ Heavy(b, 0) /\ Heavy(o, 27)
    BY <1>1, <1>2
  <2> HIDE DEF a, b, o
  <2>2. GoodReply(Yes(<<Prompt, b, Okay, a>>)) /\ GoodReply(No(<<Prompt, b, Okay, o>>))
    BY <1>1, <2>1, Load4 DEF MaxLoad
  <2> QED BY <2>2 DEF a, b, o
<1>9. ASSUME NEW pre \in {"QHTTPGET", "QHTTPPOST"}, NEW first \in {<<Okay>>, <<Prompt, Data, Okay>>}, NEW err \in Int, NEW status \in Int
      PROVE  GoodReply(Yes(Append(first, Outcome(pre, err, status)))) /\ GoodReply(No(Append(first, Outcome(pre, err, status))))
  <2> DEFINE o == Outcome(pre, err, status)
  <2>1. Heavy(o, 27)
    BY <1>2
  <2> HIDE DEF o
  <2>2. GoodReply(Yes(<<Okay, o>>)) /\ GoodReply(No(<<Okay, o>>))
    BY <1>1, <2>1, Load2 DEF MaxLoad
  <2>3. GoodReply(Yes(<<Prompt, Data, Okay, o>>)) /\ GoodReply(No(<<Prompt, Data, Okay, o>>))
    BY <1>1, <2>1, Load4 DEF MaxLoad
  <2>4. CASE first = <<Okay>>
    <3>1. Append(first, o) = <<Okay, o>>
      BY <2>4, Append1
    <3> QED BY <3>1, <2>2 DEF o
  <2>5. CASE first = <<Prompt, Data, Okay>>
    <3>1. Append(first, o) = <<Prompt, Data, Okay, o>>
      BY <2>5, Append3
    <3> QED BY <3>1, <2>3 DEF o
  <2> QED BY <2>4, <2>5
<1>10. CASE k \in {"QHTTPGET", "QHTTPGET+", "QHTTPPOST"}
  <2> DEFINE pre == IF k = "QHTTPPOST" THEN k ELSE "QHTTPGET"
             first == IF k = "QHTTPGET" THEN <<Okay>> ELSE <<Prompt, Data, Okay>>
  <2>1. pre \in {"QHTTPGET", "QHTTPPOST"} /\ first \in {<<Okay>>, <<Prompt, Data, Okay>>}
    BY <1>10
  <2>2. r = No(<<Refusal>>) \/ r \in {Yes(Append(first, Outcome(pre, 0, 200))), No(Append(first, Outcome(pre, 0, 404))),
                                     No(Append(first, Outcome(pre, 702, 0)))}
    BY <1>10 DEF Replies
  <2> HIDE DEF pre, first
  <2>3. 0 \in Int /\ 200 \in Int /\ 404 \in Int /\ 702 \in Int
    OBVIOUS
  <2>4. /\ GoodReply(Yes(Append(first, Outcome(pre, 0, 200)))) /\ GoodReply(No(Append(first, Outcome(pre, 0, 404))))
        /\ GoodReply(No(Append(first, Outcome(pre, 702, 0))))
    BY <2>1, <2>3, <1>9
  <2> QED BY <2>2, <2>4, <1>3
<1>11. CASE k \notin {"QHTTPGET", "QHTTPGET+", "QHTTPPOST"}
  <2>1. r \in {No(<<Refusal>>), Yes(<<Okay>>), Yes(<<Items(1), Okay>>), Yes(<<Items(4), Okay>>), Yes(<<Info("QADC"), Okay>>),
               Yes(<<Info("QCFG"), Okay>>), Yes(Append(Position, Okay)), Yes(<<Position[1] \o Position[2], Okay>>),
               Yes(<<Line(<<"eol", "ICCID", "item", "eol">>), Okay>>), Yes(<<Okay, Info("QIOPEN")>>),
               No(<<Okay, Outcome("QIOPEN", 0, 563)>>), Yes(<<Prompt, Data, Info("QFWRITE"), Okay>>), No(<<Prompt, Data, Refusal>>),
               Yes(<<Prompt, Items(1), Okay>>), Yes(<<Prompt, Data, Okay>>),
               Yes(<<Prompt, Items(1), Okay, Line(<<"eol", "QHTTPREAD", "tok", "eol">>)>>),
               No(<<Prompt, Items(1), Okay, Outcome("QHTTPREAD", 3, 0)>>)}
    BY <1>11 DEF Replies
  <2> QED BY <2>1, <1>3, <1>4, <1>5, <1>6, <1>7, <1>8
<1> QED BY <1>10, <1>11

-----------------------------------------------------------------------------
(* The texts on their way: commands wait in the order of their numbers,    *)
(* what answers a command comes after what answers an earlier one, and no  *)
(* more of it than the module has for it.                                  *)
Messages(n) == [k : Asked, c : 1..n] \cup [k : {"data"}, c : 0..n]

Numbers ==
    /\ cmds \in Nat /\ dataMode.c \in 0..cmds /\ elapsed \in BOOLEAN
    /\ good \cup answered \cup loose \subseteq 0..cmds
    /\ mine \in [Tasks -> SUBSET (1..cmds)]
Queued ==
    /\ inbox \in Seq(Messages(cmds))
    /\ \A i \in 1..Len(inbox) : inbox[i].k # "data" =>
          /\ out.c < inbox[i].c
          /\ \A j \in 1..(i - 1) : inbox[j].k # "data" => inbox[j].c < inbox[i].c
Answering ==
    /\ out \in [c : 0..cmds, chunks : Seq(Chunks)]
    /\ Answer(out.chunks) /\ (out.chunks # <<>> => out.c # 0)
Loaded(c) == IF c = out.c THEN Load(out.chunks) ELSE 0
Received ==
    /\ rawResponse \in Seq(Pieces(1..out.c)) /\ rxBffr \in Seq(Pieces(1..out.c))
    /\ \A c \in 1..out.c : Weight(c, rawResponse) + Weight(c, rxBffr) + Loaded(c) <= MaxLoad
TextInv == Numbers /\ Queued /\ Answering /\ Received

LEMMA PieceSets == ASSUME NEW m, NEW n, m \subseteq n PROVE Pieces(m) \subseteq Pieces(n) /\ Seq(Pieces(m)) \subseteq Seq(Pieces(n))
<1>1. Pieces(m) \subseteq Pieces(n)
  BY DEF Pieces
<1> QED BY <1>1, SeqMonotonic

LEMMA CurrentTyped == ASSUME Numbers, NEW t \in Tasks PROVE Current(t) \in 0..cmds
<1>1. mine[t] \in SUBSET (1..cmds) /\ cmds \in Nat
  BY DEF Numbers
<1>2. mine[t] # {} => Max(mine[t]) \in mine[t]
  BY <1>1, MaxGreatest
<1> QED BY <1>1, <1>2 DEF Current, NoCmd

LEMMA LoadNat == ASSUME NEW chunks, Answer(chunks) PROVE Load(chunks) \in Nat
<1>1. \A i \in 1..5 : Part(chunks, i) \in Nat
  BY ChunkWeightNat DEF Part, Answer
<1> QED BY <1>1 DEF Load

LEMMA TextStill ==
    ASSUME TextInv, elapsed' \in BOOLEAN,
           UNCHANGED <<cmds, dataMode, good, answered, loose, mine, inbox, out, rawResponse, rxBffr>>
    PROVE  TextInv'
BY DEF TextInv, Numbers, Queued, Answering, Received, Loaded

(* What reads takes text from the buffer to the response, or drops it. *)
LEMMA TextTaken ==
    ASSUME TextInv, NEW x \in Seq(Pieces(1..out.c)), \A c : Weight(c, x) <= Weight(c, rxBffr),
           \/ rawResponse' = rawResponse /\ rxBffr' = x
           \/ rawResponse' = rawResponse \o x /\ rxBffr' = <<>>
           \/ rawResponse' = <<>> /\ rxBffr' = x,
           dataMode'.c \in {dataMode.c, 0}, loose' \subseteq 0..cmds, elapsed' \in BOOLEAN,
           inbox' \in {inbox, Append(inbox, [k |-> "data", c |-> dataMode.c])},
           mine' \in [Tasks -> SUBSET (1..cmds)],
           UNCHANGED <<cmds, out, good, answered>>
    PROVE  TextInv'
<1> DEFINE S == Pieces(1..out.c)
<1>1. rawResponse \in Seq(S) /\ rxBffr \in Seq(S) /\ out.c \in 0..cmds /\ cmds \in Nat /\ Answer(out.chunks)
  BY DEF TextInv, Received, Answering, Numbers
<1>2. <<>> \in Seq(S) /\ rawResponse \o x \in Seq(S)
  BY <1>1
<1> HIDE DEF S
<1>3. ASSUME NEW c \in 1..out.c
      PROVE  Weight(c, rawResponse') + Weight(c, rxBffr') + Loaded(c) <= MaxLoad
  <2>1. /\ Weight(c, rawResponse) + Weight(c, rxBffr) + Loaded(c) <= MaxLoad
        /\ Weight(c, rawResponse) \in Nat /\ Weight(c, rxBffr) \in Nat /\ Weight(c, x) \in Nat /\ Weight(c, <<>>) = 0
    BY <1>1, WeightNat, WeightEmpty DEF TextInv, Received, S
  <2>2. Loaded(c) \in Nat /\ MaxLoad \in Nat
    BY <1>1, LoadNat DEF Loaded, MaxLoad
  <2>3. Weight(c, x) <= Weight(c, rxBffr) /\ Weight(c, rawResponse \o x) = Weight(c, rawResponse) + Weight(c, x)
    BY <1>1, WeightCat DEF S
  <2>4. CASE rawResponse' = rawResponse /\ rxBffr' = x
    BY <2>1, <2>2, <2>3, <2>4
  <2>5. CASE rawResponse' = rawResponse \o x /\ rxBffr' = <<>>
    <3>1. Weight(c, rawResponse') = Weight(c, rawResponse) + Weight(c, x) /\ Weight(c, rxBffr') = 0
      BY <2>1, <2>3, <2>5
    <3> QED BY <3>1, <2>1, <2>2, <2>3
  <2>6. CASE rawResponse' = <<>> /\ rxBffr' = x
    <3>1. Weight(c, rawResponse') = 0 /\ Weight(c, rxBffr') = Weight(c, x)
      BY <2>1, <2>6
    <3> QED BY <3>1, <2>1, <2>2, <2>3
  <2> QED BY <2>4, <2>5, <2>6
<1>4. Received'
  BY <1>1, <1>2, <1>3 DEF Received, Loaded, S
<1>5. Numbers'
  <2>1. good \subseteq 0..cmds /\ answered \subseteq 0..cmds /\ dataMode.c \in 0..cmds /\ 0 \in 0..cmds
    BY <1>1 DEF TextInv, Numbers
  <2>2. dataMode'.c \in 0..cmds' /\ cmds' \in Nat
    BY <2>1, <1>1
  <2> QED BY <2>1, <2>2 DEF Numbers
<1>6. Answering'
  BY DEF TextInv, Answering
<1>7. Queued'
  <2>1. CASE inbox' = inbox
    BY <2>1 DEF TextInv, Queued
  <2>2. CASE inbox' = Append(inbox, [k |-> "data", c |-> dataMode.c])
    <3> DEFINE m == [k |-> "data", c |-> dataMode.c]
               M == Messages(cmds)
    <3>1. m \in M /\ m.k = "data" /\ inbox \in Seq(M)
      BY DEF TextInv, Numbers, Queued, Messages
    <3> HIDE DEF m, M
    <3>2. inbox' = Append(inbox, m)
      BY <2>2 DEF m
    <3>3. inbox' \in Seq(M) /\ Len(inbox') = Len(inbox) + 1 /\ Len(inbox) \in Nat
      BY <3>1, <3>2
    <3>4. \A i \in 1..Len(inbox) : inbox'[i] = inbox[i]
      BY <3>1, <3>2
    <3>5. inbox'[Len(inbox) + 1].k = "data"
      BY <3>1, <3>2
    <3>6. ASSUME NEW i \in 1..Len(inbox'), inbox'[i].k # "data"
          PROVE  out.c < inbox'[i].c /\ \A j \in 1..(i - 1) : inbox'[j].k # "data" => inbox'[j].c < inbox'[i].c
      <4>1. i \in 1..Len(inbox) /\ \A j \in 1..(i - 1) : j \in 1..Len(inbox)
        BY <3>3, <3>5, <3>6
      <4> QED BY <4>1, <3>4, <3>6 DEF TextInv, Queued
    <3> QED BY <3>3, <3>6 DEF Queued, M
  <2> QED BY <2>1, <2>2
<1> QED BY <1>4, <1>5, <1>6, <1>7 DEF TextInv

-----------------------------------------------------------------------------
(* The module's steps. *)
LEMMA LoadTail ==
    ASSUME NEW chunks, Answer(chunks), chunks # <<>>
    PROVE  /\ Answer(Tail(chunks)) /\ Head(chunks) \in Chunks
           /\ Load(chunks) = ChunkWeight(Head(chunks)) + Load(Tail(chunks))
<1> DEFINE n == Len(chunks)
           t == Tail(chunks)
<1>1. chunks \in Seq(Chunks) /\ n \in 1..5
  <2>1. chunks \in Seq(Chunks) /\ n \in Nat /\ n # 0 /\ n <= 5
    BY DEF Answer
  <2> HIDE DEF n
  <2> QED BY <2>1
<1>2. t \in Seq(Chunks) /\ Len(t) = n - 1 /\ \A i \in 1..(n - 1) : t[i] = chunks[i + 1]
  BY <1>1
<1>3. Head(chunks) = chunks[1] /\ chunks[1] \in Chunks
  BY <1>1
<1> HIDE DEF n, t
<1>4. \A i \in 1..5 : Part(chunks, i) = (IF i <= n THEN ChunkWeight(chunks[i]) ELSE 0) /\ Part(t, i) = IF i <= n - 1 THEN ChunkWeight(t[i]) ELSE 0
  BY <1>2 DEF Part, n
<1>5. /\ Part(t, 1) = Part(chunks, 2) /\ Part(t, 2) = Part(chunks, 3) /\ Part(t, 3) = Part(chunks, 4) /\ Part(t, 4) = Part(chunks, 5)
      /\ Part(t, 5) = 0 /\ Part(chunks, 1) = ChunkWeight(chunks[1])
  <2>1. \A i \in 1..4 : i \in 1..5 /\ i + 1 \in 1..5 /\ (i <= n - 1 <=> i + 1 <= n) /\ (i <= n - 1 => i \in 1..(n - 1))
    BY <1>1
  <2>2. \A i \in 1..4 : Part(t, i) = Part(chunks, i + 1)
    BY <2>1, <1>2, <1>4
  <2>3. ~(5 <= n - 1) /\ 1 <= n
    BY <1>1
  <2> QED BY <2>2, <2>3, <1>4
<1>6. \A i \in 1..5 : Part(chunks, i) \in Nat
  BY ChunkWeightNat DEF Part, Answer
<1>7. Load(chunks) = ChunkWeight(chunks[1]) + Load(t)
  BY <1>5, <1>6 DEF Load
<1>8. Answer(t)
  BY <1>1, <1>2 DEF Answer
<1> QED BY <1>3, <1>7, <1>8 DEF t

LEMMA QueuedTail ==
    ASSUME Queued, inbox # <<>>, inbox' = Tail(inbox), UNCHANGED cmds, cmds \in Nat,
           out'.c = out.c \/ (inbox[1].k # "data" /\ out'.c = inbox[1].c)
    PROVE  /\ Queued' /\ inbox[1] \in Messages(cmds) /\ Head(inbox) = inbox[1]
           /\ inbox[1].k # "data" => out.c < inbox[1].c
<1>1. inbox \in Seq(Messages(cmds)) /\ Len(inbox) \in Nat /\ Len(inbox) # 0
  BY DEF Queued
<1>2. inbox' \in Seq(Messages(cmds)) /\ Len(inbox') = Len(inbox) - 1 /\ \A i \in 1..(Len(inbox) - 1) : inbox'[i] = inbox[i + 1]
  BY <1>1
<1>3. inbox[1] \in Messages(cmds) /\ Head(inbox) = inbox[1] /\ 1 \in 1..Len(inbox)
  BY <1>1
<1>4. ASSUME NEW i \in 1..Len(inbox'), inbox'[i].k # "data"
      PROVE  out'.c < inbox'[i].c /\ \A j \in 1..(i - 1) : inbox'[j].k # "data" => inbox'[j].c < inbox'[i].c
  <2>1. i + 1 \in 1..Len(inbox) /\ inbox'[i] = inbox[i + 1] /\ 1 \in 1..((i + 1) - 1)
    BY <1>1, <1>2
  <2>2. out.c < inbox[i + 1].c /\ \A j \in 1..((i + 1) - 1) : inbox[j].k # "data" => inbox[j].c < inbox[i + 1].c
    BY <1>4, <2>1 DEF Queued
  <2>3. ASSUME NEW j \in 1..(i - 1), inbox'[j].k # "data" PROVE inbox'[j].c < inbox'[i].c
    <3>1. j + 1 \in 1..((i + 1) - 1) /\ inbox'[j] = inbox[j + 1]
      BY <1>1, <1>2
    <3> QED BY <2>1, <2>2, <2>3, <3>1
  <2> QED BY <2>1, <2>2, <2>3
<1>5. inbox[1].k # "data" => out.c < inbox[1].c
  BY <1>3 DEF Queued
<1> QED BY <1>2, <1>3, <1>4, <1>5 DEF Queued

LEMMA NoneYet == ASSUME Received, Answering, NEW c \in Nat, c > out.c PROVE Weight(c, rawResponse) = 0 /\ Weight(c, rxBffr) = 0
<1>1. out.c \in Nat \cup Int
  BY DEF Answering
<1>2. ASSUME NEW text \in Seq(Pieces(1..out.c)) PROVE Weight(c, text) = 0
  <2>1. \A i \in 1..Len(text) : text[i] \in Pieces(1..out.c)
    OBVIOUS
  <2>2. \A i \in 1..Len(text) : text[i].c \in 1..out.c
    BY <2>1 DEF Pieces
  <2>3. \A i \in 1..Len(text) : text[i].c # c
    BY <1>1, <2>2
  <2> QED BY <2>3, WeightNone
<1> QED BY <1>2 DEF Received

LEMMA ServeText == ASSUME TextInv, Serve PROVE TextInv'
<1>1. /\ out.chunks = <<>> /\ inbox # <<>> /\ inbox' = Tail(inbox)
      /\ UNCHANGED <<cmds, dataMode, elapsed, answered, loose, mine, rawResponse, rxBffr>>
  BY DEF Serve, ModFrame, cmdVars, histVars
<1>2. cmds \in Nat /\ Queued /\ out.c \in 0..cmds
  BY DEF TextInv, Numbers, Answering
<1>3. CASE inbox[1].k = "data"
  <2>1. Head(inbox) = inbox[1]
    BY <1>1, <1>2 DEF Queued
  <2>2. UNCHANGED <<out, good>>
    BY <1>3, <2>1 DEF Serve
  <2>3. Queued'
    BY <1>1, <1>2, <2>2, QueuedTail
  <2> QED BY <1>1, <2>2, <2>3 DEF TextInv, Numbers, Answering, Received, Loaded
<1>4. CASE inbox[1].k # "data"
  <2> DEFINE m == inbox[1]
  <2>1. Head(inbox) = m /\ m \in Messages(cmds)
    BY <1>1, <1>2 DEF Queued
  <2>2. m.k \in Asked /\ m.c \in 1..cmds
    BY <1>4, <2>1 DEF Messages
  <2>3. PICK reply \in Replies(m.k) : /\ out' = [c |-> m.c, chunks |-> reply.chunks]
                                      /\ good' = IF reply.good THEN good \cup {m.c} ELSE good
    BY <1>4, <2>1 DEF Serve
  <2> HIDE DEF m
  <2>4. Answer(reply.chunks) /\ Load(reply.chunks) <= MaxLoad /\ Load(reply.chunks) \in Nat
    BY <2>2, RepliesGood, LoadNat DEF GoodReply
  <2>5. out'.c = m.c /\ out'.chunks = reply.chunks
    BY <2>3
  <2>6. Queued' /\ out.c < m.c
    BY <1>1, <1>2, <1>4, <2>5, QueuedTail DEF m
  <2>7. Answering'
    BY <1>1, <1>2, <2>2, <2>3, <2>4 DEF Answering, Answer
  <2>8. Numbers'
    <3>1. good \subseteq 0..cmds /\ answered \subseteq 0..cmds /\ loose \subseteq 0..cmds /\ m.c \in 0..cmds
      BY <1>2, <2>2 DEF TextInv, Numbers
    <3>2. good' \subseteq 0..cmds
      BY <3>1, <2>3
    <3> QED BY <1>1, <3>1, <3>2 DEF TextInv, Numbers
  <2>9. 1..out.c \subseteq 1..m.c
    BY <1>2, <2>2, <2>6
  <2>10. rawResponse' \in Seq(Pieces(1..out'.c)) /\ rxBffr' \in Seq(Pieces(1..out'.c))
    <3>1. rawResponse \in Seq(Pieces(1..out.c)) /\ rxBffr \in Seq(Pieces(1..out.c))
      BY DEF TextInv, Received
    <3>2. Seq(Pieces(1..out.c)) \subseteq Seq(Pieces(1..m.c))
      BY <2>9, PieceSets
    <3> QED BY <1>1, <2>5, <3>1, <3>2
  <2>11. ASSUME NEW c \in 1..m.c PROVE Weight(c, rawResponse) + Weight(c, rxBffr) + Loaded(c)' <= MaxLoad
    <3>1. CASE c <= out.c
      <4>1. c \in 1..out.c /\ c # m.c
        BY <1>2, <2>2, <2>6, <3>1
      <4>2. Weight(c, rawResponse) + Weight(c, rxBffr) + Loaded(c) <= MaxLoad
        BY <4>1 DEF TextInv, Received
      <4>3. Weight(c, rawResponse) \in Nat /\ Weight(c, rxBffr) \in Nat
        BY WeightNat DEF TextInv, Received
      <4>4. Loaded(c) \in Nat
        BY LoadNat DEF Loaded, TextInv, Answering
      <4>5. Loaded(c)' = 0
        BY <2>5, <4>1 DEF Loaded
      <4> QED BY <4>2, <4>3, <4>4, <4>5 DEF MaxLoad
    <3>2. CASE c > out.c
      <4>1. Weight(c, rawResponse) = 0 /\ Weight(c, rxBffr) = 0
        BY <3>2, NoneYet DEF TextInv
      <4>2. Loaded(c)' = Load(reply.chunks) \/ Loaded(c)' = 0
        BY <2>5 DEF Loaded
      <4> QED BY <4>1, <4>2, <2>4 DEF MaxLoad
    <3> QED BY <3>1, <3>2, <1>2, <2>2
  <2>12. Received'
    BY <1>1, <2>5, <2>10, <2>11 DEF Received
  <2> QED BY <2>6, <2>7, <2>8, <2>12 DEF TextInv
<1> QED BY <1>3, <1>4

(* A chunk as it arrives, with the number of the command it answers. *)
Sent(chunk, c) == [i \in DOMAIN chunk |-> [chunk[i] EXCEPT !.c = c]]

LEMMA SentTyped ==
    ASSUME NEW chunk \in Chunks, NEW C, NEW c \in C
    PROVE  /\ Sent(chunk, c) \in Seq(Pieces(C)) /\ Len(Sent(chunk, c)) = Len(chunk)
           /\ \A i \in 1..Len(chunk) : Sent(chunk, c)[i].c = c /\ Sent(chunk, c)[i].k = chunk[i].k /\ chunk[i].c = NoCmd
<1> DEFINE sent == Sent(chunk, c)
           S    == Pieces(C)
<1>1. chunk \in Seq(Pieces({NoCmd})) /\ DOMAIN chunk = 1..Len(chunk) /\ Len(chunk) \in Nat
  BY DEF Chunks
<1>2. ASSUME NEW i \in 1..Len(chunk)
      PROVE  [chunk[i] EXCEPT !.c = c] \in S /\ [chunk[i] EXCEPT !.c = c].c = c
             /\ [chunk[i] EXCEPT !.c = c].k = chunk[i].k /\ chunk[i].c = NoCmd
  <2>1. chunk[i] \in Pieces({NoCmd})
    BY <1>1
  <2> QED BY <2>1 DEF Pieces
<1>3. sent = [i \in 1..Len(chunk) |-> [chunk[i] EXCEPT !.c = c]]
  BY <1>1 DEF Sent
<1> HIDE DEF sent, S
<1>4. sent \in [1..Len(chunk) -> S]
  BY <1>2, <1>3
<1>5. sent \in Seq(S) /\ Len(sent) = Len(chunk)
  BY <1>1, <1>4
<1> QED BY <1>2, <1>3, <1>5 DEF sent, S

LEMMA EmitText == ASSUME TextInv, Emit PROVE TextInv'
<1> DEFINE chunk == Head(out.chunks)
           sent  == [i \in DOMAIN chunk |-> [chunk[i] EXCEPT !.c = out.c]]
           S     == Pieces(1..out.c)
<1>1. /\ out.chunks # <<>> /\ chunk # Data /\ rxBffr' = rxBffr \o sent
      /\ out' = [out EXCEPT !.chunks = Tail(out.chunks)]
      /\ answered' \subseteq answered \cup {out.c}
      /\ UNCHANGED <<cmds, dataMode, elapsed, inbox, good, loose, mine, rawResponse>>
  BY DEF Emit, ModFrame, cmdVars, histVars
<1>2. cmds \in Nat /\ out \in [c : 0..cmds, chunks : Seq(Chunks)] /\ out.c \in 1..cmds /\ Answer(out.chunks)
  BY <1>1 DEF TextInv, Numbers, Answering
<1>3. out'.c = out.c /\ out'.chunks = Tail(out.chunks)
  BY <1>1, <1>2
<1>4. /\ Answer(Tail(out.chunks)) /\ chunk \in Chunks
      /\ Load(out.chunks) = ChunkWeight(chunk) + Load(Tail(out.chunks))
  BY <1>1, <1>2, LoadTail
<1> HIDE DEF chunk
<1>5. /\ sent \in Seq(S) /\ Len(sent) = Len(chunk)
      /\ \A i \in 1..Len(chunk) : sent[i].c = out.c /\ sent[i].k = chunk[i].k /\ chunk[i].c = NoCmd
  <2>1. out.c \in 1..out.c
    BY <1>2
  <2>2. sent = Sent(chunk, out.c)
    BY DEF Sent
  <2>3. /\ Sent(chunk, out.c) \in Seq(Pieces(1..out.c)) /\ Len(Sent(chunk, out.c)) = Len(chunk)
        /\ \A i \in 1..Len(chunk) : /\ Sent(chunk, out.c)[i].c = out.c /\ Sent(chunk, out.c)[i].k = chunk[i].k
                                    /\ chunk[i].c = NoCmd
    BY <1>4, <2>1, SentTyped
  <2> HIDE DEF sent
  <2> QED BY <2>2, <2>3
<1> HIDE DEF sent
<1>6. Weight(out.c, sent) = Weight(NoCmd, chunk)
  <2> DEFINE x == Own(out.c, sent)
             y == Own(NoCmd, chunk)
             T == S \cup {Blank} \cup Pieces({NoCmd})
  <2>1. x \in Seq(S \cup {Blank}) /\ Len(x) = Len(chunk)
        /\ \A i \in 1..Len(chunk) : x[i] = IF sent[i].c = out.c /\ sent[i].k # "item" THEN sent[i] ELSE Blank
    <3>1. sent \in Seq(S) /\ Len(sent) = Len(chunk)
      BY <1>5
    <3> HIDE DEF S
    <3>2. x \in Seq(S \cup {Blank}) /\ Len(x) = Len(sent)
          /\ \A i \in 1..Len(sent) : x[i] = IF sent[i].c = out.c /\ sent[i].k # "item" THEN sent[i] ELSE Blank
      BY <3>1, OwnText
    <3> HIDE DEF x
    <3> QED BY <3>1, <3>2
  <2>2. y \in Seq(Pieces({NoCmd}) \cup {Blank}) /\ Len(y) = Len(chunk)
        /\ \A i \in 1..Len(chunk) : y[i] = IF chunk[i].c = NoCmd /\ chunk[i].k # "item" THEN chunk[i] ELSE Blank
    BY <1>4, OwnText DEF Chunks
  <2> HIDE DEF x, y
  <2>3. \A i \in 1..Len(x) : Size(x[i].k) = Size(y[i].k)
    BY <2>1, <2>2, <1>5
  <2>4. x \in Seq(T) /\ y \in Seq(T)
    <3> HIDE DEF S
    <3> QED BY <2>1, <2>2, SeqMonotonic
  <2> HIDE DEF T
  <2>5. strlen(x) = strlen(y)
    BY <2>1, <2>2, <2>3, <2>4, StrlenKinds
  <2> QED BY <2>5 DEF Weight, x, y
<1>7. ASSUME NEW c, c # out.c PROVE Weight(c, sent) = 0
  BY <1>5, <1>7, WeightNone
<1>8. rawResponse \in Seq(S) /\ rxBffr \in Seq(S)
  BY DEF TextInv, Received
<1> HIDE DEF S
<1>9. rxBffr' \in Seq(S) /\ \A c : Weight(c, rxBffr') = Weight(c, rxBffr) + Weight(c, sent)
  <2>1. ASSUME NEW c PROVE rxBffr \o sent \in Seq(S) /\ Weight(c, rxBffr \o sent) = Weight(c, rxBffr) + Weight(c, sent)
    BY <1>5, <1>8, WeightCat
  <2> QED BY <1>1, <2>1
<1>10. ASSUME NEW c \in 1..out.c
       PROVE  Weight(c, rawResponse) + Weight(c, rxBffr') + Loaded(c)' <= MaxLoad
  <2>1. /\ Weight(c, rawResponse) + Weight(c, rxBffr) + Loaded(c) <= MaxLoad
        /\ Weight(c, rxBffr') = Weight(c, rxBffr) + Weight(c, sent)
    BY <1>9 DEF TextInv, Received
  <2>2. Weight(c, rawResponse) \in Nat /\ Weight(c, rxBffr) \in Nat /\ Weight(c, sent) \in Nat
    BY <1>5, <1>8, WeightNat
  <2>3. CASE c = out.c
    <3>1. Loaded(c) = Load(out.chunks) /\ Loaded(c)' = Load(Tail(out.chunks))
      BY <1>3, <2>3 DEF Loaded
    <3>2. Load(Tail(out.chunks)) \in Nat
      BY <1>4, LoadNat
    <3>3. ChunkWeight(chunk) = Weight(c, sent)
      BY <1>1, <1>6, <2>3 DEF ChunkWeight
    <3> QED BY <1>4, <2>1, <2>2, <3>1, <3>2, <3>3 DEF MaxLoad
  <2>4. CASE c # out.c
    <3>1. Loaded(c) = 0 /\ Loaded(c)' = 0 /\ Weight(c, sent) = 0
      BY <1>3, <1>7, <2>4 DEF Loaded
    <3> QED BY <2>1, <2>2, <3>1 DEF MaxLoad
  <2> QED BY <2>3, <2>4
<1>11. Received'
  BY <1>1, <1>3, <1>8, <1>9, <1>10 DEF Received, S
<1>12. Answering'
  <2>1. Tail(out.chunks) \in Seq(Chunks)
    BY <1>4 DEF Answer
  <2> HIDE DEF chunk
  <2>2. out' \in [c : 0..cmds, chunks : Seq(Chunks)]
    BY <1>1, <1>2, <2>1
  <2> QED BY <1>1, <1>2, <1>3, <1>4, <2>2 DEF Answering
<1>13. Queued'
  BY <1>1, <1>3 DEF TextInv, Queued
<1>14. Numbers'
  <2>1. good \subseteq 0..cmds /\ answered \subseteq 0..cmds /\ loose \subseteq 0..cmds /\ out.c \in 0..cmds
    BY <1>2 DEF TextInv, Numbers
  <2>2. answered' \subseteq 0..cmds
    BY <1>1, <2>1
  <2> QED BY <1>1, <2>1, <2>2 DEF TextInv, Numbers
<1> QED BY <1>11, <1>12, <1>13, <1>14 DEF TextInv

LEMMA RefusalLoad == Answer(<<Refusal>>) /\ Load(<<Refusal>>) <= 9
<1>1. Refusal \in Chunks /\ ChunkWeight(Refusal) <= 9 /\ ChunkWeight(Refusal) \in Nat
  BY ChunkWeights, DataHeavy, ChunkWeightNat DEF Heavy
<1> HIDE DEF Refusal
<1> QED BY <1>1 DEF Answer, Load, Part

LEMMA TakeDataText == ASSUME TextInv, TakeData PROVE TextInv'
<1>1. /\ out.chunks # <<>> /\ Head(out.chunks) = Data
      /\ UNCHANGED <<cmds, dataMode, elapsed, answered, loose, mine, rawResponse, rxBffr>>
  BY DEF TakeData, ModFrame, cmdVars, histVars
<1>2. /\ cmds \in Nat /\ out \in [c : 0..cmds, chunks : Seq(Chunks)] /\ Answer(out.chunks)
      /\ inbox \in Seq(Messages(cmds))
  BY DEF TextInv, Numbers, Answering, Queued
<1>3. /\ Answer(Tail(out.chunks)) /\ Load(out.chunks) = 9 + Load(Tail(out.chunks))
      /\ Load(Tail(out.chunks)) \in Nat
  BY <1>1, <1>2, LoadTail, LoadNat DEF ChunkWeight
<1>4. good' \subseteq good
  BY DEF TakeData
<1>5. Numbers'
  BY <1>1, <1>4 DEF TextInv, Numbers
<1>6. ASSUME NEW chunks, Answer(chunks), Load(chunks) <= Load(out.chunks), out' = [out EXCEPT !.chunks = chunks]
      PROVE  Answering' /\ Received' /\ out'.c = out.c
  <2>1. out'.c = out.c /\ out'.chunks = chunks
    BY <1>2, <1>6
  <2>2. Load(chunks) \in Nat /\ Load(out.chunks) \in Nat
    BY <1>2, <1>6, LoadNat
  <2>3. Answering'
    BY <1>1, <1>2, <1>6, <2>1 DEF Answering, Answer, TextInv
  <2>4. ASSUME NEW c \in 1..out.c PROVE Weight(c, rawResponse) + Weight(c, rxBffr) + Loaded(c)' <= MaxLoad
    <3>1. Weight(c, rawResponse) + Weight(c, rxBffr) + Loaded(c) <= MaxLoad
      BY DEF TextInv, Received
    <3>2. Weight(c, rawResponse) \in Nat /\ Weight(c, rxBffr) \in Nat
      BY WeightNat DEF TextInv, Received
    <3>3. Loaded(c)' <= Loaded(c) /\ Loaded(c)' \in Nat /\ Loaded(c) \in Nat
      BY <1>6, <2>1, <2>2 DEF Loaded
    <3> QED BY <3>1, <3>2, <3>3 DEF MaxLoad
  <2>5. Received'
    BY <1>1, <2>1, <2>4 DEF TextInv, Received
  <2> QED BY <2>1, <2>3, <2>5
<1>7. CASE inbox # <<>>
  <2>1. inbox' = Tail(inbox) /\ out' = [out EXCEPT !.chunks = Tail(out.chunks)]
    BY <1>7 DEF TakeData
  <2>4. Load(Tail(out.chunks)) <= Load(out.chunks)
    BY <1>3
  <2>2. Answering' /\ Received' /\ out'.c = out.c
    BY <1>3, <1>6, <2>1, <2>4
  <2>3. Queued'
    BY <1>1, <1>2, <1>7, <2>1, <2>2, QueuedTail DEF TextInv
  <2> QED BY <1>5, <2>2, <2>3 DEF TextInv
<1>8. CASE inbox = <<>>
  <2>1. inbox' = inbox /\ out' = [out EXCEPT !.chunks = <<Refusal>>]
    BY <1>8 DEF TakeData
  <2>2. Answer(<<Refusal>>) /\ Load(<<Refusal>>) <= 9 /\ Load(<<Refusal>>) \in Nat
    BY RefusalLoad, LoadNat
  <2>3. Load(<<Refusal>>) <= Load(out.chunks)
    BY <1>3, <2>2
  <2>4. Answering' /\ Received' /\ out'.c = out.c
    BY <1>6, <2>1, <2>2, <2>3
  <2>5. Queued'
    BY <1>1, <1>2, <2>1, <2>4 DEF TextInv, Queued
  <2> QED BY <1>5, <2>4, <2>5 DEF TextInv
<1> QED BY <1>7, <1>8

-----------------------------------------------------------------------------
(* The callers' steps. *)
LEMMA CommandMade ==
    ASSUME LockInv, NEW t \in Tasks, step[t] <= Len(Script(t).cmds)
    PROVE  Command(t) \in CommandsOf(call[t]) /\ Command(t).k \in Asked
<1>1. Made(call[t], Script(t))
  BY ScriptIs, ScriptMade DEF LockInv, Types
<1>2. Script(t).cmds \in Seq(CommandsOf(call[t])) /\ step[t] \in 1..Len(Script(t).cmds)
  <2>1. step[t] \in Nat \ {0} /\ Script(t).cmds \in Seq(CommandsOf(call[t]))
    BY <1>1 DEF LockInv, Types, Made
  <2> QED BY <2>1
<1>3. Command(t) \in CommandsOf(call[t])
  BY <1>2 DEF Command
<1> QED BY <1>3, CommandFacts DEF CommandsOf

LEMMA SendText == ASSUME TextInv, NEW t \in Tasks, Command(t).k \in Asked, SendCommand(t) PROVE TextInv'
<1> DEFINE n == cmds + 1
           m == [k |-> Command(t).k, c |-> n]
           M == Messages(n)
<1>1. /\ rawResponse' = <<>> /\ inbox' = Append(inbox, m) /\ elapsed' = FALSE /\ cmds' = n
      /\ dataMode'.c \in {dataMode.c, n}
      /\ mine' = [mine EXCEPT ![t] = @ \cup {n}]
      /\ UNCHANGED <<rxBffr, out, good, answered, loose>>
  BY DEF SendCommand, Reset
<1>2. /\ cmds \in Nat /\ dataMode.c \in 0..cmds /\ out.c \in 0..cmds
      /\ good \subseteq 0..cmds /\ answered \subseteq 0..cmds /\ loose \subseteq 0..cmds
      /\ mine \in [Tasks -> SUBSET (1..cmds)]
  BY DEF TextInv, Numbers, Answering
<1>3. n \in Nat /\ 0..cmds \subseteq 0..n /\ 1..cmds \subseteq 1..n /\ n \in 1..n /\ n \in 0..n /\ out.c < n
  BY <1>2
<1>4. inbox \in Seq(M) /\ Len(inbox) \in Nat /\ \A i \in 1..Len(inbox) : inbox[i].c <= cmds /\ inbox[i].c \in Nat
  <2>1. Messages(cmds) \subseteq M
    BY <1>3 DEF Messages
  <2>2. inbox \in Seq(Messages(cmds))
    BY DEF TextInv, Queued
  <2>3. inbox \in Seq(M)
    BY <2>1, <2>2, SeqMonotonic
  <2>4. \A i \in 1..Len(inbox) : inbox[i] \in Messages(cmds)
    BY <2>2
  <2>5. \A x \in Messages(cmds) : x.c \in 0..cmds
    BY <1>2 DEF Messages
  <2>6. \A x \in 0..cmds : x <= cmds /\ x \in Nat
    BY <1>2
  <2> QED BY <2>2, <2>3, <2>4, <2>5, <2>6
<1>5. m \in M /\ m.k # "data" /\ m.c = n
  BY <1>3 DEF Messages, Asked
<1> HIDE DEF n, m, M
<1>6. Queued'
  <2>1. inbox' \in Seq(M) /\ Len(inbox') = Len(inbox) + 1 /\ inbox'[Len(inbox) + 1] = m
    BY <1>1, <1>4, <1>5
  <2>2. \A i \in 1..Len(inbox) : inbox'[i] = inbox[i]
    BY <1>1, <1>4, <1>5
  <2>3. ASSUME NEW i \in 1..Len(inbox'), inbox'[i].k # "data"
        PROVE  out.c < inbox'[i].c /\ \A j \in 1..(i - 1) : inbox'[j].k # "data" => inbox'[j].c < inbox'[i].c
    <3>1. CASE i \in 1..Len(inbox)
      <4>1. \A j \in 1..(i - 1) : j \in 1..Len(inbox)
        BY <1>4, <3>1
      <4> QED BY <2>2, <2>3, <3>1, <4>1 DEF TextInv, Queued
    <3>2. CASE i = Len(inbox) + 1
      <4>1. \A j \in 1..(i - 1) : j \in 1..Len(inbox)
        BY <1>4, <3>2
      <4>2. inbox'[i].c = n
        BY <1>5, <2>1, <3>2
      <4>3. ASSUME NEW j \in 1..(i - 1) PROVE inbox'[j].c < n
        <5>1. inbox'[j].c <= cmds /\ inbox'[j].c \in Nat
          BY <1>4, <2>2, <4>1
        <5> QED BY <5>1, <1>2 DEF n
      <4> QED BY <1>3, <4>2, <4>3
    <3>3. i \in 1..Len(inbox) \/ i = Len(inbox) + 1
      BY <2>1, <1>4
    <3> QED BY <3>1, <3>2, <3>3
  <2> QED BY <1>1, <2>1, <2>3 DEF Queued, M
<1>7. Numbers'
  <2>1. mine' \in [Tasks -> SUBSET (1..n)]
    BY <1>1, <1>2, <1>3
  <2>2. dataMode'.c \in 0..n
    BY <1>1, <1>2, <1>3
  <2>3. good' \subseteq 0..n /\ answered' \subseteq 0..n /\ loose' \subseteq 0..n
    BY <1>1, <1>2, <1>3
  <2>4. elapsed' \in BOOLEAN /\ cmds' = n
    BY <1>1
  <2> QED BY <1>3, <2>1, <2>2, <2>3, <2>4 DEF Numbers
<1>8. Answering'
  <2>1. out \in [c : 0..n, chunks : Seq(Chunks)]
    BY <1>3 DEF TextInv, Answering
  <2> QED BY <1>1, <2>1 DEF TextInv, Answering
<1>9. Received'
  <2>1. ASSUME NEW c \in 1..out.c PROVE Weight(c, <<>>) + Weight(c, rxBffr) + Loaded(c) <= MaxLoad
    <3>1. /\ Weight(c, rawResponse) + Weight(c, rxBffr) + Loaded(c) <= MaxLoad
          /\ Weight(c, rawResponse) \in Nat /\ Weight(c, rxBffr) \in Nat
      BY WeightNat DEF TextInv, Received
    <3>2. Loaded(c) \in Nat
      BY LoadNat DEF TextInv, Answering, Loaded
    <3> QED BY <3>1, <3>2, WeightEmpty DEF MaxLoad
  <2>2. <<>> \in Seq(Pieces(1..out.c))
    OBVIOUS
  <2> QED BY <1>1, <2>1, <2>2 DEF TextInv, Received, Loaded
<1> QED BY <1>6, <1>7, <1>8, <1>9 DEF TextInv

LEMMA AwaitAgainText == ASSUME TextInv, NEW t \in Tasks, AwaitAgain(t) PROVE TextInv'
<1>1. /\ rawResponse' \in {rawResponse, <<>>} /\ elapsed' \in {elapsed, TRUE}
      /\ UNCHANGED <<cmds, dataMode, good, answered, loose, mine, inbox, out, rxBffr>>
  BY DEF AwaitAgain, Reset, modVars
<1>2. rxBffr \in Seq(Pieces(1..out.c)) /\ loose \subseteq 0..cmds /\ elapsed \in BOOLEAN /\ mine \in [Tasks -> SUBSET (1..cmds)]
  BY DEF TextInv, Received, Numbers
<1>3. \A c : Weight(c, rxBffr) <= Weight(c, rxBffr)
  <2>1. \A c : Weight(c, rxBffr) \in Nat
    BY <1>2, WeightNat
  <2> QED BY <2>1
<1> QED BY <1>1, <1>2, <1>3, TextTaken

-----------------------------------------------------------------------------
(* What is read is what was received, or the end of it. *)
Ending(x) == x \in Seq(Pieces(1..out.c)) /\ \A c : Weight(c, x) <= Weight(c, rxBffr)

LEMMA Endings == ASSUME TextInv PROVE Ending(rxBffr) /\ Ending(<<>>) /\ \A i \in Nat \ {0} : Ending(Rest(rxBffr, i))
<1> DEFINE S == Pieces(1..out.c)
<1>1. rxBffr \in Seq(S)
  BY DEF TextInv, Received
<1> HIDE DEF S
<1>2. \A c : Weight(c, rxBffr) \in Nat
  BY <1>1, WeightNat
<1>3. Ending(rxBffr)
  BY <1>1, <1>2 DEF Ending, S
<1>4. Ending(<<>>)
  <2>1. \A c : Weight(c, <<>>) = 0
    BY WeightEmpty
  <2>2. <<>> \in Seq(S)
    OBVIOUS
  <2> QED BY <1>2, <2>1, <2>2 DEF Ending, S
<1>5. ASSUME NEW i \in Nat \ {0} PROVE Ending(Rest(rxBffr, i))
  <2>1. Rest(rxBffr, i) \in Seq(S)
    BY <1>1, StrlenRest
  <2>2. \A c : Weight(c, Rest(rxBffr, i)) <= Weight(c, rxBffr)
    BY <1>1, WeightRest
  <2> QED BY <2>1, <2>2 DEF Ending, S
<1> QED BY <1>3, <1>4, <1>5

LEMMA FirstPlace == ASSUME NEW text, NEW part, Places(text, part) # {} PROVE Min(Places(text, part)) \in Nat \ {0}
<1>1. Places(text, part) \in SUBSET Nat /\ \A i \in Places(text, part) : i # 0
  BY DEF Places
<1>2. Min(Places(text, part)) \in Places(text, part)
  BY <1>1, MinLeast
<1> QED BY <1>1, <1>2

LEMMA HasPlace == ASSUME NEW T, NEW text \in Seq(T), NEW k, Has(text, k) PROVE Places(text, <<k>>) # {}
<1>1. PICK i \in 1..Len(text) : text[i].k = k
  BY DEF Has
<1> DEFINE ks == Kinds(text)
<1>2. ks = [j \in 1..Len(text) |-> text[j].k] /\ Len(text) \in Nat
  BY DEF Kinds
<1> DEFINE K == {text[j].k : j \in 1..Len(text)}
<1>3. ks \in Seq(K) /\ Len(ks) = Len(text) /\ ks[i] = k
  <2>1. \A j \in 1..Len(text) : text[j].k \in K
    OBVIOUS
  <2> HIDE DEF K, ks
  <2>2. ks \in [1..Len(text) -> K]
    BY <1>2, <2>1
  <2> QED BY <1>1, <1>2, <2>2
<1> HIDE DEF K
<1> HIDE DEF ks
<1>4. SubSeq(ks, i, i) = <<k>>
  <2>1. i \in 1..Len(ks)
    BY <1>1, <1>3
  <2>2. SubSeq(ks, i, i) \in Seq(K) /\ Len(SubSeq(ks, i, i)) = 1 /\ SubSeq(ks, i, i)[1] = ks[i]
    BY <1>3, <2>1
  <2> DEFINE x == SubSeq(ks, i, i)
  <2> HIDE DEF x
  <2>3. x \in Seq(K) /\ Len(x) = 1 /\ x[1] = k
    BY <1>3, <2>2 DEF x
  <2>4. k \in K
    BY <1>1 DEF K
  <2>5. <<k>> \in Seq(K) /\ Len(<<k>>) = 1 /\ <<k>>[1] = k
    BY <2>4
  <2>6. x = <<k>>
    BY <2>3, <2>5, SeqEqual
  <2> QED BY <2>6 DEF x
<1>5. i \in 1..(Len(text) + 1 - Len(<<k>>)) /\ i + Len(<<k>>) - 1 = i
  BY <1>1
<1> QED BY <1>4, <1>5 DEF Places, ks

LEMMA ConcludeLoose ==
    ASSUME TextInv, NEW t \in Tasks, NEW r, NEW c, Conclude(t, r, c) PROVE loose' \subseteq 0..cmds
<1>1. loose' \subseteq loose \cup {Current(t)}
  BY DEF Conclude
<1> QED BY <1>1, CurrentTyped DEF TextInv, Numbers

LEMMA SettleLoose ==
    ASSUME TextInv, NEW t \in Tasks, NEW text, NEW parsed, Settle(t, text, parsed) PROVE loose' \subseteq 0..cmds
<1>1. \E r, c : Conclude(t, r, c)
  BY DEF Settle
<1> QED BY <1>1, ConcludeLoose

LEMMA Frames ==
    ASSUME TextInv, ReadFrame
    PROVE  /\ elapsed' \in BOOLEAN /\ mine' \in [Tasks -> SUBSET (1..cmds)] /\ UNCHANGED <<cmds, out, good, answered>>
           /\ loose \subseteq 0..cmds /\ dataMode.c \in {dataMode.c, 0} /\ NoData.c = 0
BY DEF TextInv, Numbers, ReadFrame, NoData, NoCmd

LEMMA ParseText ==
    ASSUME TextInv, NEW t \in Tasks, NEW x, Ending(x), Parse(t, x), ReadFrame, UNCHANGED inbox, dataMode' \in {dataMode, NoData}
    PROVE  TextInv'
<1>1. \/ rawResponse' = rawResponse /\ rxBffr' = x /\ loose' = loose
      \/ rawResponse' = rawResponse \o x /\ rxBffr' = <<>> /\ Settle(t, rawResponse \o x, TRUE)
  BY DEF Parse
<1>2. loose' \subseteq 0..cmds
  BY <1>1, Frames, SettleLoose
<1>3. dataMode'.c \in {dataMode.c, 0}
  BY Frames
<1> QED BY <1>1, <1>2, <1>3, Frames, TextTaken DEF Ending

LEMMA HandlerText ==
    ASSUME TextInv, NEW t \in Tasks, NEW success, NEW c, NEW left, Ending(left), HandlerEnds(t, success, c, left)
    PROVE  TextInv'
<1>1. dataMode' = NoData /\ ReadFrame /\ UNCHANGED inbox
  BY DEF HandlerEnds
<1>2. CASE success /\ dataMode.skip
  <2>1. rxBffr' = left /\ rawResponse' = rawResponse /\ (loose' = loose \/ Conclude(t, "success", c))
    BY <1>2 DEF HandlerEnds
  <2>2. loose' \subseteq 0..cmds
    BY <1>1, <2>1, Frames, ConcludeLoose
  <2> QED BY <1>1, <2>1, <2>2, Frames, TextTaken DEF Ending
<1>3. CASE ~(success /\ dataMode.skip)
  <2>1. Parse(t, left)
    BY <1>3 DEF HandlerEnds
  <2> QED BY <1>1, <2>1, ParseText
<1> QED BY <1>2, <1>3

LEMMA ReadsText ==
    ASSUME TextInv, NEW t \in Tasks,
           \/ ReadNothing(t) \/ ReadResult(t) \/ DataSent(t) \/ DataTimeout(t) \/ FileStreamed(t) \/ PageStreamed(t)
    PROVE  TextInv'
<1>1. rxBffr \in Seq(Pieces(1..out.c))
  BY DEF TextInv, Received
<1>2. CASE ReadNothing(t)
  <2>1. /\ rxBffr = <<>> /\ Settle(t, rawResponse, FALSE) /\ ReadFrame
        /\ UNCHANGED <<rawResponse, dataMode, rxBffr, inbox>>
    BY <1>2 DEF ReadNothing
  <2>2. loose' \subseteq 0..cmds
    BY <2>1, SettleLoose
  <2>3. Ending(rxBffr)
    BY Endings
  <2> QED BY <2>1, <2>2, <2>3, Frames, TextTaken DEF Ending
<1>3. CASE ReadResult(t)
  <2>1. Parse(t, rxBffr) /\ ReadFrame /\ UNCHANGED <<dataMode, inbox>>
    BY <1>3 DEF ReadResult
  <2> QED BY <2>1, Endings, ParseText
<1>4. CASE DataSent(t)
  <2> DEFINE i == Min(Places(rxBffr, <<"OK">>))
  <2>1. Has(rxBffr, "OK") /\ HandlerEnds(t, TRUE, rxBffr[i].c, Rest(rxBffr, i + 2))
    BY <1>4 DEF DataSent, BehindOK
  <2>2. i \in Nat \ {0}
    BY <1>1, <2>1, HasPlace, FirstPlace
  <2> HIDE DEF i
  <2>3. i + 2 \in Nat \ {0}
    BY <2>2
  <2>4. Ending(Rest(rxBffr, i + 2))
    BY <2>3, Endings
  <2> QED BY <2>1, <2>4, HandlerText
<1>5. CASE DataTimeout(t)
  <2>1. HandlerEnds(t, FALSE, NoCmd, rxBffr)
    BY <1>5 DEF DataTimeout
  <2> QED BY <2>1, Endings, HandlerText
<1>6. CASE FileStreamed(t)
  <2>1. HandlerEnds(t, FALSE, NoCmd, <<>>)
    BY <1>6 DEF FileStreamed
  <2> QED BY <2>1, Endings, HandlerText
<1>7. CASE PageStreamed(t)
  <2> DEFINE i == Min(Places(rxBffr, <<"QHTTPREAD", "tok", "eol">>))
  <2>1. /\ Places(rxBffr, <<"QHTTPREAD", "tok", "eol">>) # {}
        /\ HandlerEnds(t, rxBffr[i + 1].v = 0, rxBffr[i].c, Rest(rxBffr, i + 3))
    BY <1>7 DEF PageStreamed
  <2>2. i \in Nat \ {0}
    BY <2>1, FirstPlace
  <2> HIDE DEF i
  <2>3. i + 3 \in Nat \ {0}
    BY <2>2
  <2>4. Ending(Rest(rxBffr, i + 3))
    BY <2>3, Endings
  <2> QED BY <2>1, <2>4, HandlerText
<1> QED BY <1>2, <1>3, <1>4, <1>5, <1>6, <1>7

LEMMA EnterText == ASSUME TextInv, NEW t \in Tasks, EnterDataMode(t) PROVE TextInv'
<1> DEFINE i == Min(Places(rxBffr, <<"CONNECT">>))
<1>1. /\ Has(rxBffr, "CONNECT") /\ rxBffr' = Rest(rxBffr, i) /\ ReadFrame
      /\ inbox' \in {inbox, Append(inbox, [k |-> "data", c |-> dataMode.c])}
      /\ UNCHANGED <<rawResponse, dataMode, loose>>
  BY DEF EnterDataMode, Triggered
<1>2. i \in Nat \ {0}
  BY <1>1, HasPlace, FirstPlace DEF TextInv, Received
<1> HIDE DEF i
<1>3. Ending(Rest(rxBffr, i))
  BY <1>2, Endings
<1>4. loose' \subseteq 0..cmds /\ dataMode'.c \in {dataMode.c, 0}
  BY <1>1, Frames
<1> QED BY <1>1, <1>3, <1>4, Frames, TextTaken DEF Ending

LEMMA StillText ==
    ASSUME TextInv, NEW t \in Tasks,
           \/ \E n : Call(t, n)
           \/ SkipKnown(t) \/ WaitForLock(t) \/ ReuseLockAssert(t) \/ Refused(t) \/ ReadAgain(t)
           \/ AwaitReturns(t) \/ EndCall(t) \/ StreamAssert(t)
    PROVE  TextInv'
<1>1. UNCHANGED <<cmds, dataMode, good, answered, loose, mine, inbox, out, rawResponse, rxBffr, elapsed>>
  <2>1. ASSUME NEW n, Call(t, n) PROVE UNCHANGED <<cmds, dataMode, good, answered, loose, mine, inbox, out, rawResponse, rxBffr, elapsed>>
    BY <2>1 DEF Call, cmdVars, modVars
  <2>2. CASE SkipKnown(t)
    BY <2>2 DEF SkipKnown, modVars
  <2>3. CASE WaitForLock(t)
    BY <2>3 DEF WaitForLock, cmdVars, modVars, histVars
  <2>4. CASE ReuseLockAssert(t)
    BY <2>4 DEF ReuseLockAssert, cmdVars, modVars, histVars
  <2>5. CASE Refused(t)
    BY <2>5 DEF Refused, modVars
  <2>6. CASE ReadAgain(t)
    BY <2>6 DEF ReadAgain, cmdVars, modVars, histVars
  <2>7. CASE AwaitReturns(t)
    BY <2>7 DEF AwaitReturns, modVars
  <2>8. CASE EndCall(t)
    BY <2>8 DEF EndCall, modVars
  <2>9. CASE StreamAssert(t)
    BY <2>9 DEF StreamAssert, cmdVars, modVars, histVars
  <2> QED BY <2>1, <2>2, <2>3, <2>4, <2>5, <2>6, <2>7, <2>8, <2>9
<1>2. elapsed' \in BOOLEAN
  BY <1>1 DEF TextInv, Numbers
<1> QED BY <1>1, <1>2, TextStill

LEMMA ReturnText == ASSUME TextInv, NEW t \in Tasks, Return(t) PROVE TextInv'
<1>1. /\ mine' = [mine EXCEPT ![t] = {}]
      /\ UNCHANGED <<cmds, dataMode, elapsed, good, answered, loose, inbox, out, rawResponse, rxBffr>>
  BY DEF Return, cmdVars, modVars
<1>2. mine' \in [Tasks -> SUBSET (1..cmds)]
  BY <1>1 DEF TextInv, Numbers
<1> QED BY <1>1, <1>2 DEF TextInv, Numbers, Queued, Answering, Received, Loaded

LEMMA StoodStill ==
    ASSUME TextInv, Elapse \/ UNCHANGED vars PROVE TextInv'
<1>1. elapsed' \in {TRUE, elapsed} /\ UNCHANGED <<cmds, dataMode, good, answered, loose, mine, inbox, out, rawResponse, rxBffr>>
  <2>1. CASE Elapse
    BY <2>1 DEF Elapse, modVars, histVars
  <2>2. CASE UNCHANGED vars
    BY <2>2 DEF vars, cmdVars, modVars, histVars
  <2> QED BY <2>1, <2>2
<1>2. elapsed' \in BOOLEAN
  BY <1>1 DEF TextInv, Numbers
<1> QED BY <1>1, <1>2, TextStill

(* A command that is sent is one of the script. *)
LEMMA Sends ==
    ASSUME LockInv, NEW t \in Tasks, TryInvoke(t) \/ TakeLock(t) \/ InvokeReuseLock(t)
    PROVE  SendCommand(t) /\ pc[t] \in {"next", "lock"} /\ step[t] <= Len(Script(t).cmds)
<1>1. SendCommand(t) /\ (At(t, "next") \/ At(t, "lock"))
  BY DEF TryInvoke, TakeLock, InvokeReuseLock
<1>2. pc[t] \in {"next", "lock"}
  BY <1>1, RunsAlone
<1> QED BY <1>1, <1>2 DEF LockInv, StepsOf

LEMMA TextInit == Init => TextInv
<1> SUFFICES ASSUME Init PROVE TextInv
  OBVIOUS
<1>1. cmds = 0 /\ dataMode.c = 0 /\ elapsed = TRUE /\ good = {} /\ answered = {} /\ loose = {} /\ mine = [t \in Tasks |-> {}]
  BY DEF Init, NoData, NoCmd
<1>2. inbox = <<>> /\ out = [c |-> 0, chunks |-> <<>>] /\ rawResponse = <<>> /\ rxBffr = <<>>
  BY DEF Init, NoCmd
<1>3. Numbers
  BY <1>1 DEF Numbers
<1>4. Queued
  BY <1>1, <1>2 DEF Queued
<1>5. Answering
  <2>1. <<>> \in Seq(Chunks) /\ Len(<<>>) = 0
    OBVIOUS
  <2>2. out.c = 0 /\ out.chunks = <<>> /\ 0 \in 0..cmds
    BY <1>1, <1>2
  <2> QED BY <1>1, <1>2, <2>1, <2>2 DEF Answering, Answer
<1>6. Received
  BY <1>2 DEF Received
<1> QED BY <1>3, <1>4, <1>5, <1>6 DEF TextInv

LEMMA TextStep == LockInv /\ TextInv /\ [Next]_vars => TextInv'
<1> SUFFICES ASSUME LockInv, TextInv, [Next]_vars PROVE TextInv'
  OBVIOUS
<1>1. ASSUME NEW t \in Tasks, Caller(t) PROVE TextInv'
  <2>1. CASE TryInvoke(t) \/ TakeLock(t) \/ InvokeReuseLock(t)
    <3>1. SendCommand(t) /\ Command(t).k \in Asked
      BY <2>1, Sends, CommandMade
    <3> QED BY <3>1, SendText
  <2>2. CASE ReadNothing(t) \/ ReadResult(t) \/ DataSent(t) \/ DataTimeout(t) \/ FileStreamed(t) \/ PageStreamed(t)
    BY <2>2, ReadsText
  <2>3. CASE AwaitAgain(t)
    BY <2>3, AwaitAgainText
  <2>4. CASE EnterDataMode(t)
    BY <2>4, EnterText
  <2>5. CASE Return(t)
    BY <2>5, ReturnText
  <2>6. CASE \/ \E n : Call(t, n)
             \/ SkipKnown(t) \/ WaitForLock(t) \/ ReuseLockAssert(t) \/ Refused(t) \/ ReadAgain(t)
             \/ AwaitReturns(t) \/ EndCall(t) \/ StreamAssert(t)
    BY <2>6, StillText
  <2> QED BY <1>1, <2>1, <2>2, <2>3, <2>4, <2>5, <2>6 DEF Caller
<1> QED BY <1>1, ServeText, EmitText, TakeDataText, StoodStill DEF Next

LEMMA TextAlways == Spec => []TextInv
BY TextInit, TextStep, LockAlways, PTL DEF Spec

-----------------------------------------------------------------------------
(* How far a call is in its script, and what it has to report. *)
Working(t) == pc[t] \in {"next", "lock", "read", "data", "stream", "yield"}
WhereOf(t) ==
    /\ step[t] <= 1 + Len(Script(t).cmds)
    /\ Working(t) => step[t] <= Len(Script(t).cmds)
    /\ pc[t] \in {"idle", "next", "lock", "end", "return"} => rslt[t] \in Codes
WhereInv == last \in Codes /\ \A t \in Tasks : WhereOf(t)

LEMMA WhereKeeps ==
    ASSUME WhereInv, NEW t \in Tasks, WhereOf(t)', last' \in Codes,
           \A u \in Tasks \ {t} : pc'[u] = pc[u] /\ step'[u] = step[u] /\ rslt'[u] = rslt[u] /\ Script(u)' = Script(u)
    PROVE  WhereInv'
BY DEF WhereInv, WhereOf, Working

(* A step that leaves call, control and progress alone. *)
LEMMA WhereGoes ==
    ASSUME LockInv, WhereInv, NEW t \in Tasks, NEW l, Goto(t, l), UNCHANGED <<call, http, step, rslt>>, last' \in Codes,
           \/ l \in {"next", "lock", "end", "return"} /\ pc[t] \in {"idle", "next", "lock", "end", "return"} /\ (Working(t) \/ l \in {"end", "return"})
           \/ l \in {"read", "data", "stream", "yield"} /\ Working(t)
    PROVE  WhereInv'
<1>1. pc'[t] = l /\ \A u \in Tasks \ {t} : pc'[u] = pc[u]
  BY DEF Goto, LockInv, Types
<1>2. \A u \in Tasks : Script(u)' = Script(u)
  BY SameScripts
<1>3. WhereOf(t)'
  BY <1>1, <1>2 DEF WhereInv, WhereOf, Working
<1> QED BY <1>1, <1>2, <1>3, WhereKeeps

LEMMA WhereStill ==
    ASSUME WhereInv, UNCHANGED <<call, http, pc, step, rslt, last>> PROVE WhereInv'
<1>1. \A u \in Tasks : Script(u)' = Script(u)
  BY SameScripts
<1> QED BY <1>1 DEF WhereInv, WhereOf, Working

LEMMA CallWhere == ASSUME LockInv, LockInv', WhereInv, NEW t \in Tasks, NEW n \in Names, Call(t, n) PROVE WhereInv'
<1>1. /\ pc[t] = "idle" /\ call' = [call EXCEPT ![t] = n] /\ Goto(t, "next")
      /\ UNCHANGED <<step, rslt, last>>
  BY RunsAlone DEF Call
<1>2. (\E u \in Tasks : call[u] \in Requests) => http' = http
  BY DEF Call
<1>3. pc'[t] = "next"
  BY <1>1 DEF LockInv, Types, Goto
<1>4. \A u \in Tasks \ {t} : pc'[u] = pc[u] /\ call'[u] = call[u]
  BY <1>1 DEF LockInv, Types, Goto
<1>5. \A u \in Tasks \ {t} : Script(u)' = Script(u)
  BY <1>2, <1>4 DEF Script, Requests
<1>6. StepsOf(t)' /\ Types'
  BY DEF LockInv
<1>7. Len(Script(t)'.cmds) \in Nat /\ step'[t] \in Nat /\ step'[t] <= Len(Script(t)'.cmds)
  <2>1. Fit(call'[t], Script(t)')
    <3>1. call'[t] \in Names
      BY <1>6 DEF Types
    <3>2. Script(t)' = ScriptOf(call'[t], http')
      BY DEF Script, ScriptOf
    <3> QED BY <3>1, <3>2, ScriptFit
  <2> QED BY <1>3, <1>6, <2>1 DEF Fit, StepsOf, Types
<1>8. WhereOf(t)'
  BY <1>1, <1>3, <1>7 DEF WhereOf, WhereInv, Working
<1> QED BY <1>1, <1>4, <1>5, <1>8, WhereKeeps DEF WhereInv

(* The next command of the script, or its end. *)
LEMMA AdvanceWhere ==
    ASSUME LockInv, WhereInv, NEW t \in Tasks, Working(t), Advance(t), UNCHANGED <<call, http>>,
           rslt'[t] \in Codes, \A u \in Tasks \ {t} : rslt'[u] = rslt[u], last' \in Codes
    PROVE  WhereInv'
<1>1. PICK l \in {"next", "end"} :
              /\ Goto(t, l) /\ pc'[t] = l
              /\ step' \in [Tasks -> Nat \ {0}] /\ \A u \in Tasks \ {t} : step'[u] = step[u]
              /\ step'[t] = step[t] + 1
              /\ l = "next" <=> step[t] < Len(Script(t).cmds)
  BY Advances
<1>2. \A u \in Tasks \ {t} : pc'[u] = pc[u]
  BY <1>1 DEF Goto, LockInv, Types
<1>3. \A u \in Tasks : Script(u)' = Script(u)
  BY SameScripts
<1>4. step[t] \in Nat /\ Len(Script(t).cmds) \in Nat
  BY ScriptOfTask DEF LockInv, Types, Fit
<1>5. step[t] <= Len(Script(t).cmds)
  BY DEF WhereInv, WhereOf
<1>6. WhereOf(t)'
  <2>1. step'[t] <= 1 + Len(Script(t).cmds)
    BY <1>1, <1>4, <1>5
  <2>2. l = "next" => step'[t] <= Len(Script(t).cmds)
    BY <1>1, <1>4
  <2> QED BY <1>1, <1>3, <2>1, <2>2 DEF WhereOf, Working
<1> QED BY <1>1, <1>2, <1>3, <1>6, WhereKeeps

LEMMA SendWhere ==
    ASSUME LockInv, WhereInv, NEW t \in Tasks, SendCommand(t), pc[t] \in {"next", "lock"} PROVE WhereInv'
<1>1. Goto(t, "read") /\ UNCHANGED <<call, http, step, rslt, last>>
  BY DEF SendCommand, StartToRead
<1> QED BY <1>1, WhereGoes DEF WhereInv, Working

LEMMA ConcludeWhere ==
    ASSUME LockInv, WhereInv, NEW t \in Tasks, Working(t), NEW r, NEW c, Conclude(t, r, c), UNCHANGED <<call, http, step, last>>
    PROVE  WhereInv'
<1>1. Goto(t, "yield") /\ rslt' = [rslt EXCEPT ![t] = r]
  BY DEF Conclude
<1>2. pc'[t] = "yield" /\ \A u \in Tasks \ {t} : pc'[u] = pc[u] /\ rslt'[u] = rslt[u]
  BY <1>1 DEF Goto, LockInv, Types
<1>3. \A u \in Tasks : Script(u)' = Script(u)
  BY SameScripts
<1>4. WhereOf(t)'
  BY <1>2, <1>3 DEF WhereInv, WhereOf, Working
<1> QED BY <1>2, <1>3, <1>4, WhereKeeps DEF WhereInv

LEMMA ParseWhere ==
    ASSUME LockInv, WhereInv, NEW t \in Tasks, Working(t), NEW x, Parse(t, x), ReadFrame PROVE WhereInv'
<1>1. UNCHANGED <<call, http, step, last>>
  BY DEF ReadFrame
<1>2. UNCHANGED <<rslt, pc>> \/ \E r, c : Conclude(t, r, c)
  BY DEF Parse, Settle
<1> QED BY <1>1, <1>2, WhereStill, ConcludeWhere

LEMMA HandlerWhere ==
    ASSUME LockInv, WhereInv, NEW t \in Tasks, Working(t), NEW success, NEW c, NEW left, HandlerEnds(t, success, c, left)
    PROVE  WhereInv'
<1>1. ReadFrame /\ UNCHANGED <<call, http, step, last>>
  BY DEF HandlerEnds, ReadFrame
<1>2. Parse(t, left) \/ UNCHANGED <<rslt, pc>> \/ Conclude(t, "success", c)
  BY DEF HandlerEnds
<1> QED BY <1>1, <1>2, WhereStill, ConcludeWhere, ParseWhere

LEMMA ReadsWhere ==
    ASSUME LockInv, WhereInv, NEW t \in Tasks,
           \/ ReadNothing(t) \/ ReadResult(t) \/ DataSent(t) \/ DataTimeout(t) \/ FileStreamed(t) \/ PageStreamed(t)
    PROVE  WhereInv'
<1>1. Working(t)
  BY RunsAlone DEF Working, ReadNothing, ReadResult, DataSent, DataTimeout, FileStreamed, PageStreamed
<1>2. CASE ReadNothing(t)
  <2>1. \E r, c : Conclude(t, r, c)
    BY <1>2 DEF ReadNothing, Settle
  <2>2. UNCHANGED <<call, http, step, last>>
    BY <1>2 DEF ReadNothing, ReadFrame
  <2> QED BY <1>1, <2>1, <2>2, ConcludeWhere
<1>3. CASE ReadResult(t)
  <2>1. Parse(t, rxBffr) /\ ReadFrame
    BY <1>3 DEF ReadResult
  <2> QED BY <1>1, <2>1, ParseWhere
<1>4. CASE DataSent(t) \/ DataTimeout(t) \/ FileStreamed(t) \/ PageStreamed(t)
  <2>1. \E x, y, z : HandlerEnds(t, x, y, z)
    BY <1>4 DEF DataSent, DataTimeout, FileStreamed, PageStreamed
  <2> QED BY <1>1, <2>1, HandlerWhere
<1> QED BY <1>2, <1>3, <1>4

LEMMA RefusedWhere == ASSUME LockInv, WhereInv, NEW t \in Tasks, Refused(t) PROVE WhereInv'
<1>1. pc[t] \in {"next", "lock"} /\ UNCHANGED <<http, call>>
  BY RunsAlone DEF Refused
<1>2. Working(t) /\ rslt[t] \in Codes
  BY <1>1 DEF Working, WhereInv, WhereOf
<1>3. \/ Goto(t, "read") /\ UNCHANGED <<step, rslt, last>>
      \/ rslt' = [rslt EXCEPT ![t] = "success"] /\ Advance(t) /\ last' = last
      \/ /\ Script(t).refused \notin {"wait", "skip"}
         /\ Goto(t, "return") /\ last' = Script(t).refused /\ UNCHANGED <<step, rslt>>
  BY DEF Refused, Finish, StartToRead
<1>4. CASE Goto(t, "read") /\ UNCHANGED <<step, rslt, last>>
  BY <1>1, <1>2, <1>4, WhereGoes DEF WhereInv
<1>5. CASE rslt' = [rslt EXCEPT ![t] = "success"] /\ Advance(t) /\ last' = last
  <2>1. rslt'[t] = "success" /\ "success" \in Codes /\ \A u \in Tasks \ {t} : rslt'[u] = rslt[u]
    BY <1>5 DEF Codes, LockInv, Types
  <2> QED BY <1>1, <1>2, <1>5, <2>1, AdvanceWhere DEF WhereInv
<1>6. CASE /\ Script(t).refused \notin {"wait", "skip"}
           /\ Goto(t, "return") /\ last' = Script(t).refused /\ UNCHANGED <<step, rslt>>
  <2>1. Script(t).refused \in Codes
    BY <1>6, ScriptIs, ScriptMade DEF Made, LockInv, Types
  <2> QED BY <1>1, <1>2, <1>6, <2>1, WhereGoes DEF Working
<1> QED BY <1>3, <1>4, <1>5, <1>6

LEMMA AwaitReturnsWhere == ASSUME LockInv, WhereInv, NEW t \in Tasks, AwaitReturns(t) PROVE WhereInv'
<1>1. pc[t] = "yield" /\ rslt' = [rslt EXCEPT ![t] = resultCode] /\ UNCHANGED <<http, call, last>>
  BY RunsAlone DEF AwaitReturns
<1>2. rslt'[t] \in Codes /\ \A u \in Tasks \ {t} : rslt'[u] = rslt[u]
  BY <1>1 DEF LockInv, Types
<1>3. Working(t) /\ last' \in Codes
  BY <1>1 DEF Working, WhereInv
<1>4. CASE Advance(t)
  BY <1>1, <1>2, <1>3, <1>4, AdvanceWhere
<1>5. CASE Goto(t, "end") /\ UNCHANGED step
  <2>1. pc'[t] = "end" /\ \A u \in Tasks \ {t} : pc'[u] = pc[u]
    BY <1>5 DEF Goto, LockInv, Types
  <2>2. \A u \in Tasks : Script(u)' = Script(u)
    BY <1>1, SameScripts
  <2>3. WhereOf(t)'
    BY <1>2, <1>5, <2>1, <2>2 DEF WhereInv, WhereOf, Working
  <2> QED BY <1>2, <1>3, <1>5, <2>1, <2>2, <2>3, WhereKeeps
<1> QED BY <1>4, <1>5 DEF AwaitReturns

LEMMA ReportedTyped == ASSUME LockInv, NEW t \in Tasks, rslt[t] \in Codes PROVE Reported(t) \in Codes
<1>1. {"success", "status", "internalError"} \subseteq Codes
  BY DEF Codes
<1>2. Script(t).won \in Codes /\ (Script(t).lost \in Codes \/ Script(t).lost = "same")
  BY ScriptIs, ScriptMade DEF Made, LockInv, Types
<1>3. StatusOf(t) \in Codes
  BY <1>1 DEF StatusOf, ErrorReported
<1> QED BY <1>2, <1>3 DEF Reported

LEMMA EndCallWhere == ASSUME LockInv, WhereInv, NEW t \in Tasks, EndCall(t) PROVE WhereInv'
<1>1. pc[t] = "end" /\ Goto(t, "return") /\ last' = Reported(t) /\ UNCHANGED <<call, step, rslt>>
  BY RunsAlone DEF EndCall, Finish
<1>2. last' \in Codes
  BY <1>1, ReportedTyped DEF WhereInv, WhereOf
<1>3. pc'[t] = "return" /\ \A u \in Tasks \ {t} : pc'[u] = pc[u]
  BY <1>1 DEF Goto, LockInv, Types
<1>4. \A u \in Tasks : Script(u)' = Script(u)
  <2>1. http' = [http EXCEPT !.requestState = "requestComplete"] \/ http' = http
    BY DEF EndCall
  <2>2. Setup(http') = Setup(http)
    BY <2>1 DEF LockInv, Types, Settings, Setup
  <2>3. \A u \in Tasks : Script(u) = ScriptOf(call[u], http) /\ Script(u)' = ScriptOf(call[u], http')
    BY <1>1 DEF Script, ScriptOf
  <2> QED BY <2>2, <2>3, ScriptSame
<1>5. WhereOf(t)'
  BY <1>1, <1>3, <1>4 DEF WhereInv, WhereOf, Working
<1> QED BY <1>1, <1>2, <1>3, <1>4, <1>5, WhereKeeps

LEMMA ReturnWhere == ASSUME LockInv, WhereInv, NEW t \in Tasks, Return(t) PROVE WhereInv'
<1>1. /\ Goto(t, "idle") /\ call' = [call EXCEPT ![t] = "file_close"] /\ step' = [step EXCEPT ![t] = 1]
      /\ rslt' = [rslt EXCEPT ![t] = "none"] /\ last' = "none" /\ UNCHANGED http
  BY DEF Return
<1>2. pc'[t] = "idle" /\ call'[t] = "file_close" /\ step'[t] = 1 /\ rslt'[t] = "none"
  BY <1>1 DEF Goto, LockInv, Types
<1>3. \A u \in Tasks \ {t} : pc'[u] = pc[u] /\ call'[u] = call[u] /\ step'[u] = step[u] /\ rslt'[u] = rslt[u]
  BY <1>1 DEF Goto, LockInv, Types
<1>4. \A u \in Tasks \ {t} : Script(u)' = Script(u)
  BY <1>1, <1>3 DEF Script
<1>5. "none" \in Codes
  BY DEF Codes
<1>6. Len(Script(t)'.cmds) \in Nat
  <2>1. "file_close" \in Names
    BY DEF Names, Fixed
  <2>2. Script(t)' = ScriptOf("file_close", http')
    BY <1>2 DEF Script, ScriptOf
  <2> QED BY <2>1, <2>2, ScriptFit DEF Fit
<1>7. WhereOf(t)'
  BY <1>2, <1>5, <1>6 DEF WhereOf, Working
<1> QED BY <1>1, <1>3, <1>4, <1>5, <1>7, WhereKeeps

LEMMA OtherWhere ==
    ASSUME LockInv, WhereInv, NEW t \in Tasks,
           SkipKnown(t) \/ WaitForLock(t) \/ ReuseLockAssert(t) \/ AwaitAgain(t) \/ EnterDataMode(t) \/ ReadAgain(t) \/ StreamAssert(t)
    PROVE  WhereInv'
<1> last \in Codes
  BY DEF WhereInv
<1>1. CASE SkipKnown(t)
  <2>1. Advance(t) /\ UNCHANGED <<call, http, rslt, last>> /\ pc[t] \in {"next", "lock"}
    BY <1>1, RunsAlone DEF SkipKnown
  <2>2. Working(t) /\ rslt[t] \in Codes
    BY <2>1 DEF Working, WhereInv, WhereOf
  <2> QED BY <2>1, <2>2, AdvanceWhere
<1>2. CASE WaitForLock(t)
  <2>1. pc[t] = "next" /\ Goto(t, "lock") /\ UNCHANGED <<call, http, step, rslt, last>>
    BY <1>2, RunsAlone DEF WaitForLock, histVars
  <2> QED BY <2>1, WhereGoes DEF Working
<1>3. CASE ReuseLockAssert(t) \/ StreamAssert(t)
  <2>1. UNCHANGED <<call, http, pc, step, rslt, last>>
    BY <1>3 DEF ReuseLockAssert, StreamAssert, callVars, histVars
  <2> QED BY <2>1, WhereStill
<1>4. CASE AwaitAgain(t)
  <2>1. pc[t] = "next" /\ Goto(t, "read") /\ UNCHANGED <<call, http, step, rslt, last>>
    BY <1>4, RunsAlone DEF AwaitAgain, StartToRead
  <2> QED BY <2>1, WhereGoes DEF Working
<1>5. CASE EnterDataMode(t)
  <2>1. pc[t] = "read" /\ (Goto(t, "data") \/ Goto(t, "stream")) /\ UNCHANGED <<call, http, step, rslt, last>>
    BY <1>5, RunsAlone DEF EnterDataMode, ReadFrame
  <2> QED BY <2>1, WhereGoes DEF Working
<1>6. CASE ReadAgain(t)
  <2>1. pc[t] = "yield" /\ Goto(t, "read") /\ UNCHANGED <<call, http, step, rslt, last>>
    BY <1>6, RunsAlone DEF ReadAgain, histVars
  <2> QED BY <2>1, WhereGoes DEF Working
<1> QED BY <1>1, <1>2, <1>3, <1>4, <1>5, <1>6

LEMMA WhereInit == Init => WhereInv
<1> SUFFICES ASSUME Init PROVE WhereInv
  OBVIOUS
<1>1. last = "none" /\ pc = [t \in Tasks |-> "idle"] /\ step = [t \in Tasks |-> 1] /\ rslt = [t \in Tasks |-> "none"]
  BY DEF Init
<1>2. LockInv
  BY LockInit
<1>3. \A t \in Tasks : Len(Script(t).cmds) \in Nat
  BY <1>2, ScriptOfTask DEF LockInv, Fit
<1>4. ASSUME NEW t \in Tasks PROVE WhereOf(t)
  BY <1>1, <1>3 DEF WhereOf, Working, Codes
<1> QED BY <1>1, <1>4 DEF WhereInv, Codes

LEMMA WhereStep == LockInv /\ WhereInv /\ [Next]_vars => WhereInv'
<1> SUFFICES ASSUME LockInv, WhereInv, [Next]_vars PROVE WhereInv'
  OBVIOUS
<1>0. LockInv'
  BY LockStep
<1>1. ASSUME NEW t \in Tasks, Caller(t) PROVE WhereInv'
  <2>1. CASE \E n \in CallsOf[t] : Call(t, n)
    BY <2>1, <1>0, CallWhere, ServicesAssumption
  <2>2. CASE TryInvoke(t) \/ TakeLock(t) \/ InvokeReuseLock(t)
    BY <2>2, Sends, SendWhere
  <2>3. CASE ReadNothing(t) \/ ReadResult(t) \/ DataSent(t) \/ DataTimeout(t) \/ FileStreamed(t) \/ PageStreamed(t)
    BY <2>3, ReadsWhere
  <2>4. CASE SkipKnown(t) \/ WaitForLock(t) \/ ReuseLockAssert(t) \/ AwaitAgain(t) \/ EnterDataMode(t) \/ ReadAgain(t) \/ StreamAssert(t)
    BY <2>4, OtherWhere
  <2>5. CASE Refused(t)
    BY <2>5, RefusedWhere
  <2>6. CASE AwaitReturns(t)
    BY <2>6, AwaitReturnsWhere
  <2>7. CASE EndCall(t)
    BY <2>7, EndCallWhere
  <2>8. CASE Return(t)
    BY <2>8, ReturnWhere
  <2> QED BY <1>1, <2>1, <2>2, <2>3, <2>4, <2>5, <2>6, <2>7, <2>8 DEF Caller
<1>2. CASE Serve \/ Emit \/ TakeData \/ Elapse \/ UNCHANGED vars
  <2>1. UNCHANGED <<call, http, pc, step, rslt, last>>
    BY <1>2 DEF Serve, Emit, TakeData, Elapse, ModFrame, vars, callVars, histVars
  <2> QED BY <2>1, WhereStill
<1> QED BY <1>1, <1>2 DEF Next

LEMMA WhereAlways == Spec => []WhereInv
BY WhereInit, WhereStep, LockAlways, PTL DEF Spec

(* Theorem 3.  Every variable has its type. *)
THEOREM ServicesTyped == Spec => []TypeOK
<1>1. LockInv /\ TextInv /\ WhereInv => TypeOK
  <2> SUFFICES ASSUME LockInv, TextInv, WhereInv PROVE TypeOK
    OBVIOUS
  <2>1. {isOpenLocked, autoLock, elapsed} \subseteq BOOLEAN /\ resultCode \in Codes /\ known \subseteq {"GSN", "QGMR", "ATI", "ICCID"}
    BY DEF LockInv, Types, TextInv, Numbers, Texts
  <2>2. dataMode.c \in 0..cmds /\ good \cup answered \cup loose \subseteq 0..cmds /\ cmds \in Nat
    BY DEF TextInv, Numbers
  <2>3. 1..out.c \subseteq 1..cmds
    BY <2>2 DEF TextInv, Answering
  <2>4. ASSUME NEW text \in Seq(Pieces(1..out.c)), NEW i \in DOMAIN text PROVE text[i].c \in 1..cmds
    <3>1. text[i] \in Pieces(1..out.c)
      BY <2>4
    <3> QED BY <2>3, <3>1 DEF Pieces
  <2>5. \A i \in DOMAIN rawResponse : rawResponse[i].c \in 1..cmds
    BY <2>4 DEF TextInv, Received
  <2>6. \A i \in DOMAIN rxBffr : rxBffr[i].c \in 1..cmds
    BY <2>4 DEF TextInv, Received
  <2>7. ASSUME NEW t \in Tasks
        PROVE  rslt[t] \in Codes \cup {"unknown"} /\ step[t] \in 1..(1 + Len(Script(t).cmds)) /\ mine[t] \subseteq 1..cmds
    <3>1. rslt[t] \in Codes \cup {"unknown"} /\ step[t] \in Nat \ {0} /\ Len(Script(t).cmds) \in Nat
      BY ScriptOfTask DEF LockInv, Types, Fit
    <3>2. step[t] <= 1 + Len(Script(t).cmds)
      BY DEF WhereInv, WhereOf
    <3>3. mine[t] \subseteq 1..cmds
      BY DEF TextInv, Numbers
    <3> QED BY <3>1, <3>2, <3>3
  <2>8. last \in Codes
    BY DEF WhereInv
  <2> QED BY <2>1, <2>2, <2>5, <2>6, <2>7, <2>8 DEF TypeOK
<1> QED BY <1>1, LockAlways, TextAlways, WhereAlways, PTL

-----------------------------------------------------------------------------
(* The assertions.  A parser without delimiters is that of a call that     *)
(* activates a context and still waits; the text of a response that had no *)
(* room is there.                                                          *)
Undelimited == parser.pre = "QIACT" => \E t \in Tasks : call[t] \in Activating /\ Awaits(t)
Asserted ==
    /\ asserted = "respBufferSz" => strlen(rawResponse) + strlen(rxBffr) >= respBufferSz
    /\ asserted = "pDelimeters" => \E t \in Tasks : call[t] \in Activating
AssertInv == Undelimited /\ Asserted

LEMMA ParserStays ==
    ASSUME Undelimited, parser' = parser, \A u \in Tasks : Awaits(u) => Awaits(u)' /\ call'[u] = call[u]
    PROVE  Undelimited'
BY DEF Undelimited

LEMMA ParserGiven ==
    ASSUME LockInv, NEW t \in Tasks, pc[t] \in {"next", "lock"}, parser' = Command(t).p, pc'[t] = "read", UNCHANGED call
    PROVE  Undelimited'
<1>1. Command(t) \in CommandsOf(call[t])
  BY CommandMade DEF LockInv, StepsOf
<1>2. call[t] \in Activating \/ parser'.pre # "QIACT"
  BY <1>1, CommandFacts DEF CommandsOf
<1> QED BY <1>2 DEF Undelimited, Awaits

LEMMA GoesTo == ASSUME LockInv, NEW t \in Tasks, NEW l, Goto(t, l) PROVE pc'[t] = l /\ \A u \in Tasks \ {t} : pc'[u] = pc[u]
BY DEF Goto, LockInv, Types

LEMMA ReadsDelimited ==
    ASSUME LockInv, Undelimited, NEW t \in Tasks,
           \/ ReadNothing(t) \/ ReadResult(t) \/ EnterDataMode(t) \/ DataSent(t) \/ DataTimeout(t)
           \/ FileStreamed(t) \/ PageStreamed(t)
    PROVE  Undelimited'
<1>1. ASSUME NEW x, Parse(t, x) PROVE pc' = pc \/ Goto(t, "yield")
  BY <1>1 DEF Parse, Settle, Conclude
<1>2. ASSUME NEW x, NEW y, NEW z, HandlerEnds(t, x, y, z) PROVE (pc' = pc \/ Goto(t, "yield")) /\ ReadFrame
  BY <1>1, <1>2 DEF HandlerEnds, Conclude
<1>3. ReadFrame /\ (pc' = pc \/ \E l \in {"data", "stream", "yield"} : Goto(t, l))
  <2>1. CASE ReadNothing(t)
    BY <2>1 DEF ReadNothing, Settle, Conclude
  <2>2. CASE ReadResult(t)
    BY <2>2, <1>1 DEF ReadResult
  <2>3. CASE EnterDataMode(t)
    BY <2>3 DEF EnterDataMode
  <2>4. CASE DataSent(t) \/ DataTimeout(t) \/ FileStreamed(t) \/ PageStreamed(t)
    <3>1. \E x, y, z : HandlerEnds(t, x, y, z)
      BY <2>4 DEF DataSent, DataTimeout, FileStreamed, PageStreamed
    <3> QED BY <3>1, <1>2
  <2> QED BY <2>1, <2>2, <2>3, <2>4
<1>4. UNCHANGED <<parser, call>>
  BY <1>3 DEF ReadFrame
<1>5. \A u \in Tasks : Awaits(u) => Awaits(u)'
  BY <1>3, GoesTo DEF Awaits
<1> QED BY <1>4, <1>5, ParserStays

LEMMA CallerDelimited == ASSUME LockInv, Undelimited, NEW t \in Tasks, Caller(t) PROVE Undelimited'
<1>1. CASE TryInvoke(t) \/ TakeLock(t) \/ InvokeReuseLock(t)
  <2>1. SendCommand(t) /\ pc[t] \in {"next", "lock"}
    BY <1>1, Sends
  <2>2. parser' = Command(t).p /\ Goto(t, "read") /\ UNCHANGED call
    BY <2>1 DEF SendCommand, StartToRead
  <2> QED BY <2>1, <2>2, GoesTo, ParserGiven
<1>2. CASE AwaitAgain(t)
  <2>1. pc[t] = "next" /\ parser' = Command(t).p /\ Goto(t, "read") /\ UNCHANGED call
    BY <1>2, RunsAlone DEF AwaitAgain, StartToRead
  <2> QED BY <2>1, GoesTo, ParserGiven
<1>3. CASE Refused(t)
  <2>1. pc[t] \in {"next", "lock"} /\ UNCHANGED call
    BY <1>3, RunsAlone DEF Refused
  <2>2. \/ parser' = Command(t).p /\ Goto(t, "read")
        \/ parser' = parser /\ \E l \in {"next", "end", "return"} : Goto(t, l)
    BY <1>3 DEF Refused, StartToRead, Advance, Finish
  <2>3. CASE parser' = Command(t).p /\ Goto(t, "read")
    BY <2>1, <2>3, GoesTo, ParserGiven
  <2>4. CASE parser' = parser /\ \E l \in {"next", "end", "return"} : Goto(t, l)
    <3>1. \A u \in Tasks : Awaits(u) => Awaits(u)'
      BY <2>1, <2>4, GoesTo DEF Awaits
    <3> QED BY <2>1, <2>4, <3>1, ParserStays
  <2> QED BY <2>2, <2>3, <2>4
<1>4. CASE AwaitReturns(t)
  <2>1. parser'.pre # "QIACT"
    BY <1>4 DEF AwaitReturns, ATCMD_okResponseParser, Std
  <2> QED BY <2>1 DEF Undelimited
<1>5. CASE \E n \in CallsOf[t] : Call(t, n)
  <2>1. pc[t] = "idle" /\ parser' = parser /\ Goto(t, "next") /\ \A u \in Tasks \ {t} : call'[u] = call[u]
    BY <1>5, RunsAlone DEF Call, cmdVars, LockInv, Types
  <2>2. \A u \in Tasks : Awaits(u) => Awaits(u)' /\ call'[u] = call[u]
    BY <2>1, GoesTo DEF Awaits
  <2> QED BY <2>1, <2>2, ParserStays
<1>6. CASE Return(t)
  <2>1. pc[t] = "return" /\ parser' = parser /\ Goto(t, "idle") /\ \A u \in Tasks \ {t} : call'[u] = call[u]
    BY <1>6, RunsAlone DEF Return, cmdVars, LockInv, Types
  <2>2. \A u \in Tasks : Awaits(u) => Awaits(u)' /\ call'[u] = call[u]
    BY <2>1, GoesTo DEF Awaits
  <2> QED BY <2>1, <2>2, ParserStays
<1>7. CASE SkipKnown(t) \/ WaitForLock(t) \/ EndCall(t)
  <2>1. pc[t] \in {"next", "lock", "end"} /\ UNCHANGED <<parser, call>> /\ \E l : Goto(t, l)
    BY <1>7, RunsAlone DEF SkipKnown, WaitForLock, EndCall, Advance, Finish, cmdVars
  <2>2. \A u \in Tasks : Awaits(u) => Awaits(u)'
    BY <2>1, GoesTo DEF Awaits
  <2> QED BY <2>1, <2>2, ParserStays
<1>8. CASE ReadAgain(t)
  <2>1. Goto(t, "read") /\ UNCHANGED <<parser, call>>
    BY <1>8 DEF ReadAgain, cmdVars
  <2>2. \A u \in Tasks : Awaits(u) => Awaits(u)'
    BY <2>1, GoesTo DEF Awaits
  <2> QED BY <2>1, <2>2, ParserStays
<1>9. CASE ReuseLockAssert(t) \/ StreamAssert(t)
  <2>1. UNCHANGED <<parser, call, pc>>
    BY <1>9 DEF ReuseLockAssert, StreamAssert, cmdVars, callVars
  <2>2. \A u \in Tasks : Awaits(u) => Awaits(u)'
    BY <2>1 DEF Awaits
  <2> QED BY <2>1, <2>2, ParserStays
<1>10. CASE \/ ReadNothing(t) \/ ReadResult(t) \/ EnterDataMode(t) \/ DataSent(t) \/ DataTimeout(t)
            \/ FileStreamed(t) \/ PageStreamed(t)
  BY <1>10, ReadsDelimited
<1> QED BY <1>1, <1>2, <1>3, <1>4, <1>5, <1>6, <1>7, <1>8, <1>9, <1>10 DEF Caller

-----------------------------------------------------------------------------
(* The step that fails an assertion shows what it says. *)
LEMMA ParseAsserts ==
    ASSUME TextInv, Undelimited, asserted = "none", NEW t \in Tasks, NEW x, Ending(x), Parse(t, x), UNCHANGED call
    PROVE  Asserted'
<1>1. CASE asserted' = asserted
  BY <1>1 DEF Asserted
<1>2. CASE ~Fits(x)
  <2>1. asserted' = "respBufferSz" /\ rawResponse' = rawResponse /\ rxBffr' = x
    BY <1>2 DEF Parse
  <2>2. strlen(rawResponse) \in Nat /\ strlen(x) \in Nat
    BY StrlenNat DEF TextInv, Received, Ending
  <2>3. strlen(rawResponse) + strlen(x) >= respBufferSz
    BY <1>2, <2>2 DEF Fits, respBufferSz
  <2> QED BY <2>1, <2>3 DEF Asserted, respBufferSz
<1>3. CASE Fits(x) /\ parser.pre = "QIACT"
  <2>1. asserted' = "pDelimeters" /\ \E u \in Tasks : call[u] \in Activating
    BY <1>3 DEF Parse, Undelimited
  <2> QED BY <2>1 DEF Asserted
<1> QED BY <1>1, <1>2, <1>3 DEF Parse

LEMMA HandlerAsserts ==
    ASSUME TextInv, Undelimited, asserted = "none", NEW t \in Tasks, NEW success, NEW c, NEW left, Ending(left), HandlerEnds(t, success, c, left)
    PROVE  Asserted'
<1>1. UNCHANGED call
  BY DEF HandlerEnds, ReadFrame
<1>2. CASE asserted' = asserted
  BY <1>2 DEF Asserted
<1>3. CASE success /\ dataMode.skip /\ ~Fits(left)
  <2>1. asserted' = "respBufferSz" /\ rawResponse' = rawResponse /\ rxBffr' = left
    BY <1>3 DEF HandlerEnds
  <2>2. strlen(rawResponse) \in Nat /\ strlen(left) \in Nat
    BY StrlenNat DEF TextInv, Received, Ending
  <2>3. strlen(rawResponse) + strlen(left) >= respBufferSz
    BY <1>3, <2>2 DEF Fits, respBufferSz
  <2> QED BY <2>1, <2>3 DEF Asserted, respBufferSz
<1>4. CASE Parse(t, left)
  BY <1>1, <1>4, ParseAsserts
<1> QED BY <1>2, <1>3, <1>4 DEF HandlerEnds

LEMMA CallerAsserts == ASSUME LockInv, TextInv, Undelimited, NEW t \in Tasks, Caller(t) PROVE Asserted'
<1>1. rxBffr \in Seq(Pieces(1..out.c))
  BY DEF TextInv, Received
<1>2. asserted = "none" /\ (asserted' \in {"none", "isOpenLocked", "streams"} => Asserted')
  <2>1. asserted = "none"
    BY OnlyReuseAsserts, RunsAlone DEF ReuseLockAssert
  <2> QED BY <2>1 DEF Asserted
<1>3. CASE ReadResult(t)
  <2>1. Parse(t, rxBffr) /\ UNCHANGED call
    BY <1>3 DEF ReadResult, ReadFrame
  <2> QED BY <1>2, <2>1, Endings, ParseAsserts
<1>4. CASE DataSent(t)
  <2> DEFINE i == Min(Places(rxBffr, <<"OK">>))
  <2>1. Has(rxBffr, "OK") /\ HandlerEnds(t, TRUE, rxBffr[i].c, Rest(rxBffr, i + 2))
    BY <1>4 DEF DataSent, BehindOK
  <2>2. i \in Nat \ {0}
    BY <1>1, <2>1, HasPlace, FirstPlace
  <2> HIDE DEF i
  <2>3. i + 2 \in Nat \ {0}
    BY <2>2
  <2>4. Ending(Rest(rxBffr, i + 2))
    BY <2>3, Endings
  <2> QED BY <1>2, <2>1, <2>4, HandlerAsserts
<1>5. CASE DataTimeout(t)
  <2>1. HandlerEnds(t, FALSE, NoCmd, rxBffr)
    BY <1>5 DEF DataTimeout
  <2> QED BY <1>2, <2>1, Endings, HandlerAsserts
<1>6. CASE FileStreamed(t)
  <2>1. HandlerEnds(t, FALSE, NoCmd, <<>>)
    BY <1>6 DEF FileStreamed
  <2> QED BY <1>2, <2>1, Endings, HandlerAsserts
<1>7. CASE PageStreamed(t)
  <2> DEFINE i == Min(Places(rxBffr, <<"QHTTPREAD", "tok", "eol">>))
  <2>1. /\ Places(rxBffr, <<"QHTTPREAD", "tok", "eol">>) # {}
        /\ HandlerEnds(t, rxBffr[i + 1].v = 0, rxBffr[i].c, Rest(rxBffr, i + 3))
    BY <1>7 DEF PageStreamed
  <2>2. i \in Nat \ {0}
    BY <2>1, FirstPlace
  <2> HIDE DEF i
  <2>3. i + 3 \in Nat \ {0}
    BY <2>2
  <2>4. Ending(Rest(rxBffr, i + 3))
    BY <2>3, Endings
  <2> QED BY <1>2, <2>1, <2>4, HandlerAsserts
<1>8. CASE ReuseLockAssert(t) \/ StreamAssert(t)
  BY <1>2, <1>8 DEF ReuseLockAssert, StreamAssert
<1>9. CASE \/ \E n \in CallsOf[t] : Call(t, n)
           \/ TryInvoke(t) \/ TakeLock(t) \/ InvokeReuseLock(t) \/ AwaitAgain(t) \/ Refused(t)
  <2>1. asserted' = asserted
    BY <1>9 DEF Call, TryInvoke, TakeLock, InvokeReuseLock, SendCommand, AwaitAgain, Refused
  <2> QED BY <1>2, <2>1
<1>10. CASE SkipKnown(t) \/ WaitForLock(t) \/ ReadNothing(t) \/ EnterDataMode(t) \/ ReadAgain(t) \/ AwaitReturns(t) \/ EndCall(t) \/ Return(t)
  <2>1. asserted' = asserted
    BY <1>10 DEF SkipKnown, WaitForLock, ReadNothing, EnterDataMode, ReadAgain, AwaitReturns, EndCall, Return
  <2> QED BY <1>2, <2>1
<1> QED BY <1>3, <1>4, <1>5, <1>6, <1>7, <1>8, <1>9, <1>10 DEF Caller

(* What comes from the module makes the text no shorter. *)
LEMMA ModuleAsserts == ASSUME TextInv, TextInv', AssertInv, Serve \/ Emit \/ TakeData \/ Elapse \/ UNCHANGED vars PROVE AssertInv'
<1>1. UNCHANGED <<asserted, call, pc, parser, rawResponse>>
  BY DEF Serve, Emit, TakeData, Elapse, ModFrame, vars, cmdVars, callVars
<1>2. strlen(rxBffr') >= strlen(rxBffr) /\ strlen(rxBffr) \in Nat /\ strlen(rxBffr') \in Nat
  <2>1. rxBffr \in Seq(Pieces(1..out.c)) /\ strlen(rxBffr) \in Nat
    BY StrlenNat DEF TextInv, Received
  <2>2. CASE Serve \/ TakeData \/ Elapse \/ UNCHANGED vars
    <3>1. rxBffr' = rxBffr
      BY <2>2 DEF Serve, TakeData, Elapse, vars
    <3> QED BY <2>1, <3>1
  <2>3. CASE Emit
    <3> DEFINE sent == Sent(Head(out.chunks), out.c)
    <3>1. out.chunks # <<>> /\ rxBffr' = rxBffr \o sent
      BY <2>3 DEF Emit, Sent
    <3>2. out.c \in 1..out.c /\ Head(out.chunks) \in Chunks
      <4>1. Answer(out.chunks) /\ out.c \in 0..cmds /\ out.c # 0 /\ cmds \in Nat
        BY <3>1 DEF TextInv, Answering, Numbers
      <4> QED BY <3>1, <4>1, LoadTail
    <3>3. sent \in Seq(Pieces(1..out.c))
      BY <3>2, SentTyped
    <3> HIDE DEF sent
    <3>4. strlen(rxBffr') = strlen(rxBffr) + strlen(sent) /\ strlen(sent) \in Nat
      BY <2>1, <3>1, <3>3, StrlenCat, StrlenNat
    <3> QED BY <2>1, <3>4
  <2> QED BY <2>2, <2>3
<1>3. strlen(rawResponse) \in Nat
  BY StrlenNat DEF TextInv, Received
<1>4. Asserted'
  BY <1>1, <1>2, <1>3 DEF AssertInv, Asserted, respBufferSz
<1>5. Undelimited'
  BY <1>1 DEF AssertInv, Undelimited, Awaits
<1> QED BY <1>4, <1>5 DEF AssertInv

LEMMA AssertInit == Init => AssertInv
<1>1. Init => parser.pre = "" /\ asserted = "none"
  <2>1. Init => parser = ATCMD_okResponseParser /\ asserted = "none"
    BY DEF Init
  <2>2. ATCMD_okResponseParser.pre = ""
    BY DEF ATCMD_okResponseParser, Std
  <2> QED BY <2>1, <2>2
<1> QED BY <1>1 DEF AssertInv, Undelimited, Asserted

LEMMA AssertStep == LockInv /\ TextInv /\ AssertInv /\ [Next]_vars => AssertInv'
<1> SUFFICES ASSUME LockInv, TextInv, AssertInv, [Next]_vars PROVE AssertInv'
  OBVIOUS
<1>1. ASSUME NEW t \in Tasks, Caller(t) PROVE AssertInv'
  BY <1>1, CallerDelimited, CallerAsserts DEF AssertInv
<1>2. TextInv'
  BY TextStep
<1> QED BY <1>1, <1>2, ModuleAsserts DEF Next

LEMMA AssertAlways == Spec => []AssertInv
BY AssertInit, AssertStep, LockAlways, TextAlways, PTL DEF Spec

(* Theorem 4.  A response overflows its buffer, an assertion of            *)
(* S__readResult(), only if it is a list or holds what answers more than   *)
(* one command: what answers one command weighs 85 characters at most,     *)
(* however its chunks arrive.  And a parser is without the delimiters it   *)
(* asserts to have only while a data context is being (de)activated.       *)
THEOREM AssertionsKnown == Spec => []AssertionsHold
<1>1. LockInv /\ TextInv /\ AssertInv => AssertionsHold
  <2> SUFFICES ASSUME TextInv, AssertInv PROVE AssertionsHold
    OBVIOUS
  <2> DEFINE text == rawResponse \o rxBffr
             S    == Pieces(1..out.c)
  <2>1. rawResponse \in Seq(S) /\ rxBffr \in Seq(S) /\ out.c \in Nat
    BY DEF TextInv, Received, Answering
  <2>2. text \in Seq(S) /\ strlen(text) = strlen(rawResponse) + strlen(rxBffr)
    <3> HIDE DEF S
    <3> QED BY <2>1, StrlenCat
  <2>3. \A c : Weight(c, text) = Weight(c, rawResponse) + Weight(c, rxBffr)
    <3> HIDE DEF S
    <3> QED BY <2>1, WeightCat
  <2>4. ASSUME asserted = "respBufferSz", ~Has(text, "item"), OfOneCommand(text) PROVE FALSE
    <3>1. strlen(text) >= 120
      BY <2>2, <2>4 DEF AssertInv, Asserted, respBufferSz
    <3> HIDE DEF text
    <3>2. text # <<>>
      BY <3>1, StrlenEmpty
    <3>3. 1 \in 1..Len(text) /\ Len(text) \in Nat /\ DOMAIN text = 1..Len(text) /\ text[1] \in S
      <4> HIDE DEF S
      <4> QED BY <2>2, <3>2
    <3>4. text[1].c \in 1..out.c
      BY <3>3 DEF Pieces
    <3>5. \A i \in 1..Len(text) : text[i].c = text[1].c /\ text[i].k # "item"
      BY <2>4, <3>3 DEF OfOneCommand, Has
    <3>6. Weight(text[1].c, text) = strlen(text)
      <4> HIDE DEF S
      <4> QED BY <2>2, <3>5, WeightWhole
    <3>7. Weight(text[1].c, rawResponse) + Weight(text[1].c, rxBffr) + Loaded(text[1].c) <= MaxLoad
      BY <3>4 DEF TextInv, Received
    <3>8. Loaded(text[1].c) \in Nat
      BY LoadNat DEF TextInv, Answering, Loaded
    <3>9. strlen(text) + Loaded(text[1].c) <= 85
      BY <2>3, <3>6, <3>7 DEF MaxLoad
    <3>10. strlen(text) \in Nat
      <4> HIDE DEF S
      <4> QED BY <2>2, StrlenNat
    <3> QED BY <3>1, <3>8, <3>9, <3>10
  <2>5. asserted = "respBufferSz" => Has(text, "item") \/ ~OfOneCommand(text)
    BY <2>4
  <2>6. asserted = "pDelimeters" => \E t \in Tasks : call[t] \in {"ntwk_activateNetwork", "ntwk_deactivateNetwork"}
    BY DEF AssertInv, Asserted, Activating
  <2> QED BY <2>5, <2>6 DEF AssertionsHold
<1> QED BY <1>1, LockAlways, TextAlways, AssertAlways, PTL
=============================================================================
