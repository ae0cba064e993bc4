------------------------ MODULE ServicesSuccessProofs ------------------------
(***************************************************************************)
(* What a success says, for every set of tasks and every calls of theirs:  *)
(* each command of the call was carried out, unless what ended its wait    *)
(* was left behind by an earlier one.                                      *)
(*                                                                         *)
(* The proof follows the text from the module to the parser.  OwnInv says  *)
(* whose command the last one is; OrderInv that text comes in the order of *)
(* the commands; TaleInv what may still come of the answer to the last     *)
(* command, and of no other; EarnInv what the calls have earned so far.    *)
(* Each of them is inductive relative to those before it and to those of   *)
(* ServicesProofs.                                                         *)
(***************************************************************************)
EXTENDS ServicesProofs, FiniteSetTheorems

-----------------------------------------------------------------------------
(* Whose command is the last: that of a call that is not disturbed.        *)
Alone(t) == mine[t] # {} /\ ~disturbed[t]
Latest   == \A t \in Tasks : Alone(t) => Current(t) = cmds
Beginning(t) == pc[t] \in {"idle", "lock"} \/ (pc[t] = "next" /\ step[t] = 1)
Unshared == \A t, u \in Tasks : t # u => mine[t] \cap mine[u] = {}
Gotten   == got = [c \in Cmds |-> got[c]] /\ cmds <= MaxCmds /\ \A c \in Cmds : c > cmds => got[c] = NoCmd
OwnInv   == Latest /\ Unshared /\ Gotten /\ \A t \in Tasks : Beginning(t) => mine[t] = {}

(* Text comes in the order of the commands it answers, and a line with a   *)
(* preamble whole.                                                         *)
Preambles == {"QADC", "QCFG", "QFWRITE", "QHTTPGET", "QHTTPPOST"}
Whole(x)  == \A i \in 1..Len(x) : x[i].k \in Preambles => \E j \in (i + 1)..Len(x) : x[j].k = "eol" /\ x[j].c = x[i].c
Sorted(x) == \A i \in 1..Len(x) : \A j \in i..Len(x) : x[i].c <= x[j].c
OrderInv ==
    /\ Sorted(rawResponse) /\ Sorted(rxBffr)
    /\ \A i \in 1..Len(rawResponse) : \A j \in 1..Len(rxBffr) : rawResponse[i].c <= rxBffr[j].c
    /\ Whole(rawResponse) /\ Whole(rxBffr)
    /\ \A m \in 1..Len(out.chunks) : Whole(out.chunks[m])

(* What is still to come of a command is loose, but for that of the        *)
(* command a call is waiting for.                                          *)
Present(d) == \/ \E i \in 1..Len(rxBffr) : rxBffr[i].c = d
              \/ out.chunks # <<>> /\ out.c = d
              \/ \E i \in 1..Len(inbox) : inbox[i].k # "data" /\ inbox[i].c = d
Answers(t) == Open(t) /\ Command(t).k # "again"
Clean      == \A d \in 1..cmds : Present(d) => d \in loose \/ \E s \in Tasks : Current(s) = d /\ Answers(s)

-----------------------------------------------------------------------------
(* The tale of a command that is asked with kind k: which commands have a  *)
(* data mode, with which handler; the words that end a response; those     *)
(* that promise that the command was carried out.                          *)
Fed      == {"QFWRITE", "QHTTPGET+", "QHTTPPOST", "QHTTPURL", "QFREAD", "QHTTPREAD"}
GetKinds == {"QHTTPGET", "QHTTPGET+"}
HandlerOf(k) == CASE k = "QFREAD"    -> "S__filesRxHndlr"
                  [] k = "QHTTPREAD" -> "S__httpRxHndlr"
                  [] OTHER           -> "stdTx"
Skips(k)   == k \in {"QHTTPURL", "QFREAD", "QHTTPREAD"}
Handler(k) == [h |-> HandlerOf(k), skip |-> Skips(k), c |-> cmds]
Final(k)   == {"ERROR"} \cup CASE k = "QHTTPREAD" -> {"QHTTPREAD"}
                               [] k \in GetKinds  -> {"QHTTPGET"}
                               [] k = "QHTTPPOST" -> {"QHTTPPOST"}
                               [] k = "QIOPEN"    -> {}
                               [] OTHER           -> {"OK"}
Pledges(k) == CASE k \in {"plain", "list", "QFREAD", "QHTTPURL"} -> {"OK"}
                [] k = "QFWRITE" -> {"OK", "QFWRITE"}
                [] k = "QGPSLOC" -> {"QGPSLOC"}
                [] k = "QCFG"    -> {"QCFG"}
                [] OTHER         -> {}

Tells(x, K) == \E j \in 1..Len(x) : x[j].k \in K

(* A status line gives the status of a request that was carried out (g).   *)
Status(x, j, g) == x[j].k = "QHTTPGET" =>
    /\ j + 1 <= Len(x) /\ x[j + 1].k = "tok"
    /\ x[j + 1].v = 0 => j + 3 <= Len(x) /\ x[j + 2].k = "dlm" /\ x[j + 3].k = "tok" /\ (x[j + 3].v = 200 => g)
LineOf(k, x, j, g) ==
    /\ k \in GetKinds => Status(x, j, g)
    /\ k = "QHTTPREAD" /\ x[j].k = "QHTTPREAD" => Len(x) = j + 2 /\ (x[j + 1].v = 0 => g)
    /\ k = "QHTTPURL" /\ x[j].k = "OK" => Len(x) = j + 1

(* The chunks R that are to come of an answer to k. *)
RestAt(k, R, g, m) ==
    /\ Tells(R[m], Final(k)) => m = Len(R)
    /\ Tells(R[m], Pledges(k)) => g /\ \A n \in m..Len(R) : R[n] # Data
    /\ R[m] = Data \/ Tells(R[m], {"CONNECT"}) => k \in Fed
    /\ \A j \in 1..Len(R[m]) : LineOf(k, R[m], j, g)
Rests(k, R, g) == \A m \in 1..Len(R) : RestAt(k, R, g, m)
Promised(R) == \A m \in 1..Len(R) : Tells(R[m], {"OK"}) => \E n \in 1..(m - 1) : Tells(R[n], {"CONNECT"})

-----------------------------------------------------------------------------
(* The tale as it goes on, for the latest command. *)
Carries(x, K) == \E j \in 1..Len(x) : x[j].c = cmds /\ x[j].k \in K
Seen(K)       == Carries(rawResponse, K) \/ Carries(rxBffr, K)
Asks(k) ==
    /\ \A i \in 1..Len(inbox) : inbox[i].k # "data" /\ inbox[i].c = cmds => inbox[i].k = k /\ i = Len(inbox)
    /\ k \in Fed => dataMode \in {Handler(k), NoData}
Gets(k) == out.c = cmds =>
    /\ \A i \in 1..Len(inbox) : inbox[i] = [k |-> "data", c |-> cmds]
    /\ Rests(k, out.chunks, cmds \in good)
    /\ Seen(Final(k)) => out.chunks = <<>>
    /\ Seen(Pledges(k)) => cmds \in good /\ \A m \in 1..Len(out.chunks) : out.chunks[m] # Data
    /\ Seen({"CONNECT"}) => k \in Fed
    /\ \A j \in 1..Len(rxBffr) : rxBffr[j].c = cmds => LineOf(k, rxBffr, j, cmds \in good)
    /\ k \in GetKinds => \A j \in 1..Len(rawResponse) : rawResponse[j].c = cmds => Status(rawResponse, j, cmds \in good)
Page ==
    /\ ~Carries(rawResponse, {"OK"})
    /\ dataMode = NoData => out.c = cmds /\ ~Carries(rxBffr, {"OK"}) /\ \A m \in 1..Len(out.chunks) : ~Tells(out.chunks[m], {"OK"})
    /\ dataMode # NoData => /\ Carries(rxBffr, {"OK"}) => Carries(rxBffr, {"CONNECT"})
                            /\ out.c = cmds => Promised(out.chunks) \/ Carries(rxBffr, {"CONNECT"})
Story(k) == Asks(k) /\ Gets(k) /\ (k = "QHTTPREAD" => Page)

Kind(t)    == IF Command(t).k = "again" THEN "QFWRITE" ELSE Command(t).k
Follows(t) == Awaits(t) \/ (pc[t] = "next" /\ Command(t).k = "again")
Fair       == got[cmds] \notin loose
Streams(t) == pc[t] \in {"data", "stream"} =>
    /\ Kind(t) \in Fed /\ dataMode = Handler(Kind(t)) /\ (pc[t] = "data" <=> dataMode.h = "stdTx")
    /\ rxBffr # <<>> /\ rxBffr[1].k = "CONNECT" /\ rxBffr[1].c = cmds
Clear      == \A i \in 1..Len(rawResponse) : rawResponse[i].c \in loose \cup {cmds}
Fresh(t) ==
    /\ Answers(t) => cmds \notin loose /\ got[cmds] # cmds
    /\ Open(t) \/ pc[t] = "next" \/ Command(t).k = "QFWRITE" => (got[cmds] = cmds => cmds \notin loose)
TaleOf(t) == Alone(t) /\ Follows(t) =>
    /\ Clear /\ Fresh(t)
    /\ Open(t) => parser = Command(t).p
    /\ Fair /\ asserted = "none" => Story(Kind(t)) /\ Streams(t)
Tales == \A t \in Tasks : TaleOf(t)
TaleInv == Clean /\ Tales

-----------------------------------------------------------------------------
(* What a success says.  Some calls never report one.                      *)
Done(c) == /\ c \in good /\ (out.c = c => \A i \in 1..Len(out.chunks) : out.chunks[i] # Data)
           /\ \A i \in 1..Len(inbox) : inbox[i].k # "data" => inbox[i].c # c
Earned(c) == IF got[c] = c THEN Done(c) ELSE got[c] \in loose
Careless  == {"sckt_open", "http_post", "file_closeAll"}
Mute      == {"mdminfo_ltem", "gpio_adcRead", "ntwkDIAG_getProviders"} \cup Activating
Wins      == {"success", "true"}
GetsStatus(t) == call[t] = "http_get" /\ (pc[t] = "end" \/ (pc[t] = "yield" /\ Command(t).k \in GetKinds))
Won(t)     == pc[t] \in {"yield", "next", "end"} /\ rslt[t] = "success" /\ ~GetsStatus(t)
Reports(t) == pc[t] = "return" /\ last \in Wins
EarnedOf(t) == ~disturbed[t] /\ call[t] \notin Careless \cup Mute =>
                   \A c \in mine[t] : c # Current(t) \/ Won(t) \/ Reports(t) => Earned(c)
StatusGood == retValue = 0 /\ S__parseResponseForHttpStatus(rawResponse) = 200
StatusEarned(t) == Alone(t) /\ GetsStatus(t) /\ rslt[t] = "success" /\ StatusGood => Earned(cmds)
Carried(t) == pc[t] = "next" /\ step[t] > 1 /\ ~Script(t).goesOn => rslt[t] = "success"
MuteOf(t)  == call[t] \in Mute => ~Reports(t)
EarnInv == resultCode # "true" /\ \A t \in Tasks : EarnedOf(t) /\ StatusEarned(t) /\ Carried(t) /\ MuteOf(t) /\ rslt[t] # "true"

-----------------------------------------------------------------------------
(* The parser of a command goes with what it asks, and so does its handler. *)
ParserOf(k) ==
    CASE k = "ICCID"       -> S__iccidCompleteParser
      [] k = "QGPSLOC"     -> gnssLocCompleteParser
      [] k = "QADC"        -> S__adcValueParser
      [] k = "QCFG"        -> S__ioValueParser
      [] k = "QIOPEN"      -> S__udptcpOpenCompleteParser
      [] k = "again"       -> S__writeStatusParser
      [] k \in GetKinds    -> S__httpGetStatusParser
      [] k = "QHTTPPOST"   -> S__httpPostStatusParser
      [] OTHER             -> ATCMD_okResponseParser
Matches(x, k) ==
    /\ x.k = k /\ x.p = ParserOf(k)
    /\ IF k \in Fed THEN x.h = HandlerOf(k) /\ x.skip = Skips(k) ELSE x.h = "none"

LEMMA CommandsMatch == \A x \in Commands : Matches(x, x.k)
<1>1. Matches(Ask("plain"), "plain")
  <2>1. Ask("plain").k = "plain" /\ Ask("plain").p = ATCMD_okResponseParser /\ Ask("plain").h = "none" /\ Ask("plain").skip = FALSE
    BY DEF S__setUrl, Feed, Stream, AskFor, Ask
  <2>2. ParserOf("plain") = ATCMD_okResponseParser
    BY DEF ParserOf, GetKinds
  <2>3. "plain" \notin Fed
    BY DEF Fed, HandlerOf, Skips
  <2> HIDE DEF S__setUrl
  <2> QED BY <2>1, <2>2, <2>3 DEF Matches
<1>2. Matches(S__setUrl, "QHTTPURL")
  <2>1. S__setUrl.k = "QHTTPURL" /\ S__setUrl.p = ATCMD_okResponseParser /\ S__setUrl.h = "stdTx" /\ S__setUrl.skip = TRUE
    BY DEF S__setUrl, Feed, Stream, AskFor, Ask
  <2>2. ParserOf("QHTTPURL") = ATCMD_okResponseParser
    BY DEF ParserOf, GetKinds
  <2>3. "QHTTPURL" \in Fed /\ HandlerOf("QHTTPURL") = "stdTx" /\ Skips("QHTTPURL") = TRUE
    BY DEF Fed, HandlerOf, Skips
  <2> HIDE DEF S__setUrl
  <2> QED BY <2>1, <2>2, <2>3 DEF Matches
<1>3. Matches(AskFor("QHTTPGET", S__httpGetStatusParser), "QHTTPGET")
  <2>1. AskFor("QHTTPGET", S__httpGetStatusParser).k = "QHTTPGET" /\ AskFor("QHTTPGET", S__httpGetStatusParser).p = S__httpGetStatusParser /\ AskFor("QHTTPGET", S__httpGetStatusParser).h = "none" /\ AskFor("QHTTPGET", S__httpGetStatusParser).skip = FALSE
    BY DEF S__setUrl, Feed, Stream, AskFor, Ask
  <2>2. ParserOf("QHTTPGET") = S__httpGetStatusParser
    BY DEF ParserOf, GetKinds
  <2>3. "QHTTPGET" \notin Fed
    BY DEF Fed, HandlerOf, Skips
  <2> HIDE DEF S__setUrl
  <2> QED BY <2>1, <2>2, <2>3 DEF Matches
<1>4. Matches(Feed("QHTTPGET+", S__httpGetStatusParser, FALSE), "QHTTPGET+")
  <2>1. Feed("QHTTPGET+", S__httpGetStatusParser, FALSE).k = "QHTTPGET+" /\ Feed("QHTTPGET+", S__httpGetStatusParser, FALSE).p = S__httpGetStatusParser /\ Feed("QHTTPGET+", S__httpGetStatusParser, FALSE).h = "stdTx" /\ Feed("QHTTPGET+", S__httpGetStatusParser, FALSE).skip = FALSE
    BY DEF S__setUrl, Feed, Stream, AskFor, Ask
  <2>2. ParserOf("QHTTPGET+") = S__httpGetStatusParser
    BY DEF ParserOf, GetKinds
  <2>3. "QHTTPGET+" \in Fed /\ HandlerOf("QHTTPGET+") = "stdTx" /\ Skips("QHTTPGET+") = FALSE
    BY DEF Fed, HandlerOf, Skips
  <2> HIDE DEF S__setUrl
  <2> QED BY <2>1, <2>2, <2>3 DEF Matches
<1>5. Matches(Feed("QHTTPPOST", S__httpPostStatusParser, FALSE), "QHTTPPOST")
  <2>1. Feed("QHTTPPOST", S__httpPostStatusParser, FALSE).k = "QHTTPPOST" /\ Feed("QHTTPPOST", S__httpPostStatusParser, FALSE).p = S__httpPostStatusParser /\ Feed("QHTTPPOST", S__httpPostStatusParser, FALSE).h = "stdTx" /\ Feed("QHTTPPOST", S__httpPostStatusParser, FALSE).skip = FALSE
    BY DEF S__setUrl, Feed, Stream, AskFor, Ask
  <2>2. ParserOf("QHTTPPOST") = S__httpPostStatusParser
    BY DEF ParserOf, GetKinds
  <2>3. "QHTTPPOST" \in Fed /\ HandlerOf("QHTTPPOST") = "stdTx" /\ Skips("QHTTPPOST") = FALSE
    BY DEF Fed, HandlerOf, Skips
  <2> HIDE DEF S__setUrl
  <2> QED BY <2>1, <2>2, <2>3 DEF Matches
<1>6. Matches(Ask("list"), "list")
  <2>1. Ask("list").k = "list" /\ Ask("list").p = ATCMD_okResponseParser /\ Ask("list").h = "none" /\ Ask("list").skip = FALSE
    BY DEF S__setUrl, Feed, Stream, AskFor, Ask
  <2>2. ParserOf("list") = ATCMD_okResponseParser
    BY DEF ParserOf, GetKinds
  <2>3. "list" \notin Fed
    BY DEF Fed, HandlerOf, Skips
  <2> HIDE DEF S__setUrl
  <2> QED BY <2>1, <2>2, <2>3 DEF Matches
<1>7. Matches(Ask("GSN"), "GSN")
  <2>1. Ask("GSN").k = "GSN" /\ Ask("GSN").p = ATCMD_okResponseParser /\ Ask("GSN").h = "none" /\ Ask("GSN").skip = FALSE
    BY DEF S__setUrl, Feed, Stream, AskFor, Ask
  <2>2. ParserOf("GSN") = ATCMD_okResponseParser
    BY DEF ParserOf, GetKinds
  <2>3. "GSN" \notin Fed
    BY DEF Fed, HandlerOf, Skips
  <2> HIDE DEF S__setUrl
  <2> QED BY <2>1, <2>2, <2>3 DEF Matches
<1>8. Matches(Ask("QGMR"), "QGMR")
  <2>1. Ask("QGMR").k = "QGMR" /\ Ask("QGMR").p = ATCMD_okResponseParser /\ Ask("QGMR").h = "none" /\ Ask("QGMR").skip = FALSE
    BY DEF S__setUrl, Feed, Stream, AskFor, Ask
  <2>2. ParserOf("QGMR") = ATCMD_okResponseParser
    BY DEF ParserOf, GetKinds
  <2>3. "QGMR" \notin Fed
    BY DEF Fed, HandlerOf, Skips
  <2> HIDE DEF S__setUrl
  <2> QED BY <2>1, <2>2, <2>3 DEF Matches
<1>9. Matches(Ask("ATI"), "ATI")
  <2>1. Ask("ATI").k = "ATI" /\ Ask("ATI").p = ATCMD_okResponseParser /\ Ask("ATI").h = "none" /\ Ask("ATI").skip = FALSE
    BY DEF S__setUrl, Feed, Stream, AskFor, Ask
  <2>2. ParserOf("ATI") = ATCMD_okResponseParser
    BY DEF ParserOf, GetKinds
  <2>3. "ATI" \notin Fed
    BY DEF Fed, HandlerOf, Skips
  <2> HIDE DEF S__setUrl
  <2> QED BY <2>1, <2>2, <2>3 DEF Matches
<1>10. Matches(Ask("COPS"), "COPS")
  <2>1. Ask("COPS").k = "COPS" /\ Ask("COPS").p = ATCMD_okResponseParser /\ Ask("COPS").h = "none" /\ Ask("COPS").skip = FALSE
    BY DEF S__setUrl, Feed, Stream, AskFor, Ask
  <2>2. ParserOf("COPS") = ATCMD_okResponseParser
    BY DEF ParserOf, GetKinds
  <2>3. "COPS" \notin Fed
    BY DEF Fed, HandlerOf, Skips
  <2> HIDE DEF S__setUrl
  <2> QED BY <2>1, <2>2, <2>3 DEF Matches
<1>11. Matches(AskFor("ICCID", S__iccidCompleteParser), "ICCID")
  <2>1. AskFor("ICCID", S__iccidCompleteParser).k = "ICCID" /\ AskFor("ICCID", S__iccidCompleteParser).p = S__iccidCompleteParser /\ AskFor("ICCID", S__iccidCompleteParser).h = "none" /\ AskFor("ICCID", S__iccidCompleteParser).skip = FALSE
    BY DEF S__setUrl, Feed, Stream, AskFor, Ask
  <2>2. ParserOf("ICCID") = S__iccidCompleteParser
    BY DEF ParserOf, GetKinds
  <2>3. "ICCID" \notin Fed
    BY DEF Fed, HandlerOf, Skips
  <2> HIDE DEF S__setUrl
  <2> QED BY <2>1, <2>2, <2>3 DEF Matches
<1>12. Matches(AskFor("QGPSLOC", gnssLocCompleteParser), "QGPSLOC")
  <2>1. AskFor("QGPSLOC", gnssLocCompleteParser).k = "QGPSLOC" /\ AskFor("QGPSLOC", gnssLocCompleteParser).p = gnssLocCompleteParser /\ AskFor("QGPSLOC", gnssLocCompleteParser).h = "none" /\ AskFor("QGPSLOC", gnssLocCompleteParser).skip = FALSE
    BY DEF S__setUrl, Feed, Stream, AskFor, Ask
  <2>2. ParserOf("QGPSLOC") = gnssLocCompleteParser
    BY DEF ParserOf, GetKinds
  <2>3. "QGPSLOC" \notin Fed
    BY DEF Fed, HandlerOf, Skips
  <2> HIDE DEF S__setUrl
  <2> QED BY <2>1, <2>2, <2>3 DEF Matches
<1>13. Matches(AskFor("QADC", S__adcValueParser), "QADC")
  <2>1. AskFor("QADC", S__adcValueParser).k = "QADC" /\ AskFor("QADC", S__adcValueParser).p = S__adcValueParser /\ AskFor("QADC", S__adcValueParser).h = "none" /\ AskFor("QADC", S__adcValueParser).skip = FALSE
    BY DEF S__setUrl, Feed, Stream, AskFor, Ask
  <2>2. ParserOf("QADC") = S__adcValueParser
    BY DEF ParserOf, GetKinds
  <2>3. "QADC" \notin Fed
    BY DEF Fed, HandlerOf, Skips
  <2> HIDE DEF S__setUrl
  <2> QED BY <2>1, <2>2, <2>3 DEF Matches
<1>14. Matches(AskFor("QCFG", S__ioValueParser), "QCFG")
  <2>1. AskFor("QCFG", S__ioValueParser).k = "QCFG" /\ AskFor("QCFG", S__ioValueParser).p = S__ioValueParser /\ AskFor("QCFG", S__ioValueParser).h = "none" /\ AskFor("QCFG", S__ioValueParser).skip = FALSE
    BY DEF S__setUrl, Feed, Stream, AskFor, Ask
  <2>2. ParserOf("QCFG") = S__ioValueParser
    BY DEF ParserOf, GetKinds
  <2>3. "QCFG" \notin Fed
    BY DEF Fed, HandlerOf, Skips
  <2> HIDE DEF S__setUrl
  <2> QED BY <2>1, <2>2, <2>3 DEF Matches
<1>15. Matches(AskFor("QIOPEN", S__udptcpOpenCompleteParser), "QIOPEN")
  <2>1. AskFor("QIOPEN", S__udptcpOpenCompleteParser).k = "QIOPEN" /\ AskFor("QIOPEN", S__udptcpOpenCompleteParser).p = S__udptcpOpenCompleteParser /\ AskFor("QIOPEN", S__udptcpOpenCompleteParser).h = "none" /\ AskFor("QIOPEN", S__udptcpOpenCompleteParser).skip = FALSE
    BY DEF S__setUrl, Feed, Stream, AskFor, Ask
  <2>2. ParserOf("QIOPEN") = S__udptcpOpenCompleteParser
    BY DEF ParserOf, GetKinds
  <2>3. "QIOPEN" \notin Fed
    BY DEF Fed, HandlerOf, Skips
  <2> HIDE DEF S__setUrl
  <2> QED BY <2>1, <2>2, <2>3 DEF Matches
<1>16. Matches(AskFor("again", S__writeStatusParser), "again")
  <2>1. AskFor("again", S__writeStatusParser).k = "again" /\ AskFor("again", S__writeStatusParser).p = S__writeStatusParser /\ AskFor("again", S__writeStatusParser).h = "none" /\ AskFor("again", S__writeStatusParser).skip = FALSE
    BY DEF S__setUrl, Feed, Stream, AskFor, Ask
  <2>2. ParserOf("again") = S__writeStatusParser
    BY DEF ParserOf, GetKinds
  <2>3. "again" \notin Fed
    BY DEF Fed, HandlerOf, Skips
  <2> HIDE DEF S__setUrl
  <2> QED BY <2>1, <2>2, <2>3 DEF Matches
<1>17. Matches(Feed("QFWRITE", ATCMD_okResponseParser, FALSE), "QFWRITE")
  <2>1. Feed("QFWRITE", ATCMD_okResponseParser, FALSE).k = "QFWRITE" /\ Feed("QFWRITE", ATCMD_okResponseParser, FALSE).p = ATCMD_okResponseParser /\ Feed("QFWRITE", ATCMD_okResponseParser, FALSE).h = "stdTx" /\ Feed("QFWRITE", ATCMD_okResponseParser, FALSE).skip = FALSE
    BY DEF S__setUrl, Feed, Stream, AskFor, Ask
  <2>2. ParserOf("QFWRITE") = ATCMD_okResponseParser
    BY DEF ParserOf, GetKinds
  <2>3. "QFWRITE" \in Fed /\ HandlerOf("QFWRITE") = "stdTx" /\ Skips("QFWRITE") = FALSE
    BY DEF Fed, HandlerOf, Skips
  <2> HIDE DEF S__setUrl
  <2> QED BY <2>1, <2>2, <2>3 DEF Matches
<1>18. Matches(Stream("QFREAD", "S__filesRxHndlr"), "QFREAD")
  <2>1. Stream("QFREAD", "S__filesRxHndlr").k = "QFREAD" /\ Stream("QFREAD", "S__filesRxHndlr").p = ATCMD_okResponseParser /\ Stream("QFREAD", "S__filesRxHndlr").h = "S__filesRxHndlr" /\ Stream("QFREAD", "S__filesRxHndlr").skip = TRUE
    BY DEF S__setUrl, Feed, Stream, AskFor, Ask
  <2>2. ParserOf("QFREAD") = ATCMD_okResponseParser
    BY DEF ParserOf, GetKinds
  <2>3. "QFREAD" \in Fed /\ HandlerOf("QFREAD") = "S__filesRxHndlr" /\ Skips("QFREAD") = TRUE
    BY DEF Fed, HandlerOf, Skips
  <2> HIDE DEF S__setUrl
  <2> QED BY <2>1, <2>2, <2>3 DEF Matches
<1>19. Matches(Stream("QHTTPREAD", "S__httpRxHndlr"), "QHTTPREAD")
  <2>1. Stream("QHTTPREAD", "S__httpRxHndlr").k = "QHTTPREAD" /\ Stream("QHTTPREAD", "S__httpRxHndlr").p = ATCMD_okResponseParser /\ Stream("QHTTPREAD", "S__httpRxHndlr").h = "S__httpRxHndlr" /\ Stream("QHTTPREAD", "S__httpRxHndlr").skip = TRUE
    BY DEF S__setUrl, Feed, Stream, AskFor, Ask
  <2>2. ParserOf("QHTTPREAD") = ATCMD_okResponseParser
    BY DEF ParserOf, GetKinds
  <2>3. "QHTTPREAD" \in Fed /\ HandlerOf("QHTTPREAD") = "S__httpRxHndlr" /\ Skips("QHTTPREAD") = TRUE
    BY DEF Fed, HandlerOf, Skips
  <2> HIDE DEF S__setUrl
  <2> QED BY <2>1, <2>2, <2>3 DEF Matches
<1>20. \A x \in Plain : \E k : Matches(x, k)
  BY <1>1, <1>2, <1>3, <1>4, <1>5 DEF Plain
<1>21. \A x \in Commands : \E k : Matches(x, k)
  BY <1>20, <1>6, <1>7, <1>8, <1>9, <1>10, <1>11, <1>12, <1>13, <1>14, <1>15, <1>16, <1>17, <1>18, <1>19 DEF Commands
<1> QED BY <1>21 DEF Matches

LEMMA ActivateIs == ActivateCommand.k = "plain" /\ ActivateCommand.h = "none" /\ ActivateCommand.p = S__contextStatusCompleteParser
BY DEF ActivateCommand, AskFor, Ask

(* The kinds that calls whose success means something ask. *)
Earning == {"plain", "list", "QFREAD", "QHTTPURL", "QFWRITE", "again", "QGPSLOC", "QCFG", "QHTTPREAD", "QHTTPGET", "QHTTPGET+"}

(* What a script asks and reports. *)
Honest(n, s) ==
    /\ s.goesOn => n \in {"file_write", "mdminfo_ltem"} /\ s.manual
    /\ s.refused \notin Wins
    /\ n \notin Careless \cup Requests => s.lost \notin Wins
    /\ n \in Mute => s.won \notin Wins
    /\ s.refused = "wait" => Len(s.cmds) = 1
    /\ \A i \in 1..Len(s.cmds) :
        /\ n \notin Careless \cup Mute => s.cmds[i].k \in Earning
        /\ s.cmds[i].k \in GetKinds <=> n = "http_get" /\ i = Len(s.cmds)
        /\ s.cmds[i].k = "QFWRITE" <=> n = "file_write" /\ i = 1
        /\ s.cmds[i].k = "again" <=> n = "file_write" /\ i = 2
    /\ n = "file_write" => s.goesOn /\ Len(s.cmds) = 2

LEMMA HonestScripts ==
    /\ Honest("file_getFSInfo", file_getFSInfo) /\ Honest("file_getFilelist", file_getFilelist) /\ Honest("file_open", file_open)
    /\ Honest("file_getOpenFiles", file_getOpenFiles) /\ Honest("file_close", file_close) /\ Honest("file_seek", file_seek)
    /\ Honest("file_delete", file_delete) /\ Honest("file_closeAll", file_closeAll) /\ Honest("file_getPosition", file_getPosition)
    /\ Honest("file_read", file_read) /\ Honest("file_write", file_write) /\ Honest("gnss_on", gnss_on)
    /\ Honest("gnss_off", gnss_off) /\ Honest("gnss_getLocation", gnss_getLocation) /\ Honest("geo_query", geo_query)
    /\ Honest("gpio_adcRead", gpio_adcRead) /\ Honest("gpio_configPort", gpio_configPort) /\ Honest("gpio_read", gpio_read)
    /\ Honest("gpio_write", gpio_write) /\ Honest("mdminfo_ltem", mdminfo_ltem) /\ Honest("mdmInfo_signalPercent", mdmInfo_signalPercent)
    /\ Honest("mdminfo_signalRSSI", mdminfo_signalRSSI) /\ Honest("mdminfo_signalBars", mdminfo_signalBars) /\ Honest("ltem_setProviderScanMode", ltem_setProviderScanMode)
    /\ Honest("ltem_setProviderScanSeq", ltem_setProviderScanSeq) /\ Honest("ltem_setIotMode", ltem_setIotMode) /\ Honest("tls_configure", tls_configure)
    /\ Honest("tlsGetOptions", tlsGetOptions) /\ Honest("NTWK_applyDefaulNetwork", NTWK_applyDefaulNetwork) /\ Honest("ntwk_setNetworkConfig", ntwk_setNetworkConfig)
    /\ Honest("ntwk_getRegistrationStatus", ntwk_getRegistrationStatus) /\ Honest("ntwkDIAG_getProviders", ntwkDIAG_getProviders) /\ Honest("sckt_open", sckt_open)
    /\ Honest("http_readPage", http_readPage) /\ Honest("ntwk_activateNetwork", ntwk_activateNetwork) /\ Honest("ntwk_deactivateNetwork", ntwk_deactivateNetwork)
<1>1. /\ Honest("file_getFSInfo", file_getFSInfo) /\ Honest("file_getFilelist", file_getFilelist) /\ Honest("file_open", file_open)
      /\ Honest("file_getOpenFiles", file_getOpenFiles) /\ Honest("file_close", file_close) /\ Honest("file_seek", file_seek)
  BY DEF Honest, Wins, Careless, Mute, Activating, Requests, Earning, GetKinds, Automatic, Sequence, Ask, AskFor, Stream,
         file_getFSInfo, file_getFilelist, file_open, file_getOpenFiles, file_close,
         file_seek
<1>2. /\ Honest("file_delete", file_delete) /\ Honest("file_closeAll", file_closeAll) /\ Honest("file_getPosition", file_getPosition)
      /\ Honest("gnss_on", gnss_on) /\ Honest("gnss_off", gnss_off) /\ Honest("gnss_getLocation", gnss_getLocation)
  BY DEF Honest, Wins, Careless, Mute, Activating, Requests, Earning, GetKinds, Automatic, Sequence, Ask, AskFor, Stream,
         file_delete, file_closeAll, file_getPosition, gnss_on, gnss_off,
         gnss_getLocation
<1>3. /\ Honest("geo_query", geo_query) /\ Honest("gpio_adcRead", gpio_adcRead) /\ Honest("gpio_configPort", gpio_configPort)
      /\ Honest("gpio_read", gpio_read) /\ Honest("gpio_write", gpio_write) /\ Honest("mdmInfo_signalPercent", mdmInfo_signalPercent)
  BY DEF Honest, Wins, Careless, Mute, Activating, Requests, Earning, GetKinds, Automatic, Sequence, Ask, AskFor, Stream,
         geo_query, gpio_adcRead, gpio_configPort, gpio_read, gpio_write,
         mdmInfo_signalPercent
<1>4. /\ Honest("mdminfo_signalRSSI", mdminfo_signalRSSI) /\ Honest("mdminfo_signalBars", mdminfo_signalBars) /\ Honest("ltem_setProviderScanMode", ltem_setProviderScanMode)
      /\ Honest("ltem_setProviderScanSeq", ltem_setProviderScanSeq) /\ Honest("ltem_setIotMode", ltem_setIotMode) /\ Honest("tls_configure", tls_configure)
  BY DEF Honest, Wins, Careless, Mute, Activating, Requests, Earning, GetKinds, Automatic, Sequence, Ask, AskFor, Stream,
         mdminfo_signalRSSI, mdminfo_signalBars, ltem_setProviderScanMode, ltem_setProviderScanSeq, ltem_setIotMode,
         tls_configure, mdmInfo_signalPercent
<1>5. /\ Honest("tlsGetOptions", tlsGetOptions) /\ Honest("NTWK_applyDefaulNetwork", NTWK_applyDefaulNetwork) /\ Honest("ntwk_setNetworkConfig", ntwk_setNetworkConfig)
      /\ Honest("ntwk_getRegistrationStatus", ntwk_getRegistrationStatus) /\ Honest("ntwkDIAG_getProviders", ntwkDIAG_getProviders) /\ Honest("sckt_open", sckt_open)
  BY DEF Honest, Wins, Careless, Mute, Activating, Requests, Earning, GetKinds, Automatic, Sequence, Ask, AskFor, Stream,
         tlsGetOptions, NTWK_applyDefaulNetwork, ntwk_setNetworkConfig, ntwk_getRegistrationStatus, ntwkDIAG_getProviders,
         sckt_open
<1>6. /\ Honest("ntwk_activateNetwork", ntwk_activateNetwork) /\ Honest("ntwk_deactivateNetwork", ntwk_deactivateNetwork)
  BY DEF Honest, Wins, Careless, Mute, Activating, Requests, Earning, GetKinds, Automatic, Sequence, Ask, AskFor, Stream,
         ntwk_activateNetwork, ntwk_deactivateNetwork
<1>7. Honest("file_read", file_read)
  <2> DEFINE a == Stream("QFREAD", "S__filesRxHndlr")
  <2>1. a.k = "QFREAD"
    BY CommandKinds
  <2> HIDE DEF a
  <2>2. /\ file_read.cmds = <<a>> /\ file_read.won = "true" /\ file_read.lost = "false" /\ file_read.refused = "conflict"
        /\ file_read.goesOn = FALSE
    BY DEF file_read, Automatic, a
  <2>3. Len(file_read.cmds) = 1 /\ file_read.cmds[1] = a
    BY <2>2
  <2> QED BY <2>1, <2>2, <2>3 DEF Honest, Wins, Careless, Mute, Activating, Requests, Earning, GetKinds
<1>8. Honest("file_write", file_write)
  <2> DEFINE a == Feed("QFWRITE", ATCMD_okResponseParser, FALSE)
             b == AskFor("again", S__writeStatusParser)
  <2>1. a.k = "QFWRITE" /\ b.k = "again"
    BY CommandKinds
  <2> HIDE DEF a, b
  <2>2. /\ file_write.cmds = <<a, b>> /\ file_write.won = "success" /\ file_write.lost = "same" /\ file_write.refused = "conflict"
        /\ file_write.goesOn = TRUE /\ file_write.manual = TRUE
    BY DEF file_write, Sequence, Automatic, a, b
  <2>3. Len(file_write.cmds) = 2 /\ file_write.cmds[1] = a /\ file_write.cmds[2] = b
    BY <2>2
  <2>4. \A i \in 1..Len(file_write.cmds) : i = 1 \/ i = 2
    BY <2>3
  <2> QED BY <2>1, <2>2, <2>3, <2>4 DEF Honest, Wins, Careless, Mute, Activating, Requests, Earning, GetKinds
<1>9. Honest("mdminfo_ltem", mdminfo_ltem)
  <2> DEFINE a == Ask("GSN")
             b == Ask("QGMR")
             c == Ask("ATI")
             d == AskFor("ICCID", S__iccidCompleteParser)
  <2>1. a.k = "GSN" /\ b.k = "QGMR" /\ c.k = "ATI" /\ d.k = "ICCID"
    BY CommandKinds DEF Ask
  <2> HIDE DEF a, b, c, d
  <2>2. /\ mdminfo_ltem.cmds = <<a, b, c, d>> /\ mdminfo_ltem.won = "none" /\ mdminfo_ltem.lost = "none"
        /\ mdminfo_ltem.refused = "none" /\ mdminfo_ltem.manual = TRUE
    BY DEF mdminfo_ltem, Sequence, Automatic, a, b, c, d
  <2>3. /\ Len(mdminfo_ltem.cmds) = 4 /\ mdminfo_ltem.cmds[1] = a /\ mdminfo_ltem.cmds[2] = b /\ mdminfo_ltem.cmds[3] = c
        /\ mdminfo_ltem.cmds[4] = d
    BY <2>2
  <2>4. \A i \in 1..Len(mdminfo_ltem.cmds) : i = 1 \/ i = 2 \/ i = 3 \/ i = 4
    BY <2>3
  <2> QED BY <2>1, <2>2, <2>3, <2>4 DEF Honest, Wins, Careless, Mute, Activating, Requests, Earning, GetKinds
<1>10. Honest("http_readPage", http_readPage)
  <2> DEFINE a == Stream("QHTTPREAD", "S__httpRxHndlr")
  <2>1. a.k = "QHTTPREAD"
    BY CommandKinds
  <2> HIDE DEF a
  <2>2. /\ http_readPage.cmds = <<a>> /\ http_readPage.won = "success" /\ http_readPage.lost = "same" /\ http_readPage.refused = "conflict"
        /\ http_readPage.goesOn = FALSE
    BY DEF http_readPage, Automatic, a
  <2>3. Len(http_readPage.cmds) = 1 /\ http_readPage.cmds[1] = a
    BY <2>2
  <2> QED BY <2>1, <2>2, <2>3 DEF Honest, Wins, Careless, Mute, Activating, Requests, Earning, GetKinds
<1> QED BY <1>1, <1>2, <1>3, <1>4, <1>5, <1>6, <1>7, <1>8, <1>9, <1>10


LEMMA HonestRequests == ASSUME NEW h PROVE Honest("http_get", http_get(h)) /\ Honest("http_post", http_post(h))
<1> DEFINE a == Given(h.responseHdrs, <<Ask("plain")>>)
           b == Given(h.useTls, <<Ask("plain")>>)
           g == IF h.cstmHdrs THEN Feed("QHTTPGET+", S__httpGetStatusParser, FALSE)
                              ELSE AskFor("QHTTPGET", S__httpGetStatusParser)
           p == Feed("QHTTPPOST", S__httpPostStatusParser, FALSE)
           u == S__setUrl
           q == Ask("plain")
<1>1. q.k = "plain" /\ u.k = "QHTTPURL" /\ p.k = "QHTTPPOST" /\ g.k \in GetKinds
  <2>1. q.k = "plain"
    BY DEF Ask
  <2>2. u.k = "QHTTPURL" /\ p.k = "QHTTPPOST"
    BY CommandKinds DEF S__setUrl
  <2>3. Feed("QHTTPGET+", S__httpGetStatusParser, FALSE).k = "QHTTPGET+" /\ AskFor("QHTTPGET", S__httpGetStatusParser).k = "QHTTPGET"
    BY CommandKinds
  <2> QED BY <2>1, <2>2, <2>3 DEF GetKinds
<1>2. /\ http_get(h).cmds = (a \o b) \o <<u, q, g>> /\ http_post(h).cmds = (a \o b) \o <<u, p>>
      /\ http_get(h).refused = "timeout" /\ http_get(h).won = "success" /\ http_get(h).goesOn = FALSE
      /\ http_post(h).refused = "timeout" /\ http_post(h).won = "success" /\ http_post(h).goesOn = FALSE
  BY DEF http_get, http_post, http_configure, Sequence, Automatic
<1>3. a \in {<<q>>, <<>>} /\ b \in {<<q>>, <<>>}
  BY DEF Given
<1> DEFINE x == a \o b
<1> HIDE DEF a, b, g, p, u, q
<1>4. a \in Seq({q}) /\ b \in Seq({q})
  <2>1. <<q>> \in Seq({q}) /\ <<>> \in Seq({q})
    OBVIOUS
  <2> QED BY <1>3, <2>1
<1>5. x \in Seq({q}) /\ \A i \in 1..Len(x) : x[i] = q
  <2>1. x \in Seq({q})
    BY <1>4 DEF x
  <2> HIDE DEF x
  <2> QED BY <2>1
<1> HIDE DEF x
<1>6. \A i \in 1..Len(x \o <<u, q, g>>) : LET y == x \o <<u, q, g>> IN
        (y[i] \in {u, q} /\ i # Len(y)) \/ (y[i] = g /\ i = Len(y))
  BY <1>5
<1>7. \A i \in 1..Len(x \o <<u, p>>) : LET y == x \o <<u, p>> IN y[i] \in {u, q, p}
  BY <1>5
<1>8. Honest("http_get", http_get(h))
  BY <1>1, <1>2, <1>6 DEF x, Honest, Wins, Careless, Mute, Activating, Requests, Earning, GetKinds
<1>9. Honest("http_post", http_post(h))
  BY <1>1, <1>2, <1>7 DEF x, Honest, Wins, Careless, Mute, Activating, Requests, Earning, GetKinds
<1> QED BY <1>8, <1>9

LEMMA ScriptHonest == ASSUME NEW n \in Names, NEW h PROVE Honest(n, ScriptOf(n, h))
<1>1. CASE n \in Requests
  BY <1>1, HonestRequests DEF ScriptOf, Requests
<1>2. CASE n \notin Requests
  <2>1. n \in DOMAIN Scripts /\ ScriptOf(n, h) = Scripts[n]
    BY <1>2 DEF Names, Requests, ScriptOf, Scripts
  <2>2. \A m \in DOMAIN Scripts : Honest(m, Scripts[m])
    BY HonestScripts DEF Scripts, Fixed
  <2> QED BY <2>1, <2>2
<1> QED BY <1>1, <1>2

-----------------------------------------------------------------------------
(* The words of a text: what is neither a line end nor a value. *)
Words == PieceKinds \ {"eol", "tok", "dlm", "item"}
WordsOf(x) == {x[j].k : j \in 1..Len(x)} \cap Words

LEMMA TellsWords == \A x : \A K \in SUBSET Words : Tells(x, K) <=> WordsOf(x) \cap K # {}
BY DEF Tells, WordsOf

LEMMA LineIs ==
    ASSUME NEW ks \in Seq(PieceKinds)
    PROVE  /\ Len(Line(ks)) = Len(ks)
           /\ \A i \in 1..Len(ks) : Line(ks)[i].k = ks[i] /\ Line(ks)[i].v = 0
           /\ WordsOf(Line(ks)) = {ks[i] : i \in 1..Len(ks)} \cap Words
<1> DEFINE t == Line(ks)
           m == Len(ks)
           K == {P(ks[i]) : i \in 1..m}
<1>1. m \in Nat /\ t = [i \in 1..m |-> P(ks[i])]
  BY DEF Line
<1>2. \A i \in 1..m : P(ks[i]).k = ks[i] /\ P(ks[i]).v = 0 /\ P(ks[i]) \in K
  BY DEF P, Piece
<1> HIDE DEF t, m, K
<1>3. t \in [1..m -> K]
  BY <1>1, <1>2
<1>4. Len(t) = m /\ \A i \in 1..m : t[i] = P(ks[i])
  <2>1. t \in Seq(K) /\ Len(t) = m
    BY <1>1, <1>3
  <2> QED BY <2>1, <1>1
<1>5. Len(t) = m /\ \A i \in 1..m : t[i].k = ks[i] /\ t[i].v = 0
  BY <1>2, <1>4
<1>6. WordsOf(t) = {ks[i] : i \in 1..m} \cap Words
  BY <1>5 DEF WordsOf
<1> QED BY <1>5, <1>6 DEF t, m

(* A line that ends has its preamble whole. *)
LEMMA LineWhole == ASSUME NEW x \in Chunks, Len(x) = 0 \/ x[Len(x)].k = "eol" PROVE Whole(x)
<1>1. SUFFICES ASSUME NEW i \in 1..Len(x), x[i].k \in Preambles
               PROVE  \E j \in (i + 1)..Len(x) : x[j].k = "eol" /\ x[j].c = x[i].c
  BY DEF Whole
<1>2. x \in Seq(Pieces({NoCmd})) /\ Len(x) \in Nat
  BY DEF Chunks
<1>3. \A j \in 1..Len(x) : x[j].c = NoCmd
  <2>1. \A j \in 1..Len(x) : x[j] \in Pieces({NoCmd})
    BY <1>2
  <2> QED BY <2>1 DEF Pieces
<1>4. Len(x) \in 1..Len(x) /\ x[Len(x)].k = "eol"
  BY <1>2
<1>5. i # Len(x)
  BY <1>1, <1>4 DEF Preambles
<1>6. Len(x) \in (i + 1)..Len(x)
  BY <1>2, <1>5
<1> QED BY <1>3, <1>4, <1>6

LEMMA WordsWhole == ASSUME NEW x, WordsOf(x) \cap Preambles = {} PROVE Whole(x)
<1>1. Preambles \subseteq Words
  BY DEF Preambles, Words, PieceKinds
<1> QED BY <1>1 DEF Whole, WordsOf

(* A chunk with its words. *)
Says(x, W) == x \in Chunks /\ x # Data /\ WordsOf(x) = W /\ Whole(x)

LEMMA LineSays ==
    ASSUME NEW ks \in Seq(PieceKinds), ks # <<>>, ks[Len(ks)] = "eol"
    PROVE  Says(Line(ks), {ks[i] : i \in 1..Len(ks)} \cap Words)
<1>1. Line(ks) \in Chunks /\ Line(ks) # Data /\ Len(Line(ks)) = Len(ks)
  BY LineSums
<1>2. Len(ks) \in 1..Len(ks)
  OBVIOUS
<1>3. Line(ks)[Len(ks)].k = "eol" /\ WordsOf(Line(ks)) = {ks[i] : i \in 1..Len(ks)} \cap Words
  BY <1>2, LineIs
<1>4. Whole(Line(ks))
  BY <1>1, <1>3, LineWhole
<1> QED BY <1>1, <1>3, <1>4 DEF Says

LEMMA SaysWord ==
    ASSUME NEW w \in {"OK", "ERROR", "CONNECT"}
    PROVE  Says(Line(<<"eol", w, "eol">>), {w}) /\ Len(Line(<<"eol", w, "eol">>)) = 3 /\ Line(<<"eol", w, "eol">>)[1].k = "eol"
           /\ Line(<<"eol", w, "eol">>)[3].k = "eol"
<1> DEFINE ks == <<"eol", w, "eol">>
<1>1. ks \in Seq(PieceKinds) /\ ks # <<>> /\ Len(ks) = 3 /\ ks[1] = "eol" /\ ks[2] = w /\ ks[3] = "eol"
  BY DEF PieceKinds
<1> HIDE DEF ks
<1>2. {ks[i] : i \in 1..Len(ks)} \cap Words = {w}
  <2>1. \A i \in 1..3 : i = 1 \/ i = 2 \/ i = 3
    OBVIOUS
  <2>2. w \in Words /\ "eol" \notin Words
    BY DEF Words, PieceKinds
  <2> QED BY <1>1, <2>1, <2>2
<1>3. Says(Line(ks), {w}) /\ Len(Line(ks)) = 3 /\ Line(ks)[1].k = "eol" /\ Line(ks)[3].k = "eol"
  BY <1>1, <1>2, LineSays, LineIs
<1> QED BY <1>3 DEF ks

LEMMA SaysOne ==
    ASSUME NEW k \in {"ICCID", "QHTTPREAD"}, NEW v \in {"item", "tok"}
    PROVE  LET x == Line(<<"eol", k, v, "eol">>)
           IN  Says(x, {k}) /\ Len(x) = 4 /\ x[1].k = "eol" /\ x[3].k = v /\ x[4].k = "eol"
<1> DEFINE ks == <<"eol", k, v, "eol">>
<1>1. ks \in Seq(PieceKinds) /\ ks # <<>> /\ Len(ks) = 4 /\ ks[1] = "eol" /\ ks[2] = k /\ ks[3] = v /\ ks[4] = "eol"
  BY DEF PieceKinds
<1> HIDE DEF ks
<1>2. {ks[i] : i \in 1..Len(ks)} \cap Words = {k}
  <2>1. \A i \in 1..4 : i = 1 \/ i = 2 \/ i = 3 \/ i = 4
    OBVIOUS
  <2>2. k \in Words /\ {"eol", v} \cap Words = {}
    BY DEF Words, PieceKinds
  <2> QED BY <1>1, <2>1, <2>2
<1>3. Says(Line(ks), {k}) /\ Len(Line(ks)) = 4 /\ Line(ks)[1].k = "eol" /\ Line(ks)[3].k = v /\ Line(ks)[4].k = "eol"
  BY <1>1, <1>2, LineSays, LineIs
<1> QED BY <1>3 DEF ks

LEMMA SaysInfo == ASSUME NEW pre \in {"QADC", "QCFG", "QIOPEN", "QFWRITE"} PROVE Says(Info(pre), {pre})
<1> DEFINE ks == <<"eol", pre, "tok", "dlm", "tok", "eol">>
<1>1. /\ ks \in Seq(PieceKinds) /\ ks # <<>> /\ Len(ks) = 6
      /\ ks[1] = "eol" /\ ks[2] = pre /\ ks[3] = "tok" /\ ks[4] = "dlm" /\ ks[5] = "tok" /\ ks[6] = "eol"
  BY DEF PieceKinds
<1> HIDE DEF ks
<1>2. {ks[i] : i \in 1..Len(ks)} \cap Words = {pre}
  <2>1. \A i \in 1..6 : i = 1 \/ i = 2 \/ i = 3 \/ i = 4 \/ i = 5 \/ i = 6
    OBVIOUS
  <2>2. pre \in Words /\ {"eol", "tok", "dlm"} \cap Words = {}
    BY DEF Words, PieceKinds
  <2> QED BY <1>1, <2>1, <2>2
<1>3. Says(Line(ks), {pre})
  BY <1>1, <1>2, LineSays
<1> QED BY <1>3 DEF ks, Info

LEMMA SaysItems == ASSUME NEW n \in Nat \ {0} PROVE Says(Items(n), {})
<1>1. Items(n) \in Chunks /\ Items(n) # Data
  BY ItemsLight DEF Light
<1> DEFINE t == Items(n)
<1>2. t = [i \in 1..n |-> P("item")] /\ P("item").k = "item"
  BY DEF Items, P, Piece
<1> HIDE DEF t
<1>3. t \in [1..n -> {P("item")}]
  BY <1>2
<1>4. Len(t) = n /\ \A i \in 1..n : t[i].k = "item"
  BY <1>2, <1>3
<1>5. WordsOf(t) = {}
  BY <1>4 DEF WordsOf, Words
<1> QED BY <1>1, <1>5, WordsWhole DEF Says, t

LEMMA SaysPosition ==
    Says(Position[1], {"QGPSLOC"}) /\ Says(Position[2], {}) /\ Says(Position[1] \o Position[2], {"QGPSLOC"})
<1> DEFINE a == <<"eol", "QGPSLOC", "tok", "dlm", "tok", "dlm", "tok", "dlm", "tok", "dlm", "tok">>
           b == <<"dlm", "tok", "dlm", "tok", "dlm", "tok", "dlm", "tok", "dlm", "tok", "dlm", "tok", "eol">>
<1>1. Position[1] = Line(a) /\ Position[2] = Line(b)
  BY DEF Position
<1>2. a \in Seq({"eol", "QGPSLOC", "tok", "dlm"}) /\ a[2] = "QGPSLOC" /\ 2 \in 1..Len(a) /\ b \in Seq({"eol", "tok", "dlm"})
  OBVIOUS
<1> HIDE DEF a, b
<1>3. a \in Seq(PieceKinds) /\ b \in Seq(PieceKinds)
  BY <1>2, SeqMonotonic DEF PieceKinds
<1>4. /\ WordsOf(Line(a)) = {a[i] : i \in 1..Len(a)} \cap Words
      /\ WordsOf(Line(b)) = {b[i] : i \in 1..Len(b)} \cap Words
  BY <1>3, LineIs
<1>5. (\A i \in 1..Len(a) : a[i] \in {"eol", "QGPSLOC", "tok", "dlm"}) /\ \A i \in 1..Len(b) : b[i] \in {"eol", "tok", "dlm"}
  BY <1>2
<1>6. "QGPSLOC" \in Words /\ {"eol", "tok", "dlm"} \cap Words = {}
  BY DEF Words, PieceKinds
<1>7. WordsOf(Line(a)) = {"QGPSLOC"} /\ WordsOf(Line(b)) = {}
  BY <1>2, <1>4, <1>5, <1>6
<1> DEFINE x == Position[1]
           y == Position[2]
<1>8. x \in Chunks /\ y \in Chunks /\ x \o y \in Chunks /\ x # Data /\ y # Data /\ x \o y # Data
  BY PositionLight DEF Light
<1>9. WordsOf(x) = {"QGPSLOC"} /\ WordsOf(y) = {}
  BY <1>1, <1>7
<1> HIDE DEF x, y
<1>10. WordsOf(x \o y) = {"QGPSLOC"}
  <2>1. x \in Seq(Pieces({NoCmd})) /\ y \in Seq(Pieces({NoCmd}))
    BY <1>8 DEF Chunks
  <2>2. /\ \A i \in 1..Len(x) : i \in 1..Len(x \o y) /\ (x \o y)[i] = x[i]
        /\ \A i \in 1..Len(x \o y) : i \in 1..Len(x) \/ (i - Len(x) \in 1..Len(y) /\ (x \o y)[i] = y[i - Len(x)])
    BY <2>1
  <2> DEFINE z == x \o y
  <2>3. /\ \A i \in 1..Len(x) : i \in 1..Len(z) /\ z[i] = x[i]
        /\ \A i \in 1..Len(z) : i \in 1..Len(x) \/ (i - Len(x) \in 1..Len(y) /\ z[i] = y[i - Len(x)])
    BY <2>2
  <2> HIDE DEF z
  <2>4. WordsOf(z) \subseteq WordsOf(x) \cup WordsOf(y)
    BY <2>3 DEF WordsOf
  <2>5. WordsOf(x) \subseteq WordsOf(z)
    BY <2>3 DEF WordsOf
  <2> QED BY <1>9, <2>4, <2>5 DEF z
<1>11. "QGPSLOC" \notin Preambles
  BY DEF Preambles
<1> QED BY <1>8, <1>9, <1>10, <1>11, WordsWhole DEF Says, x, y

LEMMA SaysOutcome ==
    ASSUME NEW pre \in {"QIOPEN", "QHTTPGET", "QHTTPPOST", "QHTTPREAD"}, NEW err \in Int, NEW status \in Int
    PROVE  LET x == Outcome(pre, err, status)
           IN  /\ Says(x, {pre}) /\ x[1].k = "eol" /\ x[2].k = pre /\ x[3].k = "tok" /\ x[3].v = err
               /\ err = 0 => Len(x) = 6 /\ x[4].k = "dlm" /\ x[5].k = "tok" /\ x[5].v = status /\ x[6].k = "eol"
               /\ err # 0 => Len(x) = 4 /\ x[4].k = "eol"
<1> DEFINE t == Outcome(pre, err, status)
           e == Piece("tok", err, NoCmd)
           s == Piece("tok", status, NoCmd)
<1>1. pre \in Words /\ {"eol", "tok", "dlm"} \cap Words = {}
  BY DEF Words, PieceKinds
<1>2. t \in Chunks /\ t # Data
  BY OutcomeLight DEF Light
<1>3. /\ P("eol").k = "eol" /\ P(pre).k = pre /\ P("tok").k = "tok" /\ P("tok").v = 0 /\ P("dlm").k = "dlm"
      /\ e.k = "tok" /\ s.k = "tok" /\ e.v = err /\ s.v = status
  BY DEF P, Piece
<1> HIDE DEF e, s
<1>4. CASE err = 0
  <2>1. t = <<P("eol"), P(pre), P("tok"), P("dlm"), s, P("eol")>>
    BY <1>4 DEF Outcome, s
  <2>2. Len(t) = 6 /\ t[1].k = "eol" /\ t[2].k = pre /\ t[3].k = "tok" /\ t[3].v = 0 /\ t[4].k = "dlm" /\ t[5].k = "tok" /\ t[5].v = status /\ t[6].k = "eol"
    BY <1>3, <2>1
  <2> HIDE DEF t
  <2>3. \A i \in 1..6 : i = 1 \/ i = 2 \/ i = 3 \/ i = 4 \/ i = 5 \/ i = 6
    OBVIOUS
  <2>4. WordsOf(t) = {pre}
    BY <1>1, <2>2, <2>3 DEF WordsOf
  <2>5. Whole(t)
    BY <1>2, <2>2, LineWhole
  <2> QED BY <1>2, <1>4, <2>2, <2>4, <2>5 DEF Says, t
<1>5. CASE err # 0
  <2>1. t = <<P("eol"), P(pre), e, P("eol")>>
    BY <1>5 DEF Outcome, e
  <2>2. Len(t) = 4 /\ t[1].k = "eol" /\ t[2].k = pre /\ t[3].k = "tok" /\ t[3].v = err /\ t[4].k = "eol"
    BY <1>3, <2>1
  <2> HIDE DEF t
  <2>3. \A i \in 1..4 : i = 1 \/ i = 2 \/ i = 3 \/ i = 4
    OBVIOUS
  <2>4. WordsOf(t) = {pre}
    BY <1>1, <2>2, <2>3 DEF WordsOf
  <2>5. Whole(t)
    BY <1>2, <2>2, LineWhole
  <2> QED BY <1>2, <1>5, <2>2, <2>4, <2>5 DEF Says, t
<1> QED BY <1>4, <1>5

-----------------------------------------------------------------------------
(* Every answer of the module keeps to the tale of what it answers. *)
Lined(k, x, g) == \A j \in 1..Len(x) : LineOf(k, x, j, g)

LEMMA FinalWords == \A k : Final(k) \subseteq Words /\ Pledges(k) \subseteq Words
BY DEF Final, Pledges, Words, PieceKinds

LEMMA RestWords ==
    ASSUME NEW k, NEW R, NEW g, NEW m \in 1..Len(R), NEW W, WordsOf(R[m]) = W,
           W \cap Final(k) # {} => m = Len(R),
           W \cap Pledges(k) # {} => g /\ \A n \in m..Len(R) : R[n] # Data,
           R[m] = Data \/ "CONNECT" \in W => k \in Fed,
           Lined(k, R[m], g)
    PROVE  RestAt(k, R, g, m)
<1>1. /\ Tells(R[m], Final(k)) <=> W \cap Final(k) # {}
      /\ Tells(R[m], Pledges(k)) <=> W \cap Pledges(k) # {}
      /\ Tells(R[m], {"CONNECT"}) <=> "CONNECT" \in W
  <2>1. {"CONNECT"} \in SUBSET Words /\ Final(k) \in SUBSET Words /\ Pledges(k) \in SUBSET Words
    BY FinalWords DEF Words, PieceKinds
  <2> QED BY <2>1, TellsWords
<1> QED BY <1>1 DEF RestAt, Lined

LEMMA LinedPlain ==
    ASSUME NEW k, NEW x, NEW g,
           k \in GetKinds => "QHTTPGET" \notin WordsOf(x),
           k = "QHTTPREAD" => "QHTTPREAD" \notin WordsOf(x),
           k = "QHTTPURL" => "OK" \notin WordsOf(x)
    PROVE  Lined(k, x, g)
<1>1. {"QHTTPGET", "QHTTPREAD", "OK"} \subseteq Words
  BY DEF Words, PieceKinds
<1> QED BY <1>1 DEF Lined, LineOf, Status, WordsOf

(* What is to come, given by the words of its chunks. *)
Bound(k, R, g, m, W) ==
    /\ WordsOf(R[m]) = W
    /\ W \cap Final(k) # {} => m = Len(R)
    /\ W \cap Pledges(k) # {} => g /\ \A n \in m..Len(R) : R[n] # Data
    /\ R[m] = Data \/ "CONNECT" \in W => k \in Fed
    /\ Lined(k, R[m], g) /\ Whole(R[m])

LEMMA BoundRests ==
    ASSUME NEW k, NEW R, NEW g, \A m \in 1..Len(R) : \E W : Bound(k, R, g, m, W)
    PROVE  Rests(k, R, g) /\ \A m \in 1..Len(R) : Whole(R[m])
BY RestWords DEF Bound, Rests

LEMMA DataWords == WordsOf(Data) = {} /\ Whole(Data)
BY DEF WordsOf, Whole, Data

LEMMA OneRests ==
    ASSUME NEW k, NEW g, NEW a, NEW W, Says(a, W), "CONNECT" \notin W, W \cap Pledges(k) # {} => g, Lined(k, a, g)
    PROVE  Rests(k, <<a>>, g) /\ \A m \in 1..Len(<<a>>) : Whole(<<a>>[m])
<1> DEFINE R == <<a>>
<1>1. Len(R) = 1 /\ R[1] = a /\ a # Data
  BY DEF Says
<1> HIDE DEF R
<1>2. Bound(k, R, g, 1, W)
  BY <1>1 DEF Bound, Says
<1>3. \A m \in 1..Len(R) : \E V : Bound(k, R, g, m, V)
  BY <1>1, <1>2
<1> QED BY <1>3, BoundRests DEF R

LEMMA TwoRests ==
    ASSUME NEW k, NEW g, NEW a, NEW V, Says(a, V), NEW b, NEW W, Says(b, W), "CONNECT" \notin V \cup W,
           V \cap Final(k) = {}, (V \cup W) \cap Pledges(k) # {} => g, Lined(k, a, g), Lined(k, b, g)
    PROVE  Rests(k, <<a, b>>, g) /\ \A m \in 1..Len(<<a, b>>) : Whole(<<a, b>>[m])
<1> DEFINE R == <<a, b>>
<1>1. Len(R) = 2 /\ R[1] = a /\ R[2] = b /\ a # Data /\ b # Data
  BY DEF Says
<1> HIDE DEF R
<1>2. \A n \in 1..2 : n = 1 \/ n = 2
  OBVIOUS
<1>3. Bound(k, R, g, 1, V) /\ Bound(k, R, g, 2, W)
  BY <1>1, <1>2 DEF Bound, Says
<1>4. \A m \in 1..Len(R) : \E U : Bound(k, R, g, m, U)
  BY <1>1, <1>2, <1>3
<1> QED BY <1>4, BoundRests DEF R

LEMMA ThreeRests ==
    ASSUME NEW k, NEW g, NEW a, NEW V, Says(a, V), NEW b, NEW U, Says(b, U) \/ (b = Data /\ U = {}),
           NEW c, NEW W, Says(c, W),
           "CONNECT" \in V \/ b = Data => k \in Fed, "CONNECT" \notin U \cup W,
           (V \cup U) \cap Final(k) = {}, (V \cup U \cup W) \cap Pledges(k) # {} => g,
           b = Data => V \cap Pledges(k) = {},
           Lined(k, a, g), Lined(k, b, g), Lined(k, c, g)
    PROVE  Rests(k, <<a, b, c>>, g) /\ \A m \in 1..Len(<<a, b, c>>) : Whole(<<a, b, c>>[m])
<1> DEFINE R == <<a, b, c>>
<1>1. Len(R) = 3 /\ R[1] = a /\ R[2] = b /\ R[3] = c /\ a # Data /\ c # Data
  BY DEF Says
<1> HIDE DEF R
<1>2. \A n \in 1..3 : n = 1 \/ n = 2 \/ n = 3
  OBVIOUS
<1>3. WordsOf(b) = U /\ Whole(b)
  BY DataWords DEF Says
<1>4. Bound(k, R, g, 1, V) /\ Bound(k, R, g, 2, U) /\ Bound(k, R, g, 3, W)
  <2>1. Bound(k, R, g, 1, V)
    BY <1>1, <1>2 DEF Bound, Says
  <2>2. Bound(k, R, g, 2, U)
    BY <1>1, <1>2, <1>3 DEF Bound, Says
  <2>3. Bound(k, R, g, 3, W)
    BY <1>1, <1>2 DEF Bound, Says
  <2> QED BY <2>1, <2>2, <2>3
<1>5. \A m \in 1..Len(R) : \E X : Bound(k, R, g, m, X)
  BY <1>1, <1>2, <1>4
<1> QED BY <1>5, BoundRests DEF R

LEMMA FourRests ==
    ASSUME NEW k, NEW g, NEW a, NEW V, Says(a, V), NEW b, NEW U, Says(b, U) \/ (b = Data /\ U = {}),
           NEW c, NEW X, Says(c, X), NEW d, NEW W, Says(d, W),
           "CONNECT" \in V \/ b = Data => k \in Fed, "CONNECT" \notin U \cup X \cup W,
           (V \cup U \cup X) \cap Final(k) = {}, (V \cup U \cup X \cup W) \cap Pledges(k) # {} => g,
           b = Data => V \cap Pledges(k) = {},
           Lined(k, a, g), Lined(k, b, g), Lined(k, c, g), Lined(k, d, g)
    PROVE  Rests(k, <<a, b, c, d>>, g) /\ \A m \in 1..Len(<<a, b, c, d>>) : Whole(<<a, b, c, d>>[m])
<1> DEFINE R == <<a, b, c, d>>
<1>1. Len(R) = 4 /\ R[1] = a /\ R[2] = b /\ R[3] = c /\ R[4] = d /\ a # Data /\ c # Data /\ d # Data
  BY DEF Says
<1> HIDE DEF R
<1>2. \A n \in 1..4 : n = 1 \/ n = 2 \/ n = 3 \/ n = 4
  OBVIOUS
<1>3. WordsOf(b) = U /\ Whole(b)
  BY DataWords DEF Says
<1>4. Bound(k, R, g, 1, V) /\ Bound(k, R, g, 2, U) /\ Bound(k, R, g, 3, X) /\ Bound(k, R, g, 4, W)
  <2>1. Bound(k, R, g, 1, V)
    BY <1>1, <1>2 DEF Bound, Says
  <2>2. Bound(k, R, g, 2, U)
    BY <1>1, <1>2, <1>3 DEF Bound, Says
  <2>3. Bound(k, R, g, 3, X)
    BY <1>1, <1>2 DEF Bound, Says
  <2>4. Bound(k, R, g, 4, W)
    BY <1>1, <1>2 DEF Bound, Says
  <2> QED BY <2>1, <2>2, <2>3, <2>4
<1>5. \A m \in 1..Len(R) : \E Y : Bound(k, R, g, m, Y)
  BY <1>1, <1>2, <1>4
<1> QED BY <1>5, BoundRests DEF R

Keeps(k, r) == Rests(k, r.chunks, r.good) /\ \A m \in 1..Len(r.chunks) : Whole(r.chunks[m])

LEMMA YesNo == \A x : Yes(x).good = TRUE /\ Yes(x).chunks = x /\ No(x).good = FALSE /\ No(x).chunks = x
BY DEF Yes, No

(* Line(<<"eol", w, "eol">>), and the end of an OK. *)
LEMMA SaysWords ==
    /\ Says(Okay, {"OK"}) /\ Says(Refusal, {"ERROR"}) /\ Says(Prompt, {"CONNECT"})
    /\ Len(Okay) = 3 /\ Okay[1].k = "eol" /\ Okay[3].k = "eol"
BY SaysWord DEF Okay, Refusal, Prompt

LEMMA LinedWords ==
    ASSUME NEW k, NEW g
    PROVE  Lined(k, Okay, g) /\ Lined(k, Refusal, g) /\ Lined(k, Prompt, g) /\ Lined(k, Data, g)
<1>1. \A x \in {Refusal, Prompt, Data} : WordsOf(x) \cap {"QHTTPGET", "QHTTPREAD", "OK"} = {}
  BY SaysWords, DataWords DEF Says
<1>2. Lined(k, Refusal, g) /\ Lined(k, Prompt, g) /\ Lined(k, Data, g)
  BY <1>1, LinedPlain
<1>3. WordsOf(Okay) = {"OK"}
  BY SaysWords DEF Says
<1>4. CASE k # "QHTTPURL"
  <2>1. "QHTTPGET" \notin WordsOf(Okay) /\ "QHTTPREAD" \notin WordsOf(Okay)
    BY <1>3
  <2>2. Lined(k, Okay, g)
    BY <1>4, <2>1, LinedPlain
  <2> QED BY <1>2, <2>2
<1>5. CASE k = "QHTTPURL"
  <2>1. \A j \in 1..Len(Okay) : Okay[j].k = "OK" => j = 2
    BY SaysWords
  <2>2. Len(Okay) = 3
    BY SaysWords
  <2>3. k \notin GetKinds /\ k # "QHTTPREAD"
    BY <1>5 DEF GetKinds
  <2>4. ASSUME NEW j \in 1..Len(Okay) PROVE LineOf(k, Okay, j, g)
    <3>1. Okay[j].k = "OK" => Len(Okay) = j + 1
      BY <2>1, <2>2
    <3> HIDE DEF Okay
    <3> QED BY <2>3, <3>1 DEF LineOf
  <2>5. Lined(k, Okay, g)
    BY <2>4 DEF Lined
  <2> QED BY <1>2, <2>5
<1> QED BY <1>2, <1>4, <1>5

LEMMA RefusedKeeps1 == ASSUME NEW k PROVE Keeps(k, No(<<Refusal>>)) /\ Rests(k, <<Refusal>>, FALSE)
<1>1. "ERROR" \notin Pledges(k)
  BY DEF Pledges
<1>2. Lined(k, Refusal, FALSE) /\ Says(Refusal, {"ERROR"}) /\ "CONNECT" \notin {"ERROR"} /\ ({"ERROR"} \cap Pledges(k) # {} => FALSE)
  BY <1>1, LinedWords, SaysWords
<1> HIDE DEF Refusal
<1>3. Rests(k, <<Refusal>>, FALSE) /\ \A m \in 1..Len(<<Refusal>>) : Whole(<<Refusal>>[m])
  BY <1>2, OneRests
<1> QED BY <1>3, YesNo DEF Keeps

LEMMA OkayKeeps == ASSUME NEW k PROVE Keeps(k, Yes(<<Okay>>))
<1>1. Lined(k, Okay, TRUE) /\ Says(Okay, {"OK"}) /\ "CONNECT" \notin {"OK"}
  BY LinedWords, SaysWords
<1>3. Rests(k, <<Okay>>, TRUE) /\ \A m \in 1..Len(<<Okay>>) : Whole(<<Okay>>[m])
  BY <1>1, OneRests
<1> QED BY <1>3, YesNo DEF Keeps

(* A line and the OK. *)
LEMMA LineKeeps ==
    ASSUME NEW k \in {"list", "COPS", "QADC", "QCFG", "ICCID", "QGPSLOC"}, NEW a, NEW W, Says(a, W), W \subseteq {"QADC", "QCFG", "ICCID", "QGPSLOC"}
    PROVE  Keeps(k, Yes(<<a, Okay>>))
<1>1. "CONNECT" \notin W \cup {"OK"} /\ W \cap Final(k) = {} /\ Says(Okay, {"OK"})
  BY SaysWords DEF Final, GetKinds
<1>2. Lined(k, a, TRUE) /\ Lined(k, Okay, TRUE)
  BY LinedWords, LinedPlain DEF GetKinds
<1>3. Rests(k, <<a, Okay>>, TRUE) /\ \A m \in 1..Len(<<a, Okay>>) : Whole(<<a, Okay>>[m])
  BY <1>1, <1>2, TwoRests
<1> QED BY <1>3, YesNo DEF Keeps

LEMMA LocationKeeps == Keeps("QGPSLOC", Yes(Append(Position, Okay))) /\ Keeps("QGPSLOC", Yes(<<Position[1] \o Position[2], Okay>>))
<1> DEFINE a == Position[1]
           b == Position[2]
           ab == Position[1] \o Position[2]
           k == "QGPSLOC"
<1>1. Position = <<a, b>>
  BY DEF Position
<1>2. Says(a, {"QGPSLOC"}) /\ Says(b, {}) /\ Says(ab, {"QGPSLOC"}) /\ Says(Okay, {"OK"})
  BY SaysPosition, SaysWords
<1> HIDE DEF a, b, ab
<1>3. Append(Position, Okay) = <<a, b, Okay>>
  BY <1>1, Append2
<1>4. Lined(k, a, TRUE) /\ Lined(k, b, TRUE) /\ Lined(k, Okay, TRUE)
  BY LinedWords, LinedPlain DEF GetKinds
<1>5. Final(k) = {"ERROR", "OK"} /\ b # Data
  BY <1>2 DEF Final, Says, GetKinds
<1>6. Rests(k, <<a, b, Okay>>, TRUE) /\ \A m \in 1..Len(<<a, b, Okay>>) : Whole(<<a, b, Okay>>[m])
  <2>1. "CONNECT" \notin {"QGPSLOC"} /\ "CONNECT" \notin {} \cup {"OK"} /\ ({"QGPSLOC"} \cup {}) \cap Final(k) = {}
    BY <1>5
  <2> QED BY <1>2, <1>4, <1>5, <2>1, ThreeRests
<1>7. Keeps(k, Yes(<<ab, Okay>>))
  BY <1>2, LineKeeps
<1>8. Keeps(k, Yes(<<a, b, Okay>>))
  BY <1>6, YesNo DEF Keeps
<1> QED BY <1>3, <1>7, <1>8 DEF ab

LEMMA OpenKeeps == ASSUME NEW b, Says(b, {"QIOPEN"}) PROVE Keeps("QIOPEN", Yes(<<Okay, b>>)) /\ Keeps("QIOPEN", No(<<Okay, b>>))
<1>1. Final("QIOPEN") = {"ERROR"} /\ Pledges("QIOPEN") = {} /\ Says(Okay, {"OK"})
  BY SaysWords DEF Final, Pledges, GetKinds
<1>2. ASSUME NEW g PROVE Lined("QIOPEN", Okay, g) /\ Lined("QIOPEN", b, g)
  BY LinedWords, LinedPlain DEF GetKinds
<1>3. ASSUME NEW g PROVE Rests("QIOPEN", <<Okay, b>>, g) /\ \A m \in 1..Len(<<Okay, b>>) : Whole(<<Okay, b>>[m])
  <2>1. "CONNECT" \notin {"OK"} \cup {"QIOPEN"} /\ {"OK"} \cap Final("QIOPEN") = {} /\ ~(({"OK"} \cup {"QIOPEN"}) \cap Pledges("QIOPEN") # {})
    BY <1>1
  <2> QED BY <1>1, <1>2, <2>1, TwoRests
<1> QED BY <1>3, YesNo DEF Keeps

LEMMA WriteKeeps == Keeps("QFWRITE", Yes(<<Prompt, Data, Info("QFWRITE"), Okay>>))
<1> DEFINE k == "QFWRITE"
           c == Info("QFWRITE")
<1>1. Says(Prompt, {"CONNECT"}) /\ Says(c, {"QFWRITE"}) /\ Says(Okay, {"OK"}) /\ Lined(k, c, TRUE)
  BY SaysInfo, SaysWords, LinedPlain DEF GetKinds
<1>2. Final(k) = {"ERROR", "OK"} /\ Pledges(k) = {"OK", "QFWRITE"} /\ k \in Fed
  BY DEF Final, Pledges, GetKinds, Fed
<1> HIDE DEF c
<1>3. Rests(k, <<Prompt, Data, c, Okay>>, TRUE) /\ \A m \in 1..Len(<<Prompt, Data, c, Okay>>) : Whole(<<Prompt, Data, c, Okay>>[m])
  <2> DEFINE V == {"CONNECT"}
             U == {}
             X == {"QFWRITE"}
             W == {"OK"}
  <2>1. /\ "CONNECT" \notin U \cup X \cup W /\ (V \cup U \cup X) \cap Final(k) = {}
        /\ ((V \cup U \cup X \cup W) \cap Pledges(k) # {} => TRUE) /\ V \cap Pledges(k) = {}
        /\ Says(Prompt, V) /\ Says(c, X) /\ Says(Okay, W)
    BY <1>1, <1>2
  <2> HIDE DEF V, X, W
  <2> QED BY <1>1, <1>2, <2>1, FourRests, LinedWords
<1> QED BY <1>3, YesNo DEF Keeps, c

(* The data that a command takes, and what comes of it. *)
LEMMA FeedKeeps ==
    ASSUME NEW k \in {"QFWRITE", "QHTTPURL"}
    PROVE  Keeps(k, No(<<Prompt, Data, Refusal>>)) /\ Keeps(k, Yes(<<Prompt, Data, Okay>>))
<1>1. Says(Prompt, {"CONNECT"}) /\ Says(Refusal, {"ERROR"}) /\ Says(Okay, {"OK"})
  BY SaysWords
<1>2. {"CONNECT"} \cap Final(k) = {} /\ {"CONNECT", "ERROR"} \cap Pledges(k) = {} /\ k \in Fed
  BY DEF Final, Pledges, GetKinds, Fed
<1>3. ASSUME NEW c \in {Refusal, Okay}, NEW g, NEW W, Says(c, W), "CONNECT" \notin W, W \cap Pledges(k) # {} => g
      PROVE  Rests(k, <<Prompt, Data, c>>, g) /\ \A m \in 1..Len(<<Prompt, Data, c>>) : Whole(<<Prompt, Data, c>>[m])
  <2> DEFINE V == {"CONNECT"}
             U == {}
  <2>1. /\ "CONNECT" \notin U \cup W /\ (V \cup U) \cap Final(k) = {}
        /\ ((V \cup U \cup W) \cap Pledges(k) # {} => g) /\ V \cap Pledges(k) = {}
        /\ Says(Prompt, V) /\ Says(c, W)
    BY <1>1, <1>2, <1>3
  <2>2. Lined(k, Prompt, g) /\ Lined(k, Data, g) /\ Lined(k, c, g)
    BY LinedWords
  <2> HIDE DEF V
  <2> QED BY <1>2, <2>1, <2>2, ThreeRests
<1>4. Rests(k, <<Prompt, Data, Refusal>>, FALSE) /\ \A m \in 1..Len(<<Prompt, Data, Refusal>>) : Whole(<<Prompt, Data, Refusal>>[m])
  <2>1. "CONNECT" \notin {"ERROR"} /\ ({"ERROR"} \cap Pledges(k) # {} => FALSE)
    BY <1>2
  <2> QED BY <1>1, <1>3, <2>1
<1>5. Rests(k, <<Prompt, Data, Okay>>, TRUE) /\ \A m \in 1..Len(<<Prompt, Data, Okay>>) : Whole(<<Prompt, Data, Okay>>[m])
  <2>1. "CONNECT" \notin {"OK"}
    OBVIOUS
  <2> QED BY <1>1, <1>3, <2>1
<1> QED BY <1>4, <1>5, YesNo DEF Keeps

LEMMA FileKeeps == Keeps("QFREAD", Yes(<<Prompt, Items(1), Okay>>))
<1> DEFINE k == "QFREAD"
           b == Items(1)
<1>1. Says(Prompt, {"CONNECT"}) /\ Says(b, {}) /\ Says(Okay, {"OK"}) /\ Lined(k, b, TRUE)
  <2>1. Says(b, {})
    <3>1. 1 \in Nat \ {0}
      OBVIOUS
    <3> QED BY <3>1, SaysItems
  <2> HIDE DEF b
  <2>2. Lined(k, b, TRUE)
    BY <2>1, LinedPlain DEF Says
  <2> QED BY <2>1, <2>2, SaysWords
<1>2. Final(k) = {"ERROR", "OK"} /\ k \in Fed /\ b # Data
  BY <1>1 DEF Final, GetKinds, Fed, Says
<1> HIDE DEF b
<1>3. Rests(k, <<Prompt, b, Okay>>, TRUE) /\ \A m \in 1..Len(<<Prompt, b, Okay>>) : Whole(<<Prompt, b, Okay>>[m])
  <2> DEFINE V == {"CONNECT"}
             U == {}
             W == {"OK"}
  <2>1. "CONNECT" \notin U \cup W /\ (V \cup U) \cap Final(k) = {} /\ Says(Prompt, V) /\ Says(Okay, W)
    BY <1>1, <1>2
  <2> HIDE DEF V, W
  <2> QED BY <1>1, <1>2, <2>1, ThreeRests, LinedWords
<1> QED BY <1>3, YesNo DEF Keeps, b

LEMMA PageKeeps ==
    ASSUME NEW d, NEW g, Says(d, {"QHTTPREAD"}), Lined("QHTTPREAD", d, g)
    PROVE  LET R == <<Prompt, Items(1), Okay, d>> IN Rests("QHTTPREAD", R, g) /\ (\A m \in 1..Len(R) : Whole(R[m])) /\ Promised(R)
<1> DEFINE k == "QHTTPREAD"
           b == Items(1)
           R == <<Prompt, b, Okay, d>>
<1>1. Says(Prompt, {"CONNECT"}) /\ Says(b, {}) /\ Says(Okay, {"OK"}) /\ Lined(k, b, g)
  <2>1. Says(b, {})
    <3>1. 1 \in Nat \ {0}
      OBVIOUS
    <3> QED BY <3>1, SaysItems
  <2> HIDE DEF b
  <2>2. Lined(k, b, g)
    BY <2>1, LinedPlain DEF Says
  <2> QED BY <2>1, <2>2, SaysWords
<1>2. Final(k) = {"ERROR", "QHTTPREAD"} /\ Pledges(k) = {} /\ k \in Fed /\ b # Data
  BY <1>1 DEF Final, Pledges, GetKinds, Fed, Says
<1> HIDE DEF b
<1>3. Rests(k, R, g) /\ \A m \in 1..Len(R) : Whole(R[m])
  <2> DEFINE V == {"CONNECT"}
             U == {}
             X == {"OK"}
             W == {"QHTTPREAD"}
  <2>1. /\ "CONNECT" \notin U \cup X \cup W /\ (V \cup U \cup X) \cap Final(k) = {}
        /\ ~((V \cup U \cup X \cup W) \cap Pledges(k) # {})
        /\ Says(Prompt, V) /\ Says(Okay, X) /\ Says(d, W)
    BY <1>1, <1>2
  <2> HIDE DEF V, X, W
  <2> QED BY <1>1, <1>2, <2>1, FourRests, LinedWords
<1>4. Promised(R)
  <2>1. /\ Len(R) = 4 /\ R[1] = Prompt /\ R[2] = b /\ R[3] = Okay /\ R[4] = d
    OBVIOUS
  <2> HIDE DEF R
  <2>2. {"OK"} \in SUBSET Words /\ {"CONNECT"} \in SUBSET Words
    BY DEF Words, PieceKinds
  <2>3. Tells(Prompt, {"CONNECT"}) /\ ~Tells(Prompt, {"OK"}) /\ ~Tells(b, {"OK"})
    BY <1>1, <2>2, TellsWords DEF Says
  <2>4. ASSUME NEW m \in 1..Len(R), Tells(R[m], {"OK"}) PROVE \E n \in 1..(m - 1) : Tells(R[n], {"CONNECT"})
    <3>1. m \in 1..4 /\ m # 1
      BY <2>1, <2>3, <2>4
    <3>2. 1 \in 1..(m - 1)
      BY <3>1
    <3> QED BY <2>1, <2>3, <3>2
  <2> QED BY <2>4 DEF Promised
<1> QED BY <1>3, <1>4 DEF b

LEMMA PageLines ==
    /\ Lined("QHTTPREAD", Line(<<"eol", "QHTTPREAD", "tok", "eol">>), TRUE) /\ Says(Line(<<"eol", "QHTTPREAD", "tok", "eol">>), {"QHTTPREAD"})
    /\ Lined("QHTTPREAD", Outcome("QHTTPREAD", 3, 0), FALSE) /\ Says(Outcome("QHTTPREAD", 3, 0), {"QHTTPREAD"})
<1>1. ASSUME NEW x, NEW g, Len(x) = 4, x[1].k = "eol", x[3].k = "tok", x[4].k = "eol", x[3].v = 0 => g
      PROVE  Lined("QHTTPREAD", x, g)
  <2>1. \A j \in 1..Len(x) : x[j].k = "QHTTPREAD" => j = 2
    BY <1>1
  <2> QED BY <1>1, <2>1 DEF Lined, LineOf, GetKinds
<1> DEFINE a == Line(<<"eol", "QHTTPREAD", "tok", "eol">>)
           b == Outcome("QHTTPREAD", 3, 0)
<1>2. Says(a, {"QHTTPREAD"}) /\ Len(a) = 4 /\ a[1].k = "eol" /\ a[3].k = "tok" /\ a[4].k = "eol"
  BY SaysOne
<1>3. Says(b, {"QHTTPREAD"}) /\ Len(b) = 4 /\ b[1].k = "eol" /\ b[3].k = "tok" /\ b[4].k = "eol" /\ b[3].v = 3
  <2>1. 3 \in Int /\ 0 \in Int /\ 3 # 0
    OBVIOUS
  <2> HIDE DEF b
  <2> QED BY <2>1, SaysOutcome DEF b
<1> HIDE DEF a, b
<1>4. Lined("QHTTPREAD", a, TRUE)
  BY <1>1, <1>2
<1>5. Lined("QHTTPREAD", b, FALSE)
  <2>1. b[3].v = 0 => FALSE
    BY <1>3
  <2> QED BY <1>1, <1>3, <2>1
<1> QED BY <1>2, <1>3, <1>4, <1>5 DEF a, b

(* The status of a request. *)
LEMMA StatusLines ==
    ASSUME NEW k \in GetKinds, NEW err \in Int, NEW status \in Int, NEW g, err = 0 /\ status = 200 => g
    PROVE  Lined(k, Outcome("QHTTPGET", err, status), g) /\ Says(Outcome("QHTTPGET", err, status), {"QHTTPGET"})
<1> DEFINE x == Outcome("QHTTPGET", err, status)
<1>1. /\ Says(x, {"QHTTPGET"}) /\ x[1].k = "eol" /\ x[2].k = "QHTTPGET" /\ x[3].k = "tok" /\ x[3].v = err
      /\ err = 0 => Len(x) = 6 /\ x[4].k = "dlm" /\ x[5].k = "tok" /\ x[5].v = status /\ x[6].k = "eol"
      /\ err # 0 => Len(x) = 4 /\ x[4].k = "eol"
  <2> HIDE DEF x
  <2> QED BY SaysOutcome DEF x
<1> HIDE DEF x
<1>2. \A j \in 1..Len(x) : x[j].k = "QHTTPGET" => j = 2
  <2>1. CASE err = 0
    <3>1. \A j \in 1..6 : j = 1 \/ j = 2 \/ j = 3 \/ j = 4 \/ j = 5 \/ j = 6
      OBVIOUS
    <3> QED BY <1>1, <2>1, <3>1
  <2>2. CASE err # 0
    <3>1. \A j \in 1..4 : j = 1 \/ j = 2 \/ j = 3 \/ j = 4
      OBVIOUS
    <3> QED BY <1>1, <2>2, <3>1
  <2> QED BY <2>1, <2>2
<1>3. Status(x, 2, g)
  BY <1>1 DEF Status
<1>4. \A j \in 1..Len(x) : Status(x, j, g)
  BY <1>2, <1>3 DEF Status
<1>5. k # "QHTTPREAD" /\ k # "QHTTPURL"
  BY DEF GetKinds
<1> QED BY <1>1, <1>4, <1>5 DEF Lined, LineOf, x

LEMMA GetKeeps ==
    ASSUME NEW k \in GetKinds, NEW err \in Int, NEW status \in Int,
           NEW first, k = "QHTTPGET" => first = <<Okay>>, k # "QHTTPGET" => first = <<Prompt, Data, Okay>>
    PROVE  LET R == Append(first, Outcome("QHTTPGET", err, status))
           IN  /\ Rests(k, R, TRUE) /\ \A m \in 1..Len(R) : Whole(R[m])
               /\ err # 0 \/ status # 200 => Rests(k, R, FALSE)
<1> DEFINE o == Outcome("QHTTPGET", err, status)
           R == Append(first, o)
           Set == IF err = 0 /\ status = 200 THEN {TRUE} ELSE BOOLEAN
<1>1. ASSUME NEW g \in Set PROVE Rests(k, R, g) /\ \A m \in 1..Len(R) : Whole(R[m])
  <2>1. Lined(k, o, g) /\ Says(o, {"QHTTPGET"})
    <3>1. err = 0 /\ status = 200 => g
      BY <1>1
    <3> QED BY <3>1, StatusLines
  <2> HIDE DEF o
  <2>2. /\ Says(Prompt, {"CONNECT"}) /\ Says(Okay, {"OK"}) /\ Final(k) = {"ERROR", "QHTTPGET"} /\ Pledges(k) = {}
        /\ Lined(k, Prompt, g) /\ Lined(k, Data, g) /\ Lined(k, Okay, g)
    <3>1. Final(k) = {"ERROR", "QHTTPGET"} /\ Pledges(k) = {}
      BY DEF Final, Pledges, GetKinds
    <3>2. Lined(k, Prompt, g) /\ Lined(k, Data, g) /\ Lined(k, Okay, g)
      BY LinedWords
    <3> QED BY <3>1, <3>2, SaysWords
  <2>3. CASE k = "QHTTPGET"
    <3>1. R = <<Okay, o>>
      BY <2>3, Append1
    <3>2. /\ "CONNECT" \notin {"OK"} \cup {"QHTTPGET"} /\ {"OK"} \cap Final(k) = {} /\ ~(({"OK"} \cup {"QHTTPGET"}) \cap Pledges(k) # {})
      BY <2>2
    <3>3. Rests(k, <<Okay, o>>, g) /\ \A m \in 1..Len(<<Okay, o>>) : Whole(<<Okay, o>>[m])
      BY <2>1, <2>2, <3>2, TwoRests
    <3> HIDE DEF R
    <3> QED BY <3>1, <3>3
  <2>4. CASE k # "QHTTPGET"
    <3>1. R = <<Prompt, Data, Okay, o>>
      BY <2>4, Append3
    <3>2. k \in Fed
      BY <2>4 DEF GetKinds, Fed
    <3>3. Rests(k, <<Prompt, Data, Okay, o>>, g) /\ \A m \in 1..Len(<<Prompt, Data, Okay, o>>) : Whole(<<Prompt, Data, Okay, o>>[m])
      <4> DEFINE V == {"CONNECT"}
                 U == {}
                 X == {"OK"}
                 W == {"QHTTPGET"}
      <4>1. /\ "CONNECT" \notin U \cup X \cup W /\ (V \cup U \cup X) \cap Final(k) = {}
            /\ ~((V \cup U \cup X \cup W) \cap Pledges(k) # {}) /\ V \cap Pledges(k) = {}
            /\ Says(Prompt, V) /\ Says(Okay, X) /\ Says(o, W)
        BY <2>1, <2>2
      <4> HIDE DEF V, X, W, R
      <4> QED BY <2>1, <2>2, <3>2, <4>1, FourRests
    <3> HIDE DEF R
    <3> QED BY <3>1, <3>3
  <2> QED BY <2>3, <2>4
<1> HIDE DEF R
<1>2. Rests(k, R, TRUE) /\ \A m \in 1..Len(R) : Whole(R[m])
  <2>1. TRUE \in Set
    OBVIOUS
  <2> HIDE DEF Set
  <2> QED BY <1>1, <2>1
<1>3. ASSUME err # 0 \/ status # 200 PROVE Rests(k, R, FALSE)
  <2>1. FALSE \in Set
    BY <1>3
  <2> HIDE DEF Set
  <2> QED BY <1>1, <2>1
<1> QED BY <1>2, <1>3 DEF R

LEMMA PostKeeps ==
    ASSUME NEW err \in Int, NEW status \in Int, NEW g
    PROVE  LET R == Append(<<Prompt, Data, Okay>>, Outcome("QHTTPPOST", err, status))
           IN  Rests("QHTTPPOST", R, g) /\ \A m \in 1..Len(R) : Whole(R[m])
<1> DEFINE o == Outcome("QHTTPPOST", err, status)
           k == "QHTTPPOST"
<1>1. Says(o, {"QHTTPPOST"})
  <2> HIDE DEF o
  <2> QED BY SaysOutcome DEF o
<1> HIDE DEF o
<1>2. /\ Says(Prompt, {"CONNECT"}) /\ Says(Okay, {"OK"}) /\ Final(k) = {"ERROR", "QHTTPPOST"} /\ Pledges(k) = {}
      /\ Lined(k, Prompt, g) /\ Lined(k, Data, g) /\ Lined(k, Okay, g) /\ Lined(k, o, g) /\ k \in Fed
  <2>1. Final(k) = {"ERROR", "QHTTPPOST"} /\ Pledges(k) = {} /\ k \in Fed
    BY DEF Final, Pledges, GetKinds, Fed
  <2>2. Lined(k, Prompt, g) /\ Lined(k, Data, g) /\ Lined(k, Okay, g)
    BY LinedWords
  <2>3. Lined(k, o, g)
    BY <1>1, LinedPlain DEF Says, GetKinds
  <2> QED BY <2>1, <2>2, <2>3, SaysWords
<1>3. Append(<<Prompt, Data, Okay>>, o) = <<Prompt, Data, Okay, o>>
  BY Append3
<1>4. Rests(k, <<Prompt, Data, Okay, o>>, g) /\ \A m \in 1..Len(<<Prompt, Data, Okay, o>>) : Whole(<<Prompt, Data, Okay, o>>[m])
  <2> DEFINE V == {"CONNECT"}
             U == {}
             X == {"OK"}
             W == {"QHTTPPOST"}
  <2>1. /\ "CONNECT" \notin U \cup X \cup W /\ (V \cup U \cup X) \cap Final(k) = {}
        /\ ~((V \cup U \cup X \cup W) \cap Pledges(k) # {}) /\ V \cap Pledges(k) = {}
        /\ Says(Prompt, V) /\ Says(Okay, X) /\ Says(o, W)
    BY <1>1, <1>2
  <2> HIDE DEF V, X, W
  <2> QED BY <1>1, <1>2, <2>1, FourRests
<1> QED BY <1>3, <1>4 DEF o

LEMMA RepliesKeep ==
    ASSUME NEW k \in Asked, NEW r \in Replies(k)
    PROVE  Keeps(k, r) /\ (k = "QHTTPREAD" => Promised(r.chunks))
<1>1. Keeps(k, No(<<Refusal>>)) /\ Promised(No(<<Refusal>>).chunks)
  <2>1. Keeps(k, No(<<Refusal>>))
    BY RefusedKeeps1
  <2>2. ~Tells(Refusal, {"OK"})
    <3>1. WordsOf(Refusal) = {"ERROR"} /\ {"OK"} \in SUBSET Words
      BY SaysWords DEF Says, Words, PieceKinds
    <3> QED BY <3>1, TellsWords
  <2> DEFINE R == <<Refusal>>
  <2>3. Len(R) = 1 /\ R[1] = Refusal
    OBVIOUS
  <2> HIDE DEF R
  <2>4. Promised(R)
    BY <2>2, <2>3 DEF Promised
  <2> QED BY <2>1, <2>4, YesNo DEF R
<1>2. CASE k \in {"QHTTPGET", "QHTTPGET+"}
  <2> DEFINE first == IF k = "QHTTPGET" THEN <<Okay>> ELSE <<Prompt, Data, Okay>>
  <2>1. r = No(<<Refusal>>) \/ r \in {Yes(Append(first, Outcome("QHTTPGET", 0, 200))), No(Append(first, Outcome("QHTTPGET", 0, 404))),
                                     No(Append(first, Outcome("QHTTPGET", 702, 0)))}
    BY <1>2 DEF Replies
  <2>2. k \in GetKinds /\ k # "QHTTPREAD" /\ 0 \in Int /\ 200 \in Int /\ 404 \in Int /\ 702 \in Int
    BY <1>2 DEF GetKinds
  <2>3. (k = "QHTTPGET" => first = <<Okay>>) /\ (k # "QHTTPGET" => first = <<Prompt, Data, Okay>>)
    OBVIOUS
  <2> HIDE DEF first
  <2>4. ASSUME NEW err \in Int, NEW status \in Int
        PROVE  /\ Keeps(k, Yes(Append(first, Outcome("QHTTPGET", err, status))))
               /\ err # 0 \/ status # 200 => Keeps(k, No(Append(first, Outcome("QHTTPGET", err, status))))
    <3> DEFINE R == Append(first, Outcome("QHTTPGET", err, status))
    <3>1. /\ Rests(k, R, TRUE) /\ \A m \in 1..Len(R) : Whole(R[m])
          /\ err # 0 \/ status # 200 => Rests(k, R, FALSE)
      BY <2>2, <2>3, GetKeeps
    <3> HIDE DEF R
    <3>2. Keeps(k, Yes(R)) /\ (err # 0 \/ status # 200 => Keeps(k, No(R)))
      BY <3>1, YesNo DEF Keeps
    <3> QED BY <3>2 DEF R
  <2>5. Keeps(k, Yes(Append(first, Outcome("QHTTPGET", 0, 200))))
    BY <2>2, <2>4
  <2>6. Keeps(k, No(Append(first, Outcome("QHTTPGET", 0, 404)))) /\ Keeps(k, No(Append(first, Outcome("QHTTPGET", 702, 0))))
    <3>1. 404 # 200 /\ 702 # 0
      OBVIOUS
    <3> QED BY <2>2, <2>4, <3>1
  <2> QED BY <1>1, <2>1, <2>2, <2>5, <2>6
<1>3. CASE k = "QHTTPPOST"
  <2> DEFINE first == <<Prompt, Data, Okay>>
  <2>1. r = No(<<Refusal>>) \/ r \in {Yes(Append(first, Outcome(k, 0, 200))), No(Append(first, Outcome(k, 0, 404))),
                                     No(Append(first, Outcome(k, 702, 0)))}
    BY <1>3 DEF Replies
  <2>2. 0 \in Int /\ 200 \in Int /\ 404 \in Int /\ 702 \in Int
    OBVIOUS
  <2>3. ASSUME NEW err \in Int, NEW status \in Int
        PROVE  Keeps(k, Yes(Append(first, Outcome(k, err, status)))) /\ Keeps(k, No(Append(first, Outcome(k, err, status))))
    <3> DEFINE R == Append(first, Outcome(k, err, status))
    <3>1. Rests(k, R, TRUE) /\ \A m \in 1..Len(R) : Whole(R[m])
      BY <1>3, PostKeeps
    <3>2. Rests(k, R, FALSE)
      BY <1>3, PostKeeps
    <3> HIDE DEF R
    <3>5. Keeps(k, Yes(R)) /\ Keeps(k, No(R))
      BY <3>1, <3>2, YesNo DEF Keeps
    <3> QED BY <3>5 DEF R
  <2> QED BY <1>1, <1>3, <2>1, <2>2, <2>3
<1>4. CASE k = "QHTTPREAD"
  <2> DEFINE a == Line(<<"eol", "QHTTPREAD", "tok", "eol">>)
             o == Outcome("QHTTPREAD", 3, 0)
  <2>1. r \in {No(<<Refusal>>), Yes(<<Prompt, Items(1), Okay, a>>), No(<<Prompt, Items(1), Okay, o>>)}
    BY <1>4 DEF Replies
  <2>2. Says(a, {"QHTTPREAD"}) /\ Says(o, {"QHTTPREAD"}) /\ Lined(k, a, TRUE) /\ Lined(k, o, FALSE)
    BY <1>4, PageLines
  <2> HIDE DEF a, o
  <2>3. Keeps(k, Yes(<<Prompt, Items(1), Okay, a>>)) /\ Promised(Yes(<<Prompt, Items(1), Okay, a>>).chunks)
    <3> DEFINE R == <<Prompt, Items(1), Okay, a>>
    <3>1. Rests(k, R, TRUE) /\ (\A m \in 1..Len(R) : Whole(R[m])) /\ Promised(R)
      BY <1>4, <2>2, PageKeeps
    <3> HIDE DEF R
    <3>5. Keeps(k, Yes(R))
      BY <3>1, YesNo DEF Keeps
    <3> QED BY <3>1, <3>5, YesNo DEF R
  <2>4. Keeps(k, No(<<Prompt, Items(1), Okay, o>>)) /\ Promised(No(<<Prompt, Items(1), Okay, o>>).chunks)
    <3> DEFINE R == <<Prompt, Items(1), Okay, o>>
    <3>1. Rests(k, R, FALSE) /\ (\A m \in 1..Len(R) : Whole(R[m])) /\ Promised(R)
      BY <1>4, <2>2, PageKeeps
    <3> HIDE DEF R
    <3>5. Keeps(k, No(R))
      BY <3>1, YesNo DEF Keeps
    <3> QED BY <3>1, <3>5, YesNo DEF R
  <2> QED BY <1>1, <2>1, <2>3, <2>4
<1>5. CASE k \notin {"QHTTPGET", "QHTTPGET+", "QHTTPPOST", "QHTTPREAD"}
  <2>1. Keeps(k, Yes(<<Okay>>))
    BY OkayKeeps
  <2>2. CASE k \in {"list", "COPS"}
    <3>1. r \in {No(<<Refusal>>), Yes(<<Items(1), Okay>>), Yes(<<Items(4), Okay>>)}
      BY <2>2 DEF Replies
    <3>2. ASSUME NEW n \in {1, 4} PROVE Keeps(k, Yes(<<Items(n), Okay>>))
      <4>1. Says(Items(n), {})
        BY SaysItems
      <4>2. {} \subseteq {"QADC", "QCFG", "ICCID", "QGPSLOC"} /\ k \in {"list", "COPS", "QADC", "QCFG", "ICCID", "QGPSLOC"}
        BY <2>2
      <4> QED BY <4>1, <4>2, LineKeeps
    <3> QED BY <1>1, <2>2, <3>1, <3>2
  <2>3. CASE k \in {"QADC", "QCFG"}
    <3>1. r \in {No(<<Refusal>>), Yes(<<Info(k), Okay>>)}
      BY <2>3 DEF Replies
    <3>2. Keeps(k, Yes(<<Info(k), Okay>>))
      <4>1. Says(Info(k), {k})
        BY <2>3, SaysInfo
      <4>2. {k} \subseteq {"QADC", "QCFG", "ICCID", "QGPSLOC"} /\ k \in {"list", "COPS", "QADC", "QCFG", "ICCID", "QGPSLOC"}
        BY <2>3
      <4> QED BY <4>1, <4>2, LineKeeps
    <3> QED BY <1>1, <2>3, <3>1, <3>2
  <2>4. CASE k = "QGPSLOC"
    <3>1. r \in {No(<<Refusal>>), Yes(Append(Position, Okay)), Yes(<<Position[1] \o Position[2], Okay>>)}
      BY <2>4 DEF Replies
    <3> QED BY <1>1, <2>4, <3>1, LocationKeeps
  <2>5. CASE k = "ICCID"
    <3>1. r \in {No(<<Refusal>>), Yes(<<Line(<<"eol", "ICCID", "item", "eol">>), Okay>>)}
      BY <2>5 DEF Replies
    <3>2. Keeps(k, Yes(<<Line(<<"eol", "ICCID", "item", "eol">>), Okay>>))
      <4> DEFINE a == Line(<<"eol", "ICCID", "item", "eol">>)
      <4>1. Says(a, {"ICCID"})
        BY SaysOne
      <4> HIDE DEF a
      <4>2. Keeps(k, Yes(<<a, Okay>>))
        BY <2>5, <4>1, LineKeeps
      <4> QED BY <4>2 DEF a
    <3> QED BY <1>1, <2>5, <3>1, <3>2
  <2>6. CASE k = "QIOPEN"
    <3>1. r \in {No(<<Refusal>>), Yes(<<Okay, Info("QIOPEN")>>), No(<<Okay, Outcome("QIOPEN", 0, 563)>>)}
      BY <2>6 DEF Replies
    <3>2. Says(Info("QIOPEN"), {"QIOPEN"})
      BY SaysInfo
    <3>3. Says(Outcome("QIOPEN", 0, 563), {"QIOPEN"})
      <4>1. 0 \in Int /\ 563 \in Int
        OBVIOUS
      <4> QED BY <4>1, SaysOutcome
    <3> QED BY <1>1, <2>6, <3>1, <3>2, <3>3, OpenKeeps
  <2>7. CASE k = "QFWRITE"
    <3>1. r \in {No(<<Refusal>>), Yes(<<Prompt, Data, Info("QFWRITE"), Okay>>), No(<<Prompt, Data, Refusal>>)}
      BY <2>7 DEF Replies
    <3> QED BY <1>1, <2>7, <3>1, WriteKeeps, FeedKeeps
  <2>8. CASE k = "QFREAD"
    <3>1. r \in {No(<<Refusal>>), Yes(<<Prompt, Items(1), Okay>>)}
      BY <2>8 DEF Replies
    <3> QED BY <1>1, <2>8, <3>1, FileKeeps
  <2>9. CASE k = "QHTTPURL"
    <3>1. r \in {No(<<Refusal>>), Yes(<<Prompt, Data, Okay>>), No(<<Prompt, Data, Refusal>>)}
      BY <2>9 DEF Replies
    <3> QED BY <1>1, <2>9, <3>1, FeedKeeps
  <2>10. CASE k \in {"plain", "GSN", "QGMR", "ATI", "again"}
    <3>1. r \in {No(<<Refusal>>), Yes(<<Okay>>)}
      BY <2>10 DEF Replies
    <3> QED BY <1>1, <2>1, <2>10, <3>1
  <2> QED BY <1>5, <2>2, <2>3, <2>4, <2>5, <2>6, <2>7, <2>8, <2>9, <2>10 DEF Asked
<1> QED BY <1>2, <1>3, <1>4, <1>5

-----------------------------------------------------------------------------
(* A step of one task leaves the others where they are. *)
Stays(u) ==
    /\ pc'[u] = pc[u] /\ call'[u] = call[u] /\ step'[u] = step[u] /\ rslt'[u] = rslt[u] /\ mine'[u] = mine[u]
    /\ Script(u)' = Script(u) /\ (disturbed[u] => disturbed'[u])

LEMMA OnlyOne ==
    ASSUME Types, Numbers, NEW t \in Tasks,
           pc' = pc \/ \E l : Goto(t, l), call' = call \/ \E n : call' = [call EXCEPT ![t] = n],
           step' = step \/ \E n : step' = [step EXCEPT ![t] = n], rslt' = rslt \/ \E r : rslt' = [rslt EXCEPT ![t] = r],
           mine' = mine \/ \E s : mine' = [mine EXCEPT ![t] = s],
           NEW u \in Tasks \ {t}, http' = http \/ (call[u] \in Requests => Setup(http') = Setup(http)),
           disturbed[u] => disturbed'[u]
    PROVE  Stays(u)
<1>1. pc'[u] = pc[u]
  BY DEF Types, Goto
<1>2. call'[u] = call[u]
  BY DEF Types
<1>3. step'[u] = step[u] /\ rslt'[u] = rslt[u]
  BY DEF Types
<1>4. mine'[u] = mine[u]
  BY DEF Numbers
<1>5. Script(u)' = Script(u)
  <2>1. Script(u) = ScriptOf(call[u], http) /\ Script(u)' = ScriptOf(call[u], http')
    BY <1>2 DEF Script, ScriptOf
  <2>2. call[u] \in Requests => Setup(http') = Setup(http)
    OBVIOUS
  <2>3. ScriptOf(call[u], http') = ScriptOf(call[u], http)
    BY <2>2, ScriptSame
  <2> QED BY <2>1, <2>3
<1> QED BY <1>1, <1>2, <1>3, <1>4, <1>5 DEF Stays

LEMMA OthersStay ==
    ASSUME LockInv, Numbers, NEW t \in Tasks, NEW u \in Tasks \ {t}, Caller(t)
    PROVE  Stays(u)
<1> USE DEF LockInv
<1>1. ASSUME NEW n, Call(t, n) PROVE Stays(u)
  <2>1. /\ call' = [call EXCEPT ![t] = n] /\ Goto(t, "next") /\ UNCHANGED <<step, rslt, mine, disturbed>>
        /\ (call[u] \in Requests => http' = http)
    BY <1>1 DEF Call
  <2> QED BY <2>1, OnlyOne
<1>2. CASE TryInvoke(t) \/ TakeLock(t) \/ InvokeReuseLock(t)
  <2>1. SendCommand(t) /\ OthersYield(t)
    BY <1>2, RunsAlone DEF TryInvoke, TakeLock, InvokeReuseLock
  <2>2. Goto(t, "read") /\ StartToRead(t) /\ mine' = [mine EXCEPT ![t] = @ \cup {cmds + 1}] /\ UNCHANGED <<http, call, step, rslt>>
    BY <2>1 DEF SendCommand, StartToRead
  <2>3. disturbed[u] => disturbed'[u]
    BY <2>1, <2>2, ReadStarts
  <2> QED BY <2>2, <2>3, OnlyOne
<1>3. CASE SkipKnown(t)
  <2>1. Advance(t) /\ UNCHANGED <<http, call, rslt, mine, disturbed>>
    BY <1>3 DEF SkipKnown
  <2>2. (\E l : Goto(t, l)) /\ \E n : step' = [step EXCEPT ![t] = n]
    BY <2>1 DEF Advance
  <2> QED BY <2>1, <2>2, OnlyOne
<1>4. CASE WaitForLock(t)
  <2>1. Goto(t, "lock") /\ UNCHANGED <<http, call, step, rslt, mine, disturbed>>
    BY <1>4 DEF WaitForLock, histVars
  <2> QED BY <2>1, OnlyOne
<1>5. CASE ReuseLockAssert(t) \/ StreamAssert(t)
  <2>1. UNCHANGED <<pc, http, call, step, rslt, mine, disturbed>>
    BY <1>5 DEF ReuseLockAssert, StreamAssert, histVars, callVars
  <2> QED BY <2>1, OnlyOne
<1>6. CASE AwaitAgain(t)
  <2>1. OthersYield(t) /\ StartToRead(t) /\ Goto(t, "read") /\ UNCHANGED <<http, call, step, rslt, mine>>
    BY <1>6, RunsAlone DEF AwaitAgain, StartToRead
  <2>2. disturbed[u] => disturbed'[u]
    BY <2>1, ReadStarts
  <2> QED BY <2>1, <2>2, OnlyOne
<1>7. CASE Refused(t)
  <2>1. OthersYield(t) /\ UNCHANGED <<http, call, mine>>
    BY <1>7, RunsAlone DEF Refused
  <2>2. \/ StartToRead(t) /\ Goto(t, "read") /\ UNCHANGED <<step, rslt>>
        \/ rslt' = [rslt EXCEPT ![t] = "success"] /\ Advance(t) /\ UNCHANGED disturbed
        \/ Goto(t, "return") /\ UNCHANGED <<step, rslt, disturbed>>
    BY <1>7 DEF Refused, StartToRead, Finish
  <2>3. disturbed[u] => disturbed'[u]
    BY <2>1, <2>2, ReadStarts
  <2>4. /\ pc' = pc \/ \E l : Goto(t, l)
        /\ step' = step \/ \E n : step' = [step EXCEPT ![t] = n]
        /\ rslt' = rslt \/ \E r : rslt' = [rslt EXCEPT ![t] = r]
    BY <2>2 DEF Advance
  <2> QED BY <2>1, <2>3, <2>4, OnlyOne
<1>8. CASE ReadNothing(t) \/ ReadResult(t) \/ DataSent(t) \/ DataTimeout(t) \/ FileStreamed(t) \/ PageStreamed(t)
  <2>1. ReadFrame /\ (UNCHANGED <<rslt, pc>> \/ \E r, c : Conclude(t, r, c))
    BY <1>8 DEF ReadNothing, ReadResult, DataSent, DataTimeout, FileStreamed, PageStreamed, HandlerEnds, Parse, Settle
  <2>2. UNCHANGED <<http, call, step, mine, disturbed>>
    BY <2>1 DEF ReadFrame
  <2>3. /\ pc' = pc \/ \E l : Goto(t, l)
        /\ rslt' = rslt \/ \E r : rslt' = [rslt EXCEPT ![t] = r]
    BY <2>1 DEF Conclude
  <2> QED BY <2>2, <2>3, OnlyOne
<1>9. CASE EnterDataMode(t)
  <2>1. (\E l : Goto(t, l)) /\ UNCHANGED <<http, call, step, rslt, mine, disturbed>>
    BY <1>9 DEF EnterDataMode, ReadFrame
  <2> QED BY <2>1, OnlyOne
<1>10. CASE ReadAgain(t)
  <2>1. Goto(t, "read") /\ UNCHANGED <<http, call, step, rslt, mine, disturbed>>
    BY <1>10 DEF ReadAgain, histVars
  <2> QED BY <2>1, OnlyOne
<1>11. CASE AwaitReturns(t)
  <2>1. rslt' = [rslt EXCEPT ![t] = resultCode] /\ UNCHANGED <<http, call, mine, disturbed>>
    BY <1>11 DEF AwaitReturns
  <2>3. Advance(t) \/ (Goto(t, "end") /\ UNCHANGED step)
    BY <1>11 DEF AwaitReturns
  <2>2. (\E l : Goto(t, l)) /\ (step' = step \/ \E n : step' = [step EXCEPT ![t] = n])
    BY <2>3 DEF Advance
  <2> QED BY <2>1, <2>2, OnlyOne
<1>12. CASE EndCall(t)
  <2>1. Goto(t, "return") /\ UNCHANGED <<call, step, rslt, mine, disturbed>>
    BY <1>12 DEF EndCall, Finish
  <2>2. Setup(http') = Setup(http)
    BY <1>12 DEF EndCall, Setup, Types, Settings
  <2> QED BY <2>1, <2>2, OnlyOne
<1>13. CASE Return(t)
  <2>1. /\ Goto(t, "idle") /\ call' = [call EXCEPT ![t] = "file_close"] /\ step' = [step EXCEPT ![t] = 1]
        /\ rslt' = [rslt EXCEPT ![t] = "none"] /\ mine' = [mine EXCEPT ![t] = {}] /\ http' = http
    BY <1>13 DEF Return
  <2>2. disturbed[u] => disturbed'[u]
    BY <1>13 DEF Return, Types
  <2> QED BY <2>1, <2>2, OnlyOne
<1> QED BY <1>1, <1>2, <1>3, <1>4, <1>5, <1>6, <1>7, <1>8, <1>9, <1>10, <1>11, <1>12, <1>13 DEF Caller

(* These steps read and send nothing. *)
Still == UNCHANGED <<rawResponse, rxBffr, dataMode, inbox, out, good, answered, loose, cmds, mine, got, resultCode, retValue>>
Idles(t) ==
    \/ \E n \in CallsOf[t] : Call(t, n)
    \/ SkipKnown(t) \/ WaitForLock(t) \/ ReuseLockAssert(t) \/ Refused(t) \/ ReadAgain(t) \/ AwaitReturns(t) \/ EndCall(t) \/ StreamAssert(t)

LEMMA IdlesStill == ASSUME NEW t \in Tasks, Idles(t) PROVE Still
<1> USE DEF Still
<1>1. ASSUME NEW n, Call(t, n) PROVE Still
  BY <1>1 DEF Call, cmdVars, modVars
<1>2. CASE SkipKnown(t)
  BY <1>2 DEF SkipKnown, modVars
<1>3. CASE WaitForLock(t)
  BY <1>3 DEF WaitForLock, cmdVars, modVars, histVars
<1>4. CASE ReuseLockAssert(t)
  BY <1>4 DEF ReuseLockAssert, cmdVars, modVars, histVars
<1>5. CASE Refused(t)
  BY <1>5 DEF Refused, modVars
<1>6. CASE ReadAgain(t)
  BY <1>6 DEF ReadAgain, cmdVars, modVars, histVars
<1>7. CASE AwaitReturns(t)
  BY <1>7 DEF AwaitReturns, modVars
<1>8. CASE EndCall(t)
  BY <1>8 DEF EndCall, modVars
<1>9. CASE StreamAssert(t)
  BY <1>9 DEF StreamAssert, cmdVars, modVars, histVars
<1> HIDE DEF Still
<1> QED BY <1>1, <1>2, <1>3, <1>4, <1>5, <1>6, <1>7, <1>8, <1>9 DEF Idles

-----------------------------------------------------------------------------
(* Where a step takes its task. *)
LEMMA AdvanceIs ==
    ASSUME LockInv, NEW t \in Tasks, Advance(t), UNCHANGED <<call, http>>
    PROVE  /\ pc'[t] \in {"next", "end"} /\ step'[t] = step[t] + 1 /\ step'[t] # 1 /\ step[t] \in Nat \ {0}
           /\ pc'[t] = "next" <=> step[t] < Len(Script(t).cmds)
           /\ Script(t)' = Script(t) /\ Len(Script(t).cmds) \in Nat
<1>1. PICK l \in {"next", "end"} :
              /\ Goto(t, l) /\ pc'[t] = l
              /\ step'[t] = step[t] + 1
              /\ l = "next" <=> step[t] < Len(Script(t).cmds)
  BY Advances
<1>2. step[t] \in Nat \ {0} /\ Len(Script(t).cmds) \in Nat
  BY ScriptOfTask DEF LockInv, Types, Fit
<1>3. step'[t] # 1
  BY <1>1, <1>2
<1> QED BY <1>1, <1>2, <1>3, SameScripts

LEMMA ConcludeGoes ==
    ASSUME LockInv, NEW t \in Tasks, NEW r, NEW c, Conclude(t, r, c)
    PROVE  pc'[t] = "yield" /\ rslt'[t] = r
BY DEF Conclude, Goto, LockInv, Types

Reads(t) == ReadNothing(t) \/ ReadResult(t) \/ DataSent(t) \/ DataTimeout(t) \/ FileStreamed(t) \/ PageStreamed(t)

LEMMA ReadsGo ==
    ASSUME LockInv, NEW t \in Tasks, Reads(t)
    PROVE  /\ pc[t] \in {"read", "data", "stream"} /\ asserted = "none" /\ ReadFrame /\ UNCHANGED <<cmds, mine, disturbed>>
           /\ \/ UNCHANGED <<isOpenLocked, resultCode, rslt, got, loose, pc>> /\ asserted' # "none"
              \/ pc'[t] = "yield" /\ \E r, c : Conclude(t, r, c)
<1>1. pc[t] \in {"read", "data", "stream"} /\ asserted = "none"
  BY RunsAlone DEF Reads, ReadNothing, ReadResult, DataSent, DataTimeout, FileStreamed, PageStreamed
<1>2. ReadFrame /\ \/ UNCHANGED <<isOpenLocked, resultCode, rslt, got, loose, pc>> /\ asserted' # "none"
                   \/ \E r, c : Conclude(t, r, c)
  <2>1. ASSUME NEW x, Parse(t, x)
        PROVE  \/ UNCHANGED <<isOpenLocked, resultCode, rslt, got, loose, pc>> /\ asserted' # "none"
               \/ \E r, c : Conclude(t, r, c)
    <3>1. \/ UNCHANGED <<isOpenLocked, resultCode, rslt, got, loose, pc>> /\ asserted' \in {"respBufferSz", "pDelimeters"}
          \/ Settle(t, rawResponse \o x, TRUE)
      BY <2>1 DEF Parse
    <3>2. Settle(t, rawResponse \o x, TRUE) => \E r, c : Conclude(t, r, c)
      BY DEF Settle
    <3> QED BY <3>1, <3>2
  <2>2. ASSUME NEW s, NEW c, NEW left, HandlerEnds(t, s, c, left)
        PROVE  ReadFrame /\ \/ UNCHANGED <<isOpenLocked, resultCode, rslt, got, loose, pc>> /\ asserted' # "none"
                            \/ \E r, d : Conclude(t, r, d)
    <3>1. ReadFrame /\ \/ Parse(t, left)
                       \/ Conclude(t, "success", c)
                       \/ UNCHANGED <<isOpenLocked, resultCode, rslt, got, loose, pc>> /\ asserted' = "respBufferSz"
      BY <2>2 DEF HandlerEnds
    <3> QED BY <2>1, <3>1
  <2>3. CASE ReadNothing(t)
    BY <2>3 DEF ReadNothing, Settle
  <2>4. CASE ReadResult(t)
    BY <2>1, <2>4 DEF ReadResult
  <2>5. CASE DataSent(t) \/ DataTimeout(t) \/ FileStreamed(t) \/ PageStreamed(t)
    <3>1. \E s, c, left : HandlerEnds(t, s, c, left)
      BY <2>5 DEF DataSent, DataTimeout, FileStreamed, PageStreamed
    <3> QED BY <2>2, <3>1
  <2> QED BY <2>3, <2>4, <2>5 DEF Reads
<1>3. UNCHANGED <<cmds, mine, disturbed>>
  BY <1>2 DEF ReadFrame
<1> QED BY <1>1, <1>2, <1>3, ConcludeGoes

(* Only what sends a command or ends a call changes whose commands are     *)
(* whose, and only a beginning is begun again.                             *)
LEMMA IdlesBegin == ASSUME LockInv, NEW t \in Tasks, Idles(t), Beginning(t)' PROVE Beginning(t)
<1>1. ASSUME NEW n, Call(t, n) PROVE Beginning(t)
  BY <1>1, RunsAlone DEF Call, Beginning
<1>2. CASE SkipKnown(t)
  <2>1. Advance(t) /\ UNCHANGED <<call, http>>
    BY <1>2 DEF SkipKnown
  <2> QED BY <2>1, AdvanceIs DEF Beginning
<1>3. CASE WaitForLock(t)
  BY <1>3, RunsAlone DEF WaitForLock, Beginning
<1>4. CASE ReuseLockAssert(t) \/ StreamAssert(t)
  <2>1. UNCHANGED <<pc, step>>
    BY <1>4 DEF ReuseLockAssert, StreamAssert, callVars
  <2> QED BY <2>1 DEF Beginning
<1>5. CASE Refused(t)
  <2>1. Advance(t) /\ UNCHANGED <<call, http>> => FALSE
    BY AdvanceIs DEF Beginning
  <2>2. Goto(t, "read") \/ Goto(t, "return") \/ Advance(t)
    BY <1>5 DEF Refused, StartToRead, Finish
  <2>3. UNCHANGED <<call, http>>
    BY <1>5 DEF Refused
  <2> QED BY <2>1, <2>2, <2>3, GoesTo DEF Beginning
<1>6. CASE ReadAgain(t) \/ EndCall(t)
  <2>1. Goto(t, "read") \/ Goto(t, "return")
    BY <1>6 DEF ReadAgain, EndCall, Finish
  <2> QED BY <2>1, GoesTo DEF Beginning
<1>7. CASE AwaitReturns(t)
  <2>1. Advance(t) /\ UNCHANGED <<call, http>> => FALSE
    BY AdvanceIs DEF Beginning
  <2>2. (Advance(t) \/ Goto(t, "end")) /\ UNCHANGED <<call, http>>
    BY <1>7 DEF AwaitReturns
  <2> QED BY <2>1, <2>2, GoesTo DEF Beginning
<1> QED BY <1>1, <1>2, <1>3, <1>4, <1>5, <1>6, <1>7 DEF Idles

LEMMA NewCurrent ==
    ASSUME Numbers, NEW t \in Tasks, mine' = [mine EXCEPT ![t] = @ \cup {cmds + 1}]
    PROVE  Current(t)' = cmds + 1
<1> DEFINE S == mine[t] \cup {cmds + 1}
<1>1. mine'[t] = S /\ S # {} /\ S \in SUBSET (1..(cmds + 1)) /\ cmds \in Nat
  BY DEF Numbers
<1>2. mine[t] \in SUBSET (1..cmds)
  BY DEF Numbers
<1> HIDE DEF S
<1>3. Max(S) \in S /\ \A n \in S : n <= Max(S)
  <2>1. cmds + 1 \in Nat
    BY <1>1
  <2> QED BY <1>1, <2>1, MaxGreatest
<1>4. cmds + 1 \in S
  BY DEF S
<1>5. Max(S) \in 1..(cmds + 1) /\ cmds + 1 <= Max(S)
  BY <1>1, <1>3, <1>4
<1>6. Max(S) = cmds + 1
  BY <1>1, <1>5
<1> QED BY <1>1, <1>6 DEF Current

-----------------------------------------------------------------------------
(* What a caller does, in kinds. *)
Sending(t) == TryInvoke(t) \/ TakeLock(t) \/ InvokeReuseLock(t)

LEMMA CallerKinds ==
    ASSUME NEW t, Caller(t)
    PROVE  Idles(t) \/ Sending(t) \/ AwaitAgain(t) \/ Reads(t) \/ EnterDataMode(t) \/ Return(t)
BY DEF Caller, Idles, Sending, Reads

LEMMA AnyAt == ASSUME NEW t, Caller(t) PROVE asserted = "none"
BY RunsAlone DEF Caller, Call, TryInvoke, TakeLock, SkipKnown, WaitForLock, InvokeReuseLock, ReuseLockAssert, AwaitAgain,
   Refused, ReadNothing, ReadResult, EnterDataMode, DataSent, DataTimeout, FileStreamed, PageStreamed, ReadAgain,
   AwaitReturns, EndCall, StreamAssert, Return, At

LEMMA IdlesParser == ASSUME NEW t \in Tasks, Idles(t) PROVE parser' = parser \/ AwaitReturns(t) \/ (Refused(t) /\ StartToRead(t))
<1>1. ASSUME NEW n, Call(t, n) PROVE parser' = parser
  BY <1>1 DEF Call, cmdVars
<1>2. SkipKnown(t) \/ EndCall(t) => parser' = parser
  BY DEF SkipKnown, EndCall
<1>3. WaitForLock(t) \/ ReuseLockAssert(t) \/ ReadAgain(t) \/ StreamAssert(t) => parser' = parser
  BY DEF WaitForLock, ReuseLockAssert, ReadAgain, StreamAssert, cmdVars
<1>4. Refused(t) => parser' = parser \/ StartToRead(t)
  BY DEF Refused
<1> QED BY <1>1, <1>2, <1>3, <1>4 DEF Idles

LEMMA SendingIs ==
    ASSUME LockInv, NEW t \in Tasks, Sending(t)
    PROVE  SendCommand(t) /\ StartToRead(t) /\ OthersYield(t) /\ pc[t] \in {"next", "lock"} /\ step[t] <= Len(Script(t).cmds)
<1>1. SendCommand(t) /\ pc[t] \in {"next", "lock"} /\ step[t] <= Len(Script(t).cmds)
  BY Sends DEF Sending
<1>2. OthersYield(t)
  BY RunsAlone DEF Sending, TryInvoke, TakeLock, InvokeReuseLock
<1> QED BY <1>1, <1>2 DEF SendCommand

(* A task that is not disturbed sees nothing of what the others do. *)
LEMMA OtherStill ==
    ASSUME LockInv, Numbers, OwnInv, NEW t \in Tasks, NEW u \in Tasks \ {t}, Caller(t), Alone(u)'
    PROVE  /\ pc[u] \in {"yield", "data"} /\ Alone(u) /\ Stays(u) /\ asserted = "none"
           /\ UNCHANGED <<rawResponse, rxBffr, dataMode, inbox, out, good, answered, loose, cmds, resultCode, retValue, parser>>
           /\ Current(u)' = Current(u) /\ Command(u)' = Command(u)
           /\ \A c \in mine[u] : got'[c] = got[c]
<1>1. Stays(u) /\ Alone(u)
  BY OthersStay DEF Stays, Alone
<1>2. ~Beginning(u)
  BY <1>1 DEF OwnInv, Alone
<1>3. OthersYield(t) => pc[u] \in {"yield", "data"}
  BY <1>2 DEF OthersYield, YieldPoints, Beginning
<1>4. ~Awaits(t) \/ ~Awaits(u)
  BY <1>1 DEF Alone, LockInv, Apart
<1>5. OthersYield(t)
  BY RunsAlone DEF Caller, Call, TryInvoke, TakeLock, SkipKnown, WaitForLock, InvokeReuseLock, ReuseLockAssert, AwaitAgain,
     Refused, ReadNothing, ReadResult, EnterDataMode, DataSent, DataTimeout, FileStreamed, PageStreamed, ReadAgain,
     AwaitReturns, EndCall, StreamAssert, Return
<1>6. pc[u] \in {"yield", "data"} /\ Awaits(u) /\ ~Awaits(t)
  BY <1>3, <1>4, <1>5 DEF Awaits
<1>7. ~StartToRead(t)
  <2>1. StartToRead(t) => disturbed'[u]
    BY <1>5, <1>6, ReadStarts DEF LockInv
  <2> QED BY <2>1 DEF Alone
<1>8. Idles(t) \/ Return(t)
  <2>1. ~Sending(t)
    BY <1>7, SendingIs
  <2>2. ~AwaitAgain(t)
    BY <1>7 DEF AwaitAgain
  <2>3. ~Reads(t) /\ ~EnterDataMode(t)
    <3>1. Reads(t) => FALSE
      BY <1>6, ReadsGo DEF Awaits
    <3>2. EnterDataMode(t) => FALSE
      BY <1>6, RunsAlone DEF EnterDataMode, Awaits
    <3> QED BY <3>1, <3>2
  <2> QED BY <2>1, <2>2, <2>3, CallerKinds
<1>9. /\ UNCHANGED <<rawResponse, rxBffr, dataMode, inbox, out, good, answered, loose, cmds, resultCode, retValue, parser>>
      /\ \A c \in mine[u] : got'[c] = got[c]
  <2>1. CASE Idles(t)
    <3>1. Still
      BY <2>1, IdlesStill
    <3>2. parser' = parser
      <4>1. ~AwaitReturns(t)
        BY <1>6, RunsAlone DEF AwaitReturns, Awaits
      <4> QED BY <2>1, <4>1, <1>7, IdlesParser
    <3> QED BY <3>1, <3>2 DEF Still
  <2>2. CASE Return(t)
    <3>1. UNCHANGED <<rawResponse, rxBffr, dataMode, inbox, out, good, answered, loose, cmds, resultCode, retValue, parser>>
      BY <2>2 DEF Return, cmdVars, modVars
    <3>2. got' = [c \in Cmds |-> IF c \in mine[t] THEN NoCmd ELSE got[c]]
      BY <2>2 DEF Return
    <3>3. ASSUME NEW c \in mine[u] PROVE got'[c] = got[c]
      <4>1. c \notin mine[t]
        BY DEF OwnInv, Unshared
      <4>2. c \in 1..cmds /\ cmds <= MaxCmds /\ cmds \in Nat
        BY DEF Numbers, OwnInv, Gotten
      <4>3. c \in Cmds
        BY <4>2, ServicesAssumption DEF Cmds
      <4> QED BY <3>2, <4>1, <4>3
    <3> QED BY <3>1, <3>3
  <2> QED BY <1>8, <2>1, <2>2
<1>10. Current(u)' = Current(u) /\ Command(u)' = Command(u)
  BY <1>1 DEF Stays, Current, Command
<1> QED BY <1>1, <1>6, <1>9, <1>10, AnyAt

LEMMA OwnCaller == ASSUME LockInv, Numbers, OwnInv, NEW t \in Tasks, Caller(t) PROVE OwnInv'
<1>1. Numbers /\ cmds \in Nat /\ mine \in [Tasks -> SUBSET (1..cmds)] /\ cmds <= MaxCmds
  BY DEF Numbers, OwnInv, Gotten
<1>2. \A u \in Tasks \ {t} : Stays(u)
  BY OthersStay
<1>3. \A u \in Tasks \ {t} : (Alone(u) => Current(u) = cmds)' /\ (Beginning(u) => mine[u] = {})'
  <2>1. ASSUME NEW u \in Tasks \ {t}, Alone(u)' PROVE Current(u)' = cmds'
    BY <2>1, OtherStill DEF OwnInv, Latest
  <2>2. ASSUME NEW u \in Tasks \ {t}, Beginning(u)' PROVE mine'[u] = {}
    BY <1>2, <2>2 DEF Stays, Beginning, OwnInv
  <2> QED BY <2>1, <2>2
<1>4. CASE Sending(t)
  <2>1. /\ SendCommand(t) /\ Goto(t, "read") /\ cmds < MaxCmds /\ cmds' = cmds + 1 /\ mine' = [mine EXCEPT ![t] = @ \cup {cmds + 1}] /\ got' = got
    BY <1>4, SendingIs DEF SendCommand, StartToRead
  <2>2. Current(t)' = cmds' /\ ~Beginning(t)'
    <3>1. Current(t)' = cmds + 1
      BY <1>1, <2>1, NewCurrent
    <3>2. pc'[t] = "read"
      BY <2>1, GoesTo
    <3> QED BY <2>1, <3>1, <3>2 DEF Beginning
  <2>3. Unshared'
    <3>1. mine'[t] = mine[t] \cup {cmds + 1} /\ \A u \in Tasks \ {t} : mine'[u] = mine[u]
      BY <1>1, <2>1
    <3>2. \A u \in Tasks : cmds + 1 \notin mine[u]
      BY <1>1
    <3> QED BY <3>1, <3>2 DEF Unshared, OwnInv
  <2>4. Gotten'
    BY <1>1, <2>1, ServicesAssumption DEF OwnInv, Gotten, Cmds
  <2> QED BY <1>3, <2>2, <2>3, <2>4 DEF OwnInv, Latest
<1>5. CASE ~Sending(t) /\ ~Return(t)
  <2>1. UNCHANGED <<mine, cmds>>
    <3>1. Idles(t) => UNCHANGED <<mine, cmds>>
      BY IdlesStill DEF Still
    <3>2. AwaitAgain(t) \/ EnterDataMode(t) => UNCHANGED <<mine, cmds>>
      BY DEF AwaitAgain, EnterDataMode, ReadFrame
    <3>3. Reads(t) => UNCHANGED <<mine, cmds>>
      BY ReadsGo
    <3> QED BY <1>5, <3>1, <3>2, <3>3, CallerKinds
  <2>2. Alone(t)' => Alone(t)
    <3>1. disturbed[t] => disturbed'[t]
      <4>1. Idles(t) => UNCHANGED disturbed \/ StartToRead(t)
        BY DEF Idles, Call, SkipKnown, WaitForLock, ReuseLockAssert, Refused, ReadAgain, AwaitReturns, EndCall, StreamAssert, histVars
      <4>2. AwaitAgain(t) => StartToRead(t)
        BY DEF AwaitAgain
      <4>3. Reads(t) \/ EnterDataMode(t) => UNCHANGED disturbed
        BY ReadsGo DEF EnterDataMode, ReadFrame
      <4>4. StartToRead(t) => disturbed'[t] = (disturbed[t] \/ ({u \in Tasks \ {t} : pc[u] \in {"yield", "data"}} # {} /\ TRUE))
        BY DEF StartToRead
      <4> QED BY <1>5, <4>1, <4>2, <4>3, <4>4, CallerKinds
    <3> QED BY <2>1, <3>1 DEF Alone
  <2>3. Beginning(t)' => Beginning(t)
    <3>1. Idles(t) => (Beginning(t)' => Beginning(t))
      BY IdlesBegin
    <3>2. Reads(t) => ~Beginning(t)'
      BY ReadsGo DEF Beginning
    <3>3. EnterDataMode(t) => ~Beginning(t)'
      <4>1. EnterDataMode(t) => Goto(t, "data") \/ Goto(t, "stream")
        BY DEF EnterDataMode
      <4> QED BY <4>1, GoesTo DEF Beginning
    <3>4. AwaitAgain(t) => ~Beginning(t)'
      BY GoesTo DEF AwaitAgain, StartToRead, Beginning
    <3> QED BY <1>5, <3>1, <3>2, <3>3, <3>4, CallerKinds
  <2>4. Gotten'
    <3>1. got' = got \/ \E x : got' = [got EXCEPT ![Current(t)] = x] /\ Current(t) # NoCmd
      <4>1. Idles(t) \/ AwaitAgain(t) => got' = got
        BY IdlesStill DEF Still, AwaitAgain
      <4>2. EnterDataMode(t) => got' = got \/ \E x : got' = [got EXCEPT ![Current(t)] = x] /\ Current(t) # NoCmd
        BY DEF EnterDataMode
      <4>3. Reads(t) => got' = got \/ \E x : got' = [got EXCEPT ![Current(t)] = x] /\ Current(t) # NoCmd
        <5>1. ASSUME NEW r, NEW c, Conclude(t, r, c)
              PROVE  got' = got \/ \E x : got' = [got EXCEPT ![Current(t)] = x] /\ Current(t) # NoCmd
          BY <5>1 DEF Conclude
        <5> QED BY <5>1, ReadsGo
      <4> QED BY <1>5, <4>1, <4>2, <4>3, CallerKinds
    <3>2. Current(t) \in 0..cmds
      BY CurrentTyped
    <3>3. \A c \in Cmds : c > cmds => got'[c] = got[c]
      <4>1. ASSUME NEW c \in Cmds, c > cmds PROVE c # Current(t)
        BY <1>1, <3>2, <4>1, ServicesAssumption DEF Cmds
      <4>2. DOMAIN got = Cmds
        BY DEF OwnInv, Gotten
      <4>3. ASSUME NEW x, got' = [got EXCEPT ![Current(t)] = x], NEW c \in Cmds, c > cmds PROVE got'[c] = got[c]
        BY <4>1, <4>2, <4>3
      <4> QED BY <3>1, <4>3
    <3>4. got' = [c \in Cmds |-> got'[c]]
      BY <3>1 DEF OwnInv, Gotten
    <3> QED BY <2>1, <3>3, <3>4 DEF OwnInv, Gotten
  <2>5. Unshared' /\ Current(t)' = Current(t)
    BY <2>1 DEF OwnInv, Unshared, Current
  <2> QED BY <1>3, <2>1, <2>2, <2>3, <2>4, <2>5 DEF OwnInv, Latest
<1>6. CASE Return(t)
  <2>1. /\ mine' = [mine EXCEPT ![t] = {}] /\ cmds' = cmds /\ got' = [c \in Cmds |-> IF c \in mine[t] THEN NoCmd ELSE got[c]]
    BY <1>6 DEF Return
  <2>2. mine'[t] = {} /\ \A u \in Tasks \ {t} : mine'[u] = mine[u]
    BY <1>1, <2>1
  <2>3. Unshared'
    BY <2>2 DEF OwnInv, Unshared
  <2>4. Gotten'
    BY <2>1 DEF OwnInv, Gotten
  <2> QED BY <1>3, <2>2, <2>3, <2>4 DEF OwnInv, Latest, Alone
<1> QED BY <1>4, <1>5, <1>6

LEMMA OwnModule == ASSUME OwnInv, Serve \/ Emit \/ TakeData \/ Elapse \/ UNCHANGED vars PROVE OwnInv'
<1>1. UNCHANGED <<mine, cmds, got, pc, step, disturbed>>
  BY DEF Serve, Emit, TakeData, Elapse, ModFrame, vars, callVars, histVars
<1> QED BY <1>1 DEF OwnInv, Latest, Alone, Current, Beginning, Unshared, Gotten

LEMMA OwnInit == Init => OwnInv
<1> SUFFICES ASSUME Init PROVE OwnInv
  OBVIOUS
<1>1. cmds = 0 /\ mine = [t \in Tasks |-> {}] /\ got = [c \in Cmds |-> NoCmd]
  BY DEF Init
<1>2. Gotten
  BY <1>1, ServicesAssumption DEF Gotten
<1> QED BY <1>1, <1>2 DEF OwnInv, Latest, Alone, Unshared

LEMMA OwnStep == LockInv /\ TextInv /\ OwnInv /\ [Next]_vars => OwnInv'
BY OwnCaller, OwnModule DEF Next, TextInv

LEMMA OwnAlways == Spec => []OwnInv
BY OwnInit, OwnStep, LockAlways, TextAlways, PTL DEF Spec

-----------------------------------------------------------------------------
(* Sequences: of two, one after the other; the end of one. *)
LEMMA CatIs ==
    ASSUME NEW T, NEW a \in Seq(T), NEW b \in Seq(T)
    PROVE  /\ a \o b \in Seq(T) /\ Len(a \o b) = Len(a) + Len(b) /\ Len(a) \in Nat /\ Len(b) \in Nat
           /\ \A i \in 1..Len(a) : (a \o b)[i] = a[i] /\ i \in 1..Len(a \o b)
           /\ \A i \in 1..Len(b) : (a \o b)[Len(a) + i] = b[i] /\ Len(a) + i \in 1..Len(a \o b)
           /\ \A i \in 1..Len(a \o b) : i \in 1..Len(a) \/ \E j \in 1..Len(b) : i = Len(a) + j
<1>1. a \o b \in Seq(T) /\ Len(a \o b) = Len(a) + Len(b) /\ Len(a) \in Nat /\ Len(b) \in Nat
  OBVIOUS
<1>2. \A i \in 1..Len(a) : (a \o b)[i] = a[i]
  OBVIOUS
<1>3. \A i \in 1..Len(b) : (a \o b)[Len(a) + i] = b[i]
  OBVIOUS
<1> DEFINE x == a \o b
           m == Len(a)
           n == Len(b)
<1> HIDE DEF x, m, n
<1>4. Len(x) = m + n /\ m \in Nat /\ n \in Nat
  BY <1>1 DEF x, m, n
<1>5. /\ \A i \in 1..m : i \in 1..Len(x)
      /\ \A i \in 1..n : m + i \in 1..Len(x)
  BY <1>4
<1>6. ASSUME NEW i \in 1..Len(x), i \notin 1..m PROVE \E j \in 1..n : i = m + j
  <2>1. i - m \in 1..n /\ i = m + (i - m)
    BY <1>4, <1>6
  <2> QED BY <2>1
<1> QED BY <1>1, <1>2, <1>3, <1>5, <1>6 DEF x, m, n

EndOf(x, y, n) == n \in 0..Len(y) /\ Len(x) = Len(y) - n /\ \A j \in 1..Len(x) : x[j] = y[n + j]

LEMMA RestIs ==
    ASSUME NEW T, NEW text \in Seq(T), NEW i \in Nat \ {0}
    PROVE  /\ Rest(text, i) \in Seq(T)
           /\ EndOf(Rest(text, i), text, IF i <= Len(text) + 1 THEN i - 1 ELSE Len(text))
<1> DEFINE n == Len(text)
           x == Rest(text, i)
<1>1. n \in Nat
  OBVIOUS
<1>2. CASE i <= n + 1
  <2>1. x \in Seq(T) /\ Len(x) = (IF i <= n THEN n - i + 1 ELSE 0) /\ \A j \in 1..Len(x) : x[j] = text[i + j - 1]
    BY <1>2 DEF Rest
  <2> HIDE DEF x
  <2> HIDE DEF n
  <2>2. Len(x) = n - (i - 1) /\ i - 1 \in 0..n
    BY <1>1, <1>2, <2>1
  <2>3. \A j \in 1..Len(x) : i + j - 1 = (i - 1) + j
    BY <1>1, <2>2
  <2> QED BY <1>1, <1>2, <2>1, <2>2, <2>3 DEF EndOf, x, n
<1>3. CASE i > n + 1
  <2>1. x = <<>>
    BY <1>3 DEF Rest
  <2>2. Len(<<>>) = 0 /\ <<>> \in Seq(T)
    OBVIOUS
  <2> HIDE DEF x
  <2> HIDE DEF n
  <2>3. ~(i <= n + 1) /\ n - n = 0 /\ n \in 0..n /\ Len(x) = 0
    BY <1>1, <1>3, <2>1, <2>2
  <2>4. EndOf(x, text, n)
    BY <2>3 DEF EndOf, n
  <2> QED BY <2>1, <2>2, <2>3, <2>4 DEF x, n
<1> QED BY <1>1, <1>2, <1>3

LEMMA EndPlaces ==
    ASSUME NEW x, NEW y, NEW n, EndOf(x, y, n), Len(y) \in Nat
    PROVE  /\ \A j \in 1..Len(x) : n + j \in 1..Len(y) /\ x[j] = y[n + j]
           /\ \A j \in 1..Len(y) : j \in 1..n \/ (j - n \in 1..Len(x) /\ j = n + (j - n))
           /\ n \in Nat /\ Len(x) \in Nat /\ Len(y) = n + Len(x)
<1> DEFINE p == Len(x)
           q == Len(y)
<1> HIDE DEF p, q
<1>1. n \in 0..q /\ p = q - n /\ q \in Nat /\ \A j \in 1..p : x[j] = y[n + j]
  BY DEF EndOf, p, q
<1>2. /\ \A j \in 1..p : n + j \in 1..q
      /\ \A j \in 1..q : j \in 1..n \/ (j - n \in 1..p /\ j = n + (j - n))
      /\ n \in Nat /\ p \in Nat /\ q = n + p
  BY <1>1
<1> QED BY <1>1, <1>2 DEF p, q

LEMMA CatItems ==
    ASSUME NEW T, NEW a \in Seq(T), NEW b \in Seq(T)
    PROVE  \A j \in 1..Len(a \o b) : \/ j \in 1..Len(a) /\ (a \o b)[j] = a[j]
                                     \/ \E i \in 1..Len(b) : (a \o b)[j] = b[i]
<1>1. /\ a \o b \in Seq(T) /\ Len(a \o b) = Len(a) + Len(b) /\ Len(a) \in Nat /\ Len(b) \in Nat
      /\ \A i \in 1..Len(a) : (a \o b)[i] = a[i] /\ i \in 1..Len(a \o b)
      /\ \A i \in 1..Len(b) : (a \o b)[Len(a) + i] = b[i] /\ Len(a) + i \in 1..Len(a \o b)
      /\ \A i \in 1..Len(a \o b) : i \in 1..Len(a) \/ \E j \in 1..Len(b) : i = Len(a) + j
  BY CatIs
<1> DEFINE x == a \o b
           m == Len(a)
           n == Len(b)
<1>2. /\ \A i \in 1..m : x[i] = a[i]
      /\ \A i \in 1..n : x[m + i] = b[i]
      /\ \A i \in 1..Len(x) : i \in 1..m \/ \E j \in 1..n : i = m + j
  BY <1>1
<1> HIDE DEF x, m, n
<1>3. ASSUME NEW j \in 1..Len(x) PROVE (j \in 1..m /\ x[j] = a[j]) \/ \E i \in 1..n : x[j] = b[i]
  <2>1. CASE j \in 1..m
    BY <1>2, <2>1
  <2>2. CASE \E i \in 1..n : j = m + i
    BY <1>2, <2>2
  <2> QED BY <1>2, <2>1, <2>2
<1> QED BY <1>3 DEF x, m, n

LEMMA CatAll ==
    ASSUME NEW T, NEW a \in Seq(T), NEW b \in Seq(T), NEW C,
           \A j \in 1..Len(a) : a[j].c \in C, \A j \in 1..Len(b) : b[j].c \in C
    PROVE  \A j \in 1..Len(a \o b) : (a \o b)[j].c \in C
<1> DEFINE x == a \o b
           m == Len(a)
           n == Len(b)
<1>1. \A j \in 1..Len(x) : (j \in 1..m /\ x[j] = a[j]) \/ \E i \in 1..n : x[j] = b[i]
  BY CatItems
<1>2. (\A j \in 1..m : a[j].c \in C) /\ (\A j \in 1..n : b[j].c \in C)
  OBVIOUS
<1> HIDE DEF x, m, n
<1>3. \A j \in 1..Len(x) : x[j].c \in C
  BY <1>1, <1>2
<1> QED BY <1>3 DEF x

LEMMA CatEnds == ASSUME NEW T, NEW a \in Seq(T), NEW b \in Seq(T) PROVE EndOf(b, a \o b, Len(a))
<1> DEFINE x == a \o b
           m == Len(a)
           n == Len(b)
<1>1. /\ Len(x) = m + n /\ m \in Nat /\ n \in Nat
      /\ \A i \in 1..n : x[m + i] = b[i] /\ m + i \in 1..Len(x)
  BY CatIs
<1> HIDE DEF x
<1> HIDE DEF m
<1> HIDE DEF n
<1>2. m \in 0..Len(x) /\ n = Len(x) - m
  BY <1>1
<1> QED BY <1>1, <1>2 DEF EndOf, x, m, n

LEMMA AllOf ==
    ASSUME NEW T, NEW x \in Seq(T)
    PROVE  EndOf(x, x, 0) /\ <<>> \in Seq(T) /\ EndOf(<<>>, x, Len(x)) /\ x \o <<>> = x /\ <<>> \o x = x
<1>1. Len(x) \in Nat /\ Len(<<>>) = 0 /\ <<>> \in Seq(T)
  OBVIOUS
<1>2. EndOf(x, x, 0)
  <2> DEFINE n == Len(x)
  <2> HIDE DEF n
  <2>1. n \in Nat
    BY <1>1 DEF n
  <2>2. 0 \in 0..n /\ n = n - 0 /\ \A j \in 1..n : 0 + j = j
    BY <2>1
  <2> QED BY <2>2 DEF EndOf, n
<1>3. EndOf(<<>>, x, Len(x))
  BY <1>1 DEF EndOf
<1> QED BY <1>1, <1>2, <1>3

-----------------------------------------------------------------------------
(* Order and wholeness of what is put together and of what is cut off. *)
LEMMA SortedEnd ==
    ASSUME NEW x, NEW y, NEW n, EndOf(x, y, n), Len(y) \in Nat
    PROVE  (Sorted(y) => Sorted(x)) /\ (Whole(y) => Whole(x))
<1>1. /\ \A j \in 1..Len(x) : n + j \in 1..Len(y) /\ x[j] = y[n + j]
      /\ \A j \in 1..Len(y) : j \in 1..n \/ (j - n \in 1..Len(x) /\ j = n + (j - n))
      /\ n \in Nat /\ Len(x) \in Nat /\ Len(y) = n + Len(x)
  BY EndPlaces
<1>2. ASSUME Sorted(y) PROVE Sorted(x)
  <2>1. SUFFICES ASSUME NEW i \in 1..Len(x), NEW j \in i..Len(x) PROVE x[i].c <= x[j].c
    BY DEF Sorted
  <2>2. j \in 1..Len(x) /\ n + j \in (n + i)..Len(y)
    BY <1>1
  <2> QED BY <1>1, <1>2, <2>2 DEF Sorted
<1>3. ASSUME Whole(y) PROVE Whole(x)
  <2>1. SUFFICES ASSUME NEW i \in 1..Len(x), x[i].k \in Preambles
                 PROVE  \E j \in (i + 1)..Len(x) : x[j].k = "eol" /\ x[j].c = x[i].c
    BY DEF Whole
  <2>2. PICK j \in (n + i + 1)..Len(y) : y[j].k = "eol" /\ y[j].c = x[i].c
    <3>1. n + i \in 1..Len(y) /\ x[i] = y[n + i]
      BY <1>1
    <3> QED BY <1>3, <2>1, <3>1 DEF Whole
  <2>3. j - n \in (i + 1)..Len(x) /\ n + (j - n) = j
    BY <1>1
  <2>4. j - n \in 1..Len(x)
    BY <1>1, <2>3
  <2>5. x[j - n] = y[n + (j - n)]
    BY <1>1, <2>4
  <2> QED BY <2>2, <2>3, <2>5
<1> QED BY <1>2, <1>3

LEMMA SortedCat ==
    ASSUME NEW T, NEW a \in Seq(T), NEW b \in Seq(T)
    PROVE  /\ Sorted(a) /\ Sorted(b) /\ (\A i \in 1..Len(a) : \A j \in 1..Len(b) : a[i].c <= b[j].c) => Sorted(a \o b)
           /\ Whole(a) /\ Whole(b) => Whole(a \o b)
<1> DEFINE x == a \o b
           m == Len(a)
<1>1. /\ Len(x) = m + Len(b) /\ m \in Nat /\ Len(b) \in Nat
      /\ \A i \in 1..m : x[i] = a[i] /\ i \in 1..Len(x)
      /\ \A i \in 1..Len(b) : x[m + i] = b[i] /\ m + i \in 1..Len(x)
      /\ \A i \in 1..Len(x) : i \in 1..m \/ \E j \in 1..Len(b) : i = m + j
  BY CatIs
<1> HIDE DEF x
<1>2. ASSUME Sorted(a), Sorted(b), \A i \in 1..m : \A j \in 1..Len(b) : a[i].c <= b[j].c PROVE Sorted(x)
  <2>1. SUFFICES ASSUME NEW i \in 1..Len(x), NEW j \in i..Len(x) PROVE x[i].c <= x[j].c
    BY DEF Sorted
  <2>2. j \in 1..Len(x)
    BY <1>1
  <2>3. CASE i \in 1..m /\ j \in 1..m
    <3>1. j \in i..m
      BY <2>3
    <3> QED BY <1>1, <1>2, <2>3, <3>1 DEF Sorted
  <2>4. CASE i \in 1..m /\ j \notin 1..m
    <3>1. PICK q \in 1..Len(b) : j = m + q
      BY <1>1, <2>2, <2>4
    <3> QED BY <1>1, <1>2, <2>4, <3>1
  <2>5. CASE i \notin 1..m
    <3>1. PICK p \in 1..Len(b) : i = m + p
      BY <1>1, <2>5
    <3>2. j \notin 1..m
      BY <1>1, <2>5
    <3>3. PICK q \in 1..Len(b) : j = m + q
      BY <1>1, <2>2, <3>2
    <3>4. q \in p..Len(b)
      BY <1>1, <3>1, <3>3
    <3> QED BY <1>1, <1>2, <3>1, <3>3, <3>4 DEF Sorted
  <2> QED BY <2>3, <2>4, <2>5
<1>3. ASSUME Whole(a), Whole(b) PROVE Whole(x)
  <2>1. SUFFICES ASSUME NEW i \in 1..Len(x), x[i].k \in Preambles
                 PROVE  \E j \in (i + 1)..Len(x) : x[j].k = "eol" /\ x[j].c = x[i].c
    BY DEF Whole
  <2>2. CASE i \in 1..m
    <3>1. PICK j \in (i + 1)..m : a[j].k = "eol" /\ a[j].c = a[i].c
      BY <1>1, <1>3, <2>1, <2>2 DEF Whole
    <3>2. j \in 1..m /\ j \in (i + 1)..Len(x)
      BY <1>1, <2>2, <3>1
    <3> QED BY <1>1, <2>2, <3>1, <3>2
  <2>3. CASE i \notin 1..m
    <3>1. PICK p \in 1..Len(b) : i = m + p
      BY <1>1, <2>3
    <3>2. PICK j \in (p + 1)..Len(b) : b[j].k = "eol" /\ b[j].c = b[p].c
      BY <1>1, <1>3, <2>1, <3>1 DEF Whole
    <3>3. j \in 1..Len(b) /\ m + j \in (i + 1)..Len(x)
      BY <1>1, <3>1, <3>2
    <3> QED BY <1>1, <3>1, <3>2, <3>3
  <2> QED BY <2>2, <2>3
<1> QED BY <1>2, <1>3 DEF x

-----------------------------------------------------------------------------
(* What a step takes of the text that was received: the end of it. *)
Shifts(x) == \/ rawResponse' = rawResponse /\ rxBffr' = x
             \/ rawResponse' = rawResponse \o x /\ rxBffr' = <<>>
Takes == \E x \in Seq(Pieces(1..out.c)) : \E n : EndOf(x, rxBffr, n) /\ Shifts(x)

LEMMA ParseShifts == ASSUME NEW t, NEW x, Parse(t, x) PROVE Shifts(x)
BY DEF Parse, Shifts

LEMMA HandlerShifts == ASSUME NEW t, NEW s, NEW c, NEW x, HandlerEnds(t, s, c, x) PROVE Shifts(x)
BY ParseShifts DEF HandlerEnds, Shifts

LEMMA RestTakes ==
    ASSUME Received, NEW i \in Nat \ {0}, Shifts(Rest(rxBffr, i))
    PROVE  Takes
<1>1. rxBffr \in Seq(Pieces(1..out.c))
  BY DEF Received
<1>2. Rest(rxBffr, i) \in Seq(Pieces(1..out.c)) /\ \E n : EndOf(Rest(rxBffr, i), rxBffr, n)
  BY <1>1, RestIs
<1> QED BY <1>2 DEF Takes

LEMMA AllTakes == ASSUME Received, Shifts(rxBffr) \/ Shifts(<<>>) PROVE Takes
<1>1. rxBffr \in Seq(Pieces(1..out.c))
  BY DEF Received
<1>2. EndOf(rxBffr, rxBffr, 0) /\ EndOf(<<>>, rxBffr, Len(rxBffr)) /\ <<>> \in Seq(Pieces(1..out.c))
  BY <1>1, AllOf
<1> QED BY <1>1, <1>2 DEF Takes

LEMMA ReadsTake == ASSUME Received, NEW t \in Tasks, Reads(t) \/ EnterDataMode(t) PROVE Takes
<1>1. rxBffr \in Seq(Pieces(1..out.c))
  BY DEF Received
<1>2. CASE ReadNothing(t)
  BY <1>2, AllTakes DEF ReadNothing, Shifts
<1>3. CASE ReadResult(t)
  BY <1>3, ParseShifts, AllTakes DEF ReadResult
<1>4. CASE DataSent(t)
  <2> DEFINE i == Min(Places(rxBffr, <<"OK">>))
  <2>1. Has(rxBffr, "OK") /\ HandlerEnds(t, TRUE, rxBffr[i].c, Rest(rxBffr, i + 2))
    BY <1>4 DEF DataSent, BehindOK
  <2>2. i \in Nat \ {0}
    BY <1>1, <2>1, HasPlace, FirstPlace
  <2> HIDE DEF i
  <2>3. i + 2 \in Nat \ {0}
    BY <2>2
  <2> QED BY <2>1, <2>3, HandlerShifts, RestTakes
<1>5. CASE DataTimeout(t)
  BY <1>5, HandlerShifts, AllTakes DEF DataTimeout
<1>6. CASE FileStreamed(t)
  BY <1>6, HandlerShifts, AllTakes DEF FileStreamed
<1>7. CASE PageStreamed(t)
  <2> DEFINE i == Min(Places(rxBffr, <<"QHTTPREAD", "tok", "eol">>))
  <2>1. /\ Places(rxBffr, <<"QHTTPREAD", "tok", "eol">>) # {}
        /\ HandlerEnds(t, rxBffr[i + 1].v = 0, rxBffr[i].c, Rest(rxBffr, i + 3))
    BY <1>7 DEF PageStreamed
  <2>2. i \in Nat \ {0}
    BY <2>1, FirstPlace
  <2> HIDE DEF i
  <2>3. i + 3 \in Nat \ {0}
    BY <2>2
  <2> QED BY <2>1, <2>3, HandlerShifts, RestTakes
<1>8. CASE EnterDataMode(t)
  <2> DEFINE i == Min(Places(rxBffr, <<"CONNECT">>))
  <2>1. Has(rxBffr, "CONNECT") /\ rxBffr' = Rest(rxBffr, i) /\ rawResponse' = rawResponse
    BY <1>8 DEF EnterDataMode, Triggered
  <2>2. i \in Nat \ {0}
    BY <1>1, <2>1, HasPlace, FirstPlace
  <2> QED BY <2>1, <2>2, RestTakes DEF Shifts
<1> QED BY <1>2, <1>3, <1>4, <1>5, <1>6, <1>7, <1>8 DEF Reads

LEMMA SentWhole == ASSUME NEW chunk \in Chunks, Whole(chunk), NEW c \in Nat PROVE Whole(Sent(chunk, c)) /\ Sorted(Sent(chunk, c))
<1> DEFINE x == Sent(chunk, c)
<1>1. Len(x) = Len(chunk) /\ \A i \in 1..Len(chunk) : x[i].c = c /\ x[i].k = chunk[i].k
  <2>1. c \in {c}
    OBVIOUS
  <2>2. /\ Sent(chunk, c) \in Seq(Pieces({c})) /\ Len(Sent(chunk, c)) = Len(chunk)
        /\ \A i \in 1..Len(chunk) : Sent(chunk, c)[i].c = c /\ Sent(chunk, c)[i].k = chunk[i].k /\ chunk[i].c = NoCmd
    BY ONLY chunk \in Chunks, <2>1, SentTyped
  <2> QED BY <2>2
<1> HIDE DEF x
<1>2. Len(chunk) \in Nat
  BY DEF Chunks
<1>3. Whole(x)
  <2>1. SUFFICES ASSUME NEW i \in 1..Len(x), x[i].k \in Preambles
                 PROVE  \E j \in (i + 1)..Len(x) : x[j].k = "eol" /\ x[j].c = x[i].c
    BY DEF Whole
  <2>2. PICK j \in (i + 1)..Len(chunk) : chunk[j].k = "eol" /\ chunk[j].c = chunk[i].c
    BY <1>1, <2>1 DEF Whole
  <2>3. j \in 1..Len(chunk)
    BY <1>1, <1>2, <2>2
  <2> QED BY <1>1, <2>1, <2>2, <2>3
<1>4. Sorted(x)
  <2>1. SUFFICES ASSUME NEW i \in 1..Len(x), NEW j \in i..Len(x) PROVE x[i].c <= x[j].c
    BY DEF Sorted
  <2>2. j \in 1..Len(chunk)
    BY <1>1, <1>2
  <2> QED BY <1>1, <2>2
<1> QED BY <1>3, <1>4 DEF x

-----------------------------------------------------------------------------
(* The order of the text. *)
LEMMA OrderTaken == ASSUME TextInv, OrderInv, Takes, UNCHANGED out PROVE OrderInv'
<1>1. PICK x \in Seq(Pieces(1..out.c)) : \E n : EndOf(x, rxBffr, n) /\ Shifts(x)
  BY DEF Takes
<1>2. PICK n : EndOf(x, rxBffr, n) /\ Shifts(x)
  BY <1>1
<1>3. rxBffr \in Seq(Pieces(1..out.c)) /\ rawResponse \in Seq(Pieces(1..out.c)) /\ Len(rxBffr) \in Nat
  BY DEF TextInv, Received
<1>4. Sorted(x) /\ Whole(x)
  BY <1>2, <1>3, SortedEnd DEF OrderInv
<1>5. \A i \in 1..Len(rawResponse) : \A j \in 1..Len(x) : rawResponse[i].c <= x[j].c
  <2>1. \A j \in 1..Len(x) : n + j \in 1..Len(rxBffr) /\ x[j] = rxBffr[n + j]
    <3>1. EndOf(x, rxBffr, n)
      BY <1>2
    <3> QED BY <1>3, <3>1, EndPlaces
  <2> QED BY <2>1 DEF OrderInv
<1>6. Sorted(rawResponse \o x) /\ Whole(rawResponse \o x)
  BY <1>3, <1>4, <1>5, SortedCat DEF OrderInv
<1>7. Sorted(<<>>) /\ Whole(<<>>) /\ Len(<<>>) = 0
  BY DEF Sorted, Whole
<1>8. \A m \in 1..Len(out'.chunks) : Whole(out'.chunks[m])
  BY DEF OrderInv
<1>9. CASE rawResponse' = rawResponse /\ rxBffr' = x
  BY <1>4, <1>5, <1>8, <1>9 DEF OrderInv
<1>10. CASE rawResponse' = rawResponse \o x /\ rxBffr' = <<>>
  BY <1>6, <1>7, <1>8, <1>10 DEF OrderInv
<1> QED BY <1>2, <1>9, <1>10 DEF Shifts

LEMMA OrderCleared == ASSUME OrderInv, rawResponse' \in {rawResponse, <<>>}, UNCHANGED <<rxBffr, out>> PROVE OrderInv'
<1>1. Sorted(<<>>) /\ Whole(<<>>) /\ Len(<<>>) = 0
  BY DEF Sorted, Whole
<1> QED BY <1>1 DEF OrderInv

LEMMA OrderCaller == ASSUME LockInv, TextInv, OrderInv, NEW t \in Tasks, Caller(t) PROVE OrderInv'
<1>1. CASE Reads(t) \/ EnterDataMode(t)
  <2>1. Takes
    BY <1>1, ReadsTake DEF TextInv
  <2>2. UNCHANGED out
    BY <1>1, ReadsGo DEF ReadFrame, EnterDataMode
  <2> QED BY <2>1, <2>2, OrderTaken
<1>2. CASE ~(Reads(t) \/ EnterDataMode(t))
  <2>1. Idles(t) => rawResponse' \in {rawResponse, <<>>} /\ UNCHANGED <<rxBffr, out>>
    BY IdlesStill DEF Still
  <2>2. Sending(t) => rawResponse' \in {rawResponse, <<>>} /\ UNCHANGED <<rxBffr, out>>
    BY SendingIs DEF SendCommand, Reset
  <2>3. AwaitAgain(t) => rawResponse' \in {rawResponse, <<>>} /\ UNCHANGED <<rxBffr, out>>
    BY DEF AwaitAgain, Reset, modVars
  <2>4. Return(t) => rawResponse' \in {rawResponse, <<>>} /\ UNCHANGED <<rxBffr, out>>
    BY DEF Return, cmdVars, modVars
  <2> QED BY <1>2, <2>1, <2>2, <2>3, <2>4, CallerKinds, OrderCleared
<1> QED BY <1>1, <1>2

(* What the module sends. *)
LEMMA EmitIs ==
    ASSUME TextInv, Emit
    PROVE  LET R == out.chunks  x == Sent(R[1], out.c)
           IN  /\ R # <<>> /\ R[1] # Data /\ R[1] \in Chunks /\ R \in Seq(Chunks) /\ Len(R) \in Nat /\ out.c \in 1..cmds
               /\ rxBffr' = rxBffr \o x /\ x \in Seq(Pieces(1..out.c)) /\ Len(x) = Len(R[1])
               /\ \A i \in 1..Len(R[1]) : x[i].c = out.c /\ x[i].k = R[1][i].k /\ x[i].v = R[1][i].v
               /\ out' = [c |-> out.c, chunks |-> Tail(R)] /\ Len(Tail(R)) = Len(R) - 1 /\ \A m \in 1..Len(Tail(R)) : Tail(R)[m] = R[m + 1]
               /\ UNCHANGED <<inbox, good, rawResponse, dataMode, cmds, loose, got, asserted, parser>>
<1> DEFINE R == out.chunks
           x == Sent(R[1], out.c)
<1>1. /\ R # <<>> /\ Head(R) # Data /\ rxBffr' = rxBffr \o Sent(Head(R), out.c)
      /\ out' = [out EXCEPT !.chunks = Tail(R)]
      /\ UNCHANGED <<inbox, good, rawResponse, dataMode, cmds, loose, got, asserted, parser>>
  BY DEF Emit, Sent, ModFrame, cmdVars, histVars
<1>2. cmds \in Nat /\ out \in [c : 0..cmds, chunks : Seq(Chunks)] /\ out.c \in 1..cmds
  BY <1>1 DEF TextInv, Numbers, Answering
<1>3. R \in Seq(Chunks) /\ Head(R) = R[1] /\ R[1] \in Chunks /\ Len(R) \in Nat
  <2>1. R \in Seq(Chunks)
    BY <1>2
  <2> HIDE DEF R
  <2> QED BY <1>1, <2>1
<1>4. Len(Tail(R)) = Len(R) - 1 /\ \A m \in 1..Len(Tail(R)) : Tail(R)[m] = R[m + 1]
  <2> HIDE DEF R
  <2> QED BY <1>1, <1>3
<1>5. out' = [c |-> out.c, chunks |-> Tail(R)]
  BY <1>1, <1>2
<1>6. x \in Seq(Pieces(1..out.c)) /\ Len(x) = Len(R[1]) /\ \A i \in 1..Len(R[1]) : x[i].c = out.c /\ x[i].k = R[1][i].k
  <2>1. out.c \in 1..out.c /\ R[1] \in Chunks
    BY <1>2, <1>3
  <2> DEFINE chunk == R[1]
             C == 1..out.c
             c == out.c
  <2> HIDE DEF chunk, C, c
  <2>2. chunk \in Chunks /\ c \in C
    BY <2>1 DEF chunk, C, c
  <2>3. /\ Sent(chunk, c) \in Seq(Pieces(C)) /\ Len(Sent(chunk, c)) = Len(chunk)
        /\ \A i \in 1..Len(chunk) : Sent(chunk, c)[i].c = c /\ Sent(chunk, c)[i].k = chunk[i].k /\ chunk[i].c = NoCmd
    BY ONLY <2>2, SentTyped
  <2> QED BY <2>3 DEF chunk, C, c
<1>7. ASSUME NEW i \in 1..Len(R[1]) PROVE x[i].v = R[1][i].v
  <2> DEFINE chunk == R[1]
  <2>1. chunk[i] \in Pieces({NoCmd}) /\ i \in DOMAIN chunk
    BY <1>3, <1>7 DEF Chunks
  <2> HIDE DEF chunk
  <2>2. Sent(chunk, out.c)[i] = [chunk[i] EXCEPT !.c = out.c]
    BY <2>1 DEF Sent
  <2>3. [chunk[i] EXCEPT !.c = out.c].v = chunk[i].v
    BY <2>1 DEF Pieces
  <2> QED BY <2>2, <2>3 DEF chunk
<1> QED BY <1>1, <1>2, <1>3, <1>4, <1>5, <1>6, <1>7

LEMMA EmitOrder == ASSUME TextInv, OrderInv, Emit PROVE OrderInv'
<1> DEFINE R == out.chunks
           x == Sent(R[1], out.c)
           S == Pieces(1..out.c)
<1>1. /\ R # <<>> /\ R[1] \in Chunks /\ Len(R) \in Nat /\ out.c \in 1..cmds /\ R \in Seq(Chunks)
      /\ rxBffr' = rxBffr \o x /\ x \in Seq(S) /\ Len(x) = Len(R[1]) /\ rawResponse' = rawResponse
      /\ \A i \in 1..Len(R[1]) : x[i].c = out.c
      /\ out'.chunks = Tail(R) /\ Len(Tail(R)) = Len(R) - 1 /\ \A m \in 1..Len(Tail(R)) : Tail(R)[m] = R[m + 1]
  BY EmitIs
<1>2. rxBffr \in Seq(S) /\ rawResponse \in Seq(S) /\ out.c \in Nat
  BY <1>1 DEF TextInv, Received, Numbers
<1>3. Whole(R[1]) /\ \A m \in 1..Len(Tail(R)) : Whole(Tail(R)[m])
  <2>1. \A m \in 1..Len(R) : Whole(R[m])
    BY DEF OrderInv
  <2> HIDE DEF R
  <2>2. 1 \in 1..Len(R) /\ \A m \in 1..Len(Tail(R)) : m + 1 \in 1..Len(R)
    BY <1>1
  <2> QED BY <1>1, <2>1, <2>2
<1>4. Whole(x) /\ Sorted(x)
  BY <1>1, <1>2, <1>3, SentWhole
<1>5. /\ \A i \in 1..Len(rxBffr) : rxBffr[i].c <= out.c
      /\ \A i \in 1..Len(rawResponse) : rawResponse[i].c <= out.c
  <2>1. \A p \in S : p.c <= out.c
    BY <1>2 DEF Pieces
  <2> HIDE DEF S
  <2> QED BY <1>2, <2>1
<1> HIDE DEF S
<1> HIDE DEF x
<1>6. Sorted(rxBffr \o x) /\ Whole(rxBffr \o x)
  <2>1. \A i \in 1..Len(rxBffr) : \A j \in 1..Len(x) : rxBffr[i].c <= x[j].c
    BY <1>1, <1>5
  <2> QED BY <1>1, <1>2, <1>4, <2>1, SortedCat DEF OrderInv
<1>7. \A i \in 1..Len(rawResponse) : \A j \in 1..Len(rxBffr \o x) : rawResponse[i].c <= (rxBffr \o x)[j].c
  <2>1. ASSUME NEW i \in 1..Len(rawResponse), NEW j \in 1..Len(rxBffr \o x) PROVE rawResponse[i].c <= (rxBffr \o x)[j].c
    <3> DEFINE a == rxBffr
               z == a \o x
    <3>1. /\ \A h \in 1..Len(a) : z[h] = a[h]
          /\ \A h \in 1..Len(x) : z[Len(a) + h] = x[h]
          /\ \A h \in 1..Len(z) : h \in 1..Len(a) \/ \E q \in 1..Len(x) : h = Len(a) + q
      <4>1. a \in Seq(S) /\ x \in Seq(S)
        BY <1>1, <1>2
      <4> HIDE DEF a
      <4> QED BY <4>1, CatIs
    <3>2. j \in 1..Len(z)
      BY <2>1
    <3> HIDE DEF z
    <3>3. z[j].c >= rawResponse[i].c
      <4>1. CASE j \in 1..Len(a)
        BY <3>1, <4>1 DEF OrderInv
      <4>2. CASE j \notin 1..Len(a)
        <5>1. PICK q \in 1..Len(x) : j = Len(a) + q
          BY <3>1, <3>2, <4>2
        <5>2. z[j].c = out.c
          <6>1. z[j] = x[q]
            BY <3>1, <5>1
          <6>2. x[q].c = out.c
            BY <1>1
          <6> QED BY <6>1, <6>2
        <5>3. rawResponse[i].c <= out.c
          BY <1>5, <2>1
        <5>4. rawResponse[i].c \in Nat
          <6>1. rawResponse[i] \in S
            BY <1>2, <2>1
          <6> QED BY <6>1, <1>2 DEF S, Pieces
        <5> QED BY <1>2, <5>2, <5>3, <5>4
      <4> QED BY <4>1, <4>2
    <3> QED BY <3>3 DEF z
  <2> QED BY <2>1
<1> QED BY <1>1, <1>3, <1>6, <1>7 DEF OrderInv

(* A command that is taken up, and its answer. *)
LEMMA ServeIs ==
    ASSUME TextInv, Serve
    PROVE  /\ out.chunks = <<>> /\ inbox # <<>> /\ inbox' = Tail(inbox) /\ inbox[1] \in Messages(cmds) /\ inbox \in Seq(Messages(cmds))
           /\ UNCHANGED <<rawResponse, rxBffr, dataMode, cmds, loose, got, asserted, parser>>
           /\ \/ inbox[1].k = "data" /\ UNCHANGED <<out, good>>
              \/ /\ inbox[1].k \in Asked /\ inbox[1].c \in 1..cmds /\ out.c < inbox[1].c
                 /\ \E r \in Replies(inbox[1].k) :
                       /\ out' = [c |-> inbox[1].c, chunks |-> r.chunks]
                       /\ good' = IF r.good THEN good \cup {inbox[1].c} ELSE good
<1>1. /\ out.chunks = <<>> /\ inbox # <<>> /\ inbox' = Tail(inbox)
      /\ UNCHANGED <<rawResponse, rxBffr, dataMode, cmds, loose, got, asserted, parser>>
      /\ \/ Head(inbox).k = "data" /\ UNCHANGED <<out, good>>
         \/ /\ Head(inbox).k # "data"
            /\ \E r \in Replies(Head(inbox).k) :
                  /\ out' = [c |-> Head(inbox).c, chunks |-> r.chunks]
                  /\ good' = IF r.good THEN good \cup {Head(inbox).c} ELSE good
  BY DEF Serve, ModFrame, cmdVars, histVars
<1>2. inbox \in Seq(Messages(cmds)) /\ Head(inbox) = inbox[1] /\ inbox[1] \in Messages(cmds) /\ 1 \in 1..Len(inbox)
  <2>1. inbox \in Seq(Messages(cmds))
    BY DEF TextInv, Queued
  <2> QED BY <1>1, <2>1
<1>3. inbox[1].k # "data" => inbox[1].k \in Asked /\ inbox[1].c \in 1..cmds /\ out.c < inbox[1].c
  BY <1>2 DEF Messages, TextInv, Queued
<1> QED BY <1>1, <1>2, <1>3

(* The data it waited for, or what it takes for them, or nothing. *)
LEMMA TakeDataIs ==
    ASSUME TextInv, TakeData
    PROVE  LET R == out.chunks
           IN  /\ R # <<>> /\ R[1] = Data /\ R \in Seq(Chunks) /\ Len(R) \in Nat /\ out.c \in 1..cmds
               /\ UNCHANGED <<rawResponse, rxBffr, dataMode, cmds, loose, got, asserted, parser>>
               /\ \/ /\ inbox # <<>> /\ inbox \in Seq(Messages(cmds)) /\ inbox' = Tail(inbox)
                     /\ out' = [c |-> out.c, chunks |-> Tail(R)] /\ Len(Tail(R)) = Len(R) - 1 /\ \A m \in 1..Len(Tail(R)) : Tail(R)[m] = R[m + 1]
                     /\ good' = IF inbox[1] = [k |-> "data", c |-> out.c] THEN good ELSE good \ {out.c}
                  \/ /\ inbox = <<>> /\ inbox' = inbox
                     /\ out' = [c |-> out.c, chunks |-> <<Refusal>>] /\ good' = good \ {out.c}
<1> DEFINE R == out.chunks
<1>1. /\ R # <<>> /\ Head(R) = Data
      /\ UNCHANGED <<rawResponse, rxBffr, dataMode, cmds, loose, got, asserted, parser>>
      /\ \/ /\ inbox # <<>> /\ inbox' = Tail(inbox) /\ out' = [out EXCEPT !.chunks = Tail(R)]
            /\ good' = IF Head(inbox) = [k |-> "data", c |-> out.c] THEN good ELSE good \ {out.c}
         \/ /\ inbox = <<>> /\ inbox' = inbox
            /\ out' = [out EXCEPT !.chunks = <<Refusal>>] /\ good' = good \ {out.c}
  BY DEF TakeData, ModFrame, cmdVars, histVars
<1>2. cmds \in Nat /\ out \in [c : 0..cmds, chunks : Seq(Chunks)] /\ out.c \in 1..cmds /\ inbox \in Seq(Messages(cmds))
  BY <1>1 DEF TextInv, Numbers, Answering, Queued
<1>3. R \in Seq(Chunks) /\ Head(R) = R[1] /\ Len(R) \in Nat /\ Len(Tail(R)) = Len(R) - 1 /\ \A m \in 1..Len(Tail(R)) : Tail(R)[m] = R[m + 1]
  <2>1. R \in Seq(Chunks)
    BY <1>2
  <2> HIDE DEF R
  <2> QED BY <1>1, <2>1
<1>4. inbox # <<>> => Head(inbox) = inbox[1]
  <2>1. inbox \in Seq(Messages(cmds))
    BY <1>2
  <2> QED BY <2>1
<1>5. [out EXCEPT !.chunks = Tail(R)] = [c |-> out.c, chunks |-> Tail(R)] /\ [out EXCEPT !.chunks = <<Refusal>>] = [c |-> out.c, chunks |-> <<Refusal>>]
  <2>1. \A z : [out EXCEPT !.chunks = z] = [c |-> out.c, chunks |-> z]
    BY <1>2
  <2> QED BY <2>1
<1> HIDE DEF R
<1> QED BY <1>1, <1>2, <1>3, <1>4, <1>5 DEF R

LEMMA ModuleOrder == ASSUME TextInv, OrderInv, Serve \/ TakeData \/ Elapse \/ UNCHANGED vars PROVE OrderInv'
<1>1. UNCHANGED <<rawResponse, rxBffr>>
  BY DEF Serve, TakeData, Elapse, ModFrame, vars, cmdVars
<1>2. \A m \in 1..Len(out'.chunks) : Whole(out'.chunks[m])
  <2>1. CASE Serve
    <3>1. CASE out' = out
      BY <3>1 DEF OrderInv
    <3>2. CASE out' # out
      <4>1. PICK r \in Replies(inbox[1].k) : inbox[1].k \in Asked /\ out'.chunks = r.chunks
        BY <2>1, <3>2, ServeIs
      <4>2. Keeps(inbox[1].k, r)
        BY <4>1, RepliesKeep
      <4> QED BY <4>1, <4>2 DEF Keeps
    <3> QED BY <3>1, <3>2
  <2>2. CASE TakeData
    <3> DEFINE R == out.chunks
    <3>1. /\ Len(R) \in Nat
          /\ \/ out'.chunks = Tail(R) /\ Len(Tail(R)) = Len(R) - 1 /\ \A m \in 1..Len(Tail(R)) : Tail(R)[m] = R[m + 1]
             \/ out'.chunks = <<Refusal>>
      <4>1. /\ Len(R) \in Nat
            /\ \/ out' = [c |-> out.c, chunks |-> Tail(R)] /\ Len(Tail(R)) = Len(R) - 1 /\ \A m \in 1..Len(Tail(R)) : Tail(R)[m] = R[m + 1]
               \/ out' = [c |-> out.c, chunks |-> <<Refusal>>]
        <5>1. TextInv /\ TakeData
          BY <2>2
        <5> QED BY ONLY <5>1, TakeDataIs
      <4> HIDE DEF R
      <4> QED BY <4>1
    <3>2. \A m \in 1..Len(R) : Whole(R[m])
      BY DEF OrderInv
    <3> HIDE DEF R
    <3>3. CASE out'.chunks = Tail(R) /\ Len(Tail(R)) = Len(R) - 1 /\ \A m \in 1..Len(Tail(R)) : Tail(R)[m] = R[m + 1]
      <4>1. \A m \in 1..Len(Tail(R)) : m + 1 \in 1..Len(R)
        BY <3>1, <3>3
      <4> QED BY <3>2, <3>3, <4>1
    <3>4. CASE out'.chunks = <<Refusal>>
      <4>1. Whole(Refusal)
        BY SaysWords DEF Says
      <4>2. Len(<<Refusal>>) = 1 /\ <<Refusal>>[1] = Refusal
        OBVIOUS
      <4> QED BY <3>4, <4>1, <4>2
    <3> QED BY <3>1, <3>3, <3>4
  <2>3. CASE Elapse \/ UNCHANGED vars
    <3>1. UNCHANGED out
      BY <2>3 DEF Elapse, vars, modVars
    <3> QED BY <3>1 DEF OrderInv
  <2> QED BY <2>1, <2>2, <2>3
<1> QED BY <1>1, <1>2 DEF OrderInv

LEMMA OrderInit == Init => OrderInv
BY DEF Init, OrderInv, Sorted, Whole

LEMMA OrderStep == LockInv /\ TextInv /\ OrderInv /\ [Next]_vars => OrderInv'
BY OrderCaller, EmitOrder, ModuleOrder DEF Next

LEMMA OrderAlways == Spec => []OrderInv
BY OrderInit, OrderStep, LockAlways, TextAlways, PTL DEF Spec

-----------------------------------------------------------------------------
(* Where the kinds of a part stand in a text. *)
LEMMA PlacesAre ==
    ASSUME NEW T, NEW text \in Seq(T), NEW K, NEW part \in Seq(K), part # <<>>, NEW i \in Places(text, part)
    PROVE  i \in Nat \ {0} /\ \A j \in 1..Len(part) : i + j - 1 \in 1..Len(text) /\ text[i + j - 1].k = part[j]
<1> DEFINE ks == Kinds(text)
           S == {text[j].k : j \in 1..Len(text)}
           n == Len(part)
<1>1. Len(text) \in Nat /\ n \in Nat \ {0}
  OBVIOUS
<1>2. i \in 1..(Len(text) + 1 - n) /\ SubSeq(ks, i, i + n - 1) = part
  BY DEF Places
<1>3. ks \in Seq(S) /\ Len(ks) = Len(text) /\ \A j \in 1..Len(text) : ks[j] = text[j].k
  <2>1. ks = [j \in 1..Len(text) |-> text[j].k]
    BY DEF Kinds
  <2>2. \A j \in 1..Len(text) : text[j].k \in S
    OBVIOUS
  <2> HIDE DEF ks, S
  <2>3. ks \in [1..Len(text) -> S]
    BY <2>1, <2>2
  <2> QED BY <1>1, <2>1, <2>3
<1> HIDE DEF ks, S, n
<1>4. \A j \in 1..n : SubSeq(ks, i, i + n - 1)[j] = ks[i + j - 1]
  <2>1. i \in 1..Len(ks) /\ i + n - 1 \in 1..Len(ks)
    BY <1>1, <1>2, <1>3
  <2> QED BY <1>1, <1>3, <2>1
<1>5. \A j \in 1..n : i + j - 1 \in 1..Len(text)
  BY <1>1, <1>2
<1>6. \A j \in 1..n : text[i + j - 1].k = part[j]
  BY <1>2, <1>3, <1>4, <1>5
<1> QED BY <1>1, <1>2, <1>5, <1>6 DEF n

LEMMA PlaceThere == ASSUME NEW T, NEW text \in Seq(T), NEW i \in 1..Len(text) PROVE i \in Places(text, <<text[i].k>>)
<1> DEFINE ks == Kinds(text)
           S == {text[j].k : j \in 1..Len(text)}
<1>1. ks \in Seq(S) /\ Len(ks) = Len(text) /\ \A j \in 1..Len(text) : ks[j] = text[j].k
  <2>1. ks = [j \in 1..Len(text) |-> text[j].k]
    BY DEF Kinds
  <2>2. \A j \in 1..Len(text) : text[j].k \in S
    OBVIOUS
  <2> HIDE DEF ks, S
  <2>3. ks \in [1..Len(text) -> S]
    BY <2>1, <2>2
  <2> QED BY <2>1, <2>3
<1> DEFINE k == text[i].k
<1>2. ks[i] = k
  BY <1>1
<1> HIDE DEF ks, S, k
<1>3. SubSeq(ks, i, i) = <<k>>
  <2>1. i \in 1..Len(ks)
    BY <1>1
  <2>2. SubSeq(ks, i, i) \in Seq(S) /\ Len(SubSeq(ks, i, i)) = 1 /\ SubSeq(ks, i, i)[1] = ks[i]
    BY <1>1, <2>1
  <2> DEFINE x == SubSeq(ks, i, i)
  <2> HIDE DEF x
  <2>3. x = <<k>>
    <3>1. x \in Seq(S) /\ Len(x) = 1 /\ x[1] = k
      BY <1>2, <2>2 DEF x
    <3> QED BY <3>1
  <2> QED BY <2>3 DEF x
<1>4. Len(<<k>>) = 1 /\ i \in 1..(Len(text) + 1 - 1) /\ i + 1 - 1 = i
  OBVIOUS
<1> QED BY <1>3, <1>4 DEF Places, ks, k

LEMMA FirstIs ==
    ASSUME NEW text, NEW part, Places(text, part) # {}
    PROVE  Min(Places(text, part)) \in Places(text, part) /\ \A h \in Places(text, part) : Min(Places(text, part)) <= h
<1>1. Places(text, part) \in SUBSET Nat
  BY DEF Places
<1> QED BY <1>1, MinLeast

LEMMA HasWhere ==
    ASSUME NEW T, NEW text \in Seq(T), NEW k, Places(text, <<k>>) # {}
    PROVE  LET i == Min(Places(text, <<k>>)) IN i \in 1..Len(text) /\ text[i].k = k /\ \A h \in 1..Len(text) : text[h].k = k => i <= h
<1> DEFINE i == Min(Places(text, <<k>>))
<1>1. i \in Places(text, <<k>>) /\ \A h \in Places(text, <<k>>) : i <= h
  BY FirstIs
<1>2. <<k>> \in Seq({k}) /\ <<k>> # <<>> /\ Len(<<k>>) = 1 /\ <<k>>[1] = k
  OBVIOUS
<1> HIDE DEF i
<1>3. i \in Nat \ {0} /\ i + 1 - 1 \in 1..Len(text) /\ text[i + 1 - 1].k = k
  <2> DEFINE part == <<k>>
  <2>1. part \in Seq({k}) /\ part # <<>> /\ Len(part) = 1 /\ part[1] = k /\ i \in Places(text, part)
    BY <1>1, <1>2
  <2> HIDE DEF part
  <2>2. i \in Nat \ {0} /\ \A j \in 1..Len(part) : i + j - 1 \in 1..Len(text) /\ text[i + j - 1].k = part[j]
    BY <2>1, PlacesAre
  <2>3. 1 \in 1..Len(part)
    BY <2>1
  <2> QED BY <2>1, <2>2, <2>3
<1>4. i + 1 - 1 = i
  BY <1>3
<1>5. \A h \in 1..Len(text) : text[h].k = k => i <= h
  BY <1>1, PlaceThere
<1> QED BY <1>3, <1>4, <1>5 DEF i

-----------------------------------------------------------------------------
(* The response is the end of the text. *)
Behind(p, text) == IF PreamblePlaces(p, text) # {} THEN Min(PreamblePlaces(p, text)) ELSE LineEndsFirst(text)

LEMMA ResponseIs ==
    ASSUME NEW T, NEW text \in Seq(T), NEW p
    PROVE  /\ Response(p, text) \in Seq(T)
           /\ \E m \in Nat : EndOf(Response(p, text), text, m) /\ (PreamblePlaces(p, text) # {} => m = Min(PreamblePlaces(p, text)))
<1> DEFINE m == Behind(p, text)
<1>1. m \in Nat
  <2>1. CASE PreamblePlaces(p, text) # {}
    <3>1. PreamblePlaces(p, text) = Places(text, <<p.pre>>)
      BY <2>1 DEF PreamblePlaces
    <3>2. m = Min(Places(text, <<p.pre>>)) /\ Places(text, <<p.pre>>) # {}
      BY <2>1, <3>1 DEF Behind
    <3> HIDE DEF m
    <3> QED BY <3>2, FirstPlace
  <2>2. CASE PreamblePlaces(p, text) = {}
    <3> DEFINE S == {i \in DOMAIN text : \A j \in 1..i : text[j].k = "eol"}
    <3>1. S \subseteq 1..Len(text) /\ Len(text) \in Nat
      OBVIOUS
    <3>2. m = Cardinality(S)
      BY <2>2 DEF Behind, LineEndsFirst
    <3> HIDE DEF S, m
    <3>3. IsFiniteSet(1..Len(text))
      BY <3>1, FS_Interval
    <3>4. IsFiniteSet(S)
      BY <3>1, <3>3, FS_Subset
    <3> QED BY <3>2, <3>4, FS_CardinalityType
  <2> QED BY <2>1, <2>2
<1>2. Response(p, text) = Rest(text, 1 + m)
  BY DEF Response, Behind
<1>3. PreamblePlaces(p, text) # {} => m = Min(PreamblePlaces(p, text)) /\ m \in 1..Len(text)
  <2>1. ASSUME PreamblePlaces(p, text) # {} PROVE m \in 1..Len(text)
    <3>1. PreamblePlaces(p, text) = Places(text, <<p.pre>>)
      BY <2>1 DEF PreamblePlaces
    <3>2. m = Min(Places(text, <<p.pre>>)) /\ Places(text, <<p.pre>>) # {}
      BY <2>1, <3>1 DEF Behind
    <3> HIDE DEF m
    <3> QED BY <3>2, HasWhere
  <2> QED BY <2>1 DEF Behind
<1> DEFINE n == 1 + m
<1>4. n \in Nat \ {0} /\ n - 1 = m
  BY <1>1
<1> HIDE DEF n, m
<1>5. Rest(text, n) \in Seq(T) /\ EndOf(Rest(text, n), text, IF n <= Len(text) + 1 THEN n - 1 ELSE Len(text))
  BY <1>4, RestIs
<1>6. Len(text) \in Nat /\ (m \in 1..Len(text) => n <= Len(text) + 1)
  BY <1>4
<1> QED BY <1>1, <1>2, <1>3, <1>4, <1>5, <1>6 DEF n

LEMMA Elements == ASSUME NEW T, NEW x \in Seq(T) PROVE Len(x) \in Nat /\ \A j \in 1..Len(x) : x[j] \in T
OBVIOUS

LEMMA Squeezed == \A a, b \in Nat : a >= a /\ (a <= b /\ b <= a => a = b)
OBVIOUS

LEMMA PieceNat == ASSUME NEW n \in Nat PROVE \A q \in Pieces(1..n) : q.c \in Nat /\ q.c \in 1..n
BY DEF Pieces

LEMMA TextNat == ASSUME NEW n \in Nat, NEW x \in Seq(Pieces(1..n)) PROVE Len(x) \in Nat /\ \A j \in 1..Len(x) : x[j].c \in Nat /\ x[j].c \in 1..n
<1> DEFINE S == Pieces(1..n)
<1> HIDE DEF S
<1>1. x \in Seq(S)
  BY DEF S
<1>2. Len(x) \in Nat /\ \A j \in 1..Len(x) : x[j] \in S
  BY <1>1, Elements
<1> QED BY <1>2, PieceNat DEF S

(* What a verdict says. *)
LEMMA VerdictIs ==
    ASSUME NEW p, NEW text
    PROVE  LET v == Verdict(p, text)
           IN  /\ v = "moduleError" => Has(text, "ERROR") /\ Decider(p, text) = text[Min(Places(text, <<"ERROR">>))].c
               /\ v = "success" => /\ p.pre = "" \/ PreamblePlaces(p, text) # {}
                                   /\ p.finale = <<>> \/ Places(Response(p, text), p.finale) # {}
                                   /\ Decider(p, text) = IF p.finale = <<>> THEN text[Min(PreamblePlaces(p, text))].c
                                                         ELSE Response(p, text)[Min(Places(Response(p, text), p.finale))].c
               /\ v \notin {"moduleError", "success"} => Decider(p, text) = 0
               /\ v \in {"moduleError", "pending", "preambleMissing", "countShort", "success"}
<1>1. LET v == Verdict(p, text)
      IN  /\ v = "moduleError" => Has(text, "ERROR")
          /\ v = "success" => /\ p.pre = "" \/ PreamblePlaces(p, text) # {}
                              /\ p.finale = <<>> \/ Places(Response(p, text), p.finale) # {}
          /\ v \in {"moduleError", "pending", "preambleMissing", "countShort", "success"}
  BY DEF Verdict
<1>2. LET v == Verdict(p, text)
      IN  /\ v = "moduleError" => Decider(p, text) = text[Min(Places(text, <<"ERROR">>))].c
          /\ v = "success" => Decider(p, text) = IF p.finale = <<>> THEN text[Min(PreamblePlaces(p, text))].c
                                                 ELSE Response(p, text)[Min(Places(Response(p, text), p.finale))].c
          /\ v \notin {"moduleError", "success"} => Decider(p, text) = 0
  BY DEF Decider
<1> QED BY <1>1, <1>2

-----------------------------------------------------------------------------
(* Which command decided: the words that the parser looks for are of it,   *)
(* or of a later one.                                                      *)
Judged(text, d, w) == \E j \in 1..Len(text) : text[j].k = w /\ text[j].c >= d
Texted(text, d)    == \E j \in 1..Len(text) : text[j].c = d

LEMMA ErrorJudged ==
    ASSUME NEW n \in Nat, NEW x \in Seq(Pieces(1..n)), NEW p, Verdict(p, x) = "moduleError"
    PROVE  Texted(x, Decider(p, x)) /\ Judged(x, Decider(p, x), "ERROR")
<1>1. Has(x, "ERROR") /\ Decider(p, x) = x[Min(Places(x, <<"ERROR">>))].c
  BY VerdictIs
<1> DEFINE i == Min(Places(x, <<"ERROR">>))
<1>2. i \in 1..Len(x) /\ x[i].k = "ERROR"
  BY <1>1, HasPlace, HasWhere
<1> HIDE DEF i
<1>3. x[i].c \in Nat
  <2>1. x[i] \in Pieces(1..n)
    BY <1>2
  <2> QED BY <2>1 DEF Pieces
<1>4. Decider(p, x) = x[i].c
  BY <1>1 DEF i
<1>5. x[i].c >= x[i].c
  BY <1>3
<1> QED BY <1>2, <1>4, <1>5 DEF Texted, Judged

(* What ends the response ends with an OK behind the piece that decides. *)
LEMMA OkayJudged ==
    ASSUME NEW n \in Nat, NEW x \in Seq(Pieces(1..n)), Sorted(x), NEW p, Verdict(p, x) = "success",
           p.finale \in Seq({"eol", "OK"}), p.finale # <<>>, NEW w, NEW a \in 1..Len(p.finale), p.finale[a] = w
    PROVE  Texted(x, Decider(p, x)) /\ Judged(x, Decider(p, x), w)
<1> DEFINE R == Response(p, x)
           f == p.finale
           i == Min(Places(R, f))
<1>1. Places(R, f) # {} /\ Decider(p, x) = R[i].c
  BY VerdictIs
<1>2. R \in Seq(Pieces(1..n)) /\ \E m \in Nat : EndOf(R, x, m)
  BY ResponseIs
<1> HIDE DEF R
<1>3. PICK m \in Nat : EndOf(R, x, m)
  BY <1>2
<1>4. i \in Places(R, f)
  BY <1>1, FirstIs
<1> HIDE DEF i
<1>5. i \in Nat \ {0} /\ \A j \in 1..Len(f) : i + j - 1 \in 1..Len(R) /\ R[i + j - 1].k = f[j]
  <2> HIDE DEF f
  <2>1. f \in Seq({"eol", "OK"}) /\ f # <<>>
    BY DEF f
  <2> QED BY <1>2, <1>4, <2>1, PlacesAre
<1>6. 1 \in 1..Len(f) /\ a \in 1..Len(f) /\ a \in Nat /\ a >= 1
  OBVIOUS
<1>7. i \in 1..Len(R) /\ i + a - 1 \in 1..Len(R) /\ R[i + a - 1].k = w
  <2>1. i + 1 - 1 = i
    BY <1>5
  <2> QED BY <1>5, <1>6, <2>1
<1>8. \A j \in 1..Len(R) : m + j \in 1..Len(x) /\ R[j] = x[m + j]
  <2>1. Len(x) \in Nat
    OBVIOUS
  <2>2. EndOf(R, x, m)
    BY <1>3
  <2>3. \A j \in 1..Len(R) : m + j \in 1..Len(x) /\ R[j] = x[m + j]
    BY ONLY <2>1, <2>2, EndPlaces
  <2> QED BY <2>3
<1>9. m + i \in 1..Len(x) /\ m + (i + a - 1) \in (m + i)..Len(x) /\ m + (i + a - 1) \in 1..Len(x)
  <2>1. m + i \in 1..Len(x) /\ m + (i + a - 1) \in 1..Len(x)
    BY <1>7, <1>8
  <2>2. m \in Nat /\ i \in Nat /\ a \in Nat /\ a >= 1
    BY <1>5, <1>6
  <2> QED BY ONLY <2>1, <2>2
<1>10. x[m + i].c <= x[m + (i + a - 1)].c
  BY <1>9 DEF Sorted
<1>11. Decider(p, x) = x[m + i].c /\ x[m + (i + a - 1)].k = w
  BY <1>1, <1>7, <1>8
<1>12. x[m + i].c \in Nat /\ x[m + (i + a - 1)].c \in Nat
  <2>1. \A j \in 1..Len(x) : x[j].c \in Nat
    BY TextNat
  <2> QED BY <1>9, <2>1
<1> QED BY <1>9, <1>10, <1>11, <1>12 DEF Texted, Judged

(* A preamble is on the line that decides. *)
LEMMA PreambleJudged ==
    ASSUME NEW n \in Nat, NEW x \in Seq(Pieces(1..n)), Sorted(x), Whole(x), NEW p, Verdict(p, x) = "success", p.pre # "",
           p.finale = <<>> \/ (p.finale = <<"eol">> /\ p.pre \in Preambles)
    PROVE  /\ Texted(x, Decider(p, x)) /\ Judged(x, Decider(p, x), p.pre)
           /\ LET m == Min(PreamblePlaces(p, x))
              IN  m \in 1..Len(x) /\ x[m].k = p.pre /\ x[m].c = Decider(p, x) /\ EndOf(Response(p, x), x, m)
<1> DEFINE m == Min(PreamblePlaces(p, x))
           R == Response(p, x)
           S == Pieces(1..n)
<1> HIDE DEF S
<1>0. x \in Seq(S) /\ Len(x) \in Nat /\ \A j \in 1..Len(x) : x[j].c \in Nat
  <2>1. x \in Seq(S)
    BY DEF S
  <2>2. Len(x) \in Nat /\ \A j \in 1..Len(x) : x[j].c \in Nat
    BY TextNat
  <2> QED BY <2>1, <2>2
<1>1. PreamblePlaces(p, x) # {} /\ PreamblePlaces(p, x) = Places(x, <<p.pre>>)
  BY VerdictIs DEF PreamblePlaces
<1>2. m \in 1..Len(x) /\ x[m].k = p.pre
  <2>1. Places(x, <<p.pre>>) # {} /\ m = Min(Places(x, <<p.pre>>))
    BY <1>1
  <2> HIDE DEF m
  <2> QED BY ONLY <1>0, <2>1, HasWhere
<1>3. R \in Seq(S) /\ EndOf(R, x, m)
  BY <1>0, <1>1, ResponseIs
<1> HIDE DEF m, R
<1>4. x[m].c = Decider(p, x)
  <2>1. CASE p.finale = <<>>
    BY <2>1, VerdictIs DEF m
  <2>2. CASE p.finale = <<"eol">> /\ p.pre \in Preambles
    <3> DEFINE i == Min(Places(R, <<"eol">>))
    <3>1. Places(R, <<"eol">>) # {} /\ Decider(p, x) = R[i].c
      <4>1. p.finale = <<"eol">> /\ <<"eol">> # <<>>
        BY <2>2
      <4>2. p.finale # <<>>
        BY <4>1
      <4>3. /\ Places(Response(p, x), p.finale) # {}
            /\ Decider(p, x) = Response(p, x)[Min(Places(Response(p, x), p.finale))].c
        BY <4>2, VerdictIs
      <4> QED BY <4>1, <4>3 DEF R
    <3>2. i \in 1..Len(R) /\ R[i].k = "eol" /\ \A h \in 1..Len(R) : R[h].k = "eol" => i <= h
      BY <1>3, <3>1, HasWhere
    <3> HIDE DEF i
    <3>3. /\ \A j \in 1..Len(R) : m + j \in 1..Len(x) /\ R[j] = x[m + j]
          /\ \A j \in 1..Len(x) : j \in 1..m \/ (j - m \in 1..Len(R) /\ j = m + (j - m))
          /\ m \in Nat /\ Len(R) \in Nat
      <4>1. Len(x) \in Nat /\ EndOf(R, x, m)
        BY <1>0, <1>3
      <4> QED BY ONLY <4>1, EndPlaces
    <3>4. PICK j \in (m + 1)..Len(x) : x[j].k = "eol" /\ x[j].c = x[m].c
      BY <1>2, <2>2 DEF Whole
    <3>5. j - m \in 1..Len(R) /\ R[j - m] = x[j] /\ j \in 1..Len(x)
      <4>1. j \in 1..Len(x) /\ j \notin 1..m
        <5>1. m \in Nat /\ Len(x) \in Nat /\ j \in (m + 1)..Len(x)
          BY <1>0, <3>3, <3>4
        <5> QED BY ONLY <5>1
      <4>2. j - m \in 1..Len(R) /\ j = m + (j - m)
        BY <3>3, <4>1
      <4>3. R[j - m] = x[m + (j - m)]
        BY <3>3, <4>2
      <4> QED BY <4>1, <4>2, <4>3
    <3>6. i <= j - m
      BY <3>2, <3>4, <3>5
    <3>7. m + i \in 1..Len(x) /\ R[i] = x[m + i]
      BY <3>2, <3>3
    <3>8. m + i \in m..Len(x) /\ j \in (m + i)..Len(x)
      <4>1. /\ i \in 1..Len(R) /\ Len(R) \in Nat /\ j \in 1..Len(x) /\ m \in Nat /\ Len(x) \in Nat
            /\ i <= j - m /\ m + i \in 1..Len(x)
        BY <1>0, <3>2, <3>3, <3>5, <3>6, <3>7
      <4> QED BY ONLY <4>1
    <3>9. x[m].c <= x[m + i].c /\ x[m + i].c <= x[j].c
      BY <1>2, <3>7, <3>8 DEF Sorted
    <3>10. x[m].c \in Nat /\ x[m + i].c \in Nat
      BY <1>0, <1>2, <3>7
    <3>11. x[m].c = x[m + i].c
      BY <3>4, <3>9, <3>10, Squeezed
    <3> QED BY <3>1, <3>7, <3>11
  <2> QED BY <2>1, <2>2
<1>5. x[m].c >= x[m].c
  <2>1. x[m].c \in Nat
    BY <1>0, <1>2
  <2> QED BY <2>1, Squeezed
<1> QED BY <1>2, <1>3, <1>4, <1>5 DEF Texted, Judged, m, R

-----------------------------------------------------------------------------
(* The word that says who decided, for each of the parsers. *)
OkayEnds(p) == p.finale \in Seq({"eol", "OK"}) /\ p.finale # <<>> /\ \E a \in 1..Len(p.finale) : p.finale[a] = "OK"
LineEnds(p) == p.pre # "" /\ (p.finale = <<>> \/ (p.finale = <<"eol">> /\ p.pre \in Preambles))
Witness(p)  == IF p.pre \in {"", "ICCID"} THEN "OK" ELSE p.pre
Judges(p)   == IF p.pre \in {"", "ICCID"} THEN OkayEnds(p) ELSE LineEnds(p)

LEMMA ParsersJudge == \A k : Judges(ParserOf(k))
<1>1. Judges(ATCMD_okResponseParser)
  <2> DEFINE p == ATCMD_okResponseParser
             f == <<"OK", "eol">>
  <2>1. p.pre = "" /\ p.finale = f
    BY DEF ATCMD_okResponseParser, Std
  <2>2. f \in Seq({"eol", "OK"}) /\ f # <<>> /\ 1 \in 1..Len(f) /\ f[1] = "OK"
    OBVIOUS
  <2> HIDE DEF p, f
  <2> QED BY <2>1, <2>2 DEF Judges, OkayEnds, p
<1>2. Judges(S__iccidCompleteParser)
  <2> DEFINE p == S__iccidCompleteParser
             f == <<"eol", "eol", "OK", "eol">>
  <2>1. p.pre = "ICCID" /\ p.finale = f
    BY DEF S__iccidCompleteParser, Std
  <2>2. f \in Seq({"eol", "OK"}) /\ f # <<>> /\ 3 \in 1..Len(f) /\ f[3] = "OK"
    OBVIOUS
  <2> HIDE DEF p, f
  <2> QED BY <2>1, <2>2 DEF Judges, OkayEnds, p
<1>3. Judges(gnssLocCompleteParser) /\ Judges(S__udptcpOpenCompleteParser)
  BY DEF gnssLocCompleteParser, S__udptcpOpenCompleteParser, Std, Judges, LineEnds
<1>4. Judges(S__adcValueParser) /\ Judges(S__ioValueParser) /\ Judges(S__writeStatusParser)
  BY DEF S__adcValueParser, S__ioValueParser, S__writeStatusParser, Std, Judges, LineEnds, Preambles
<1>5. Judges(S__httpGetStatusParser) /\ Judges(S__httpPostStatusParser)
  BY DEF S__httpGetStatusParser, S__httpPostStatusParser, Std, Judges, LineEnds, Preambles
<1> QED BY <1>1, <1>2, <1>3, <1>4, <1>5 DEF ParserOf

LEMMA Decided ==
    ASSUME NEW n \in Nat, NEW x \in Seq(Pieces(1..n)), Sorted(x), Whole(x), NEW p, Judges(p)
    PROVE  LET d == Decider(p, x)  v == Verdict(p, x)
           IN  /\ v = "moduleError" => d # 0 /\ Texted(x, d) /\ Judged(x, d, "ERROR")
               /\ v = "success" => d # 0 /\ Texted(x, d) /\ Judged(x, d, Witness(p))
               /\ v \notin {"moduleError", "success"} => d = 0
<1> DEFINE d == Decider(p, x)
           v == Verdict(p, x)
<1>1. v = "moduleError" => Texted(x, d) /\ Judged(x, d, "ERROR")
  BY ErrorJudged
<1>2. v = "success" => Texted(x, d) /\ Judged(x, d, Witness(p))
  <2> SUFFICES ASSUME v = "success" PROVE Texted(x, d) /\ Judged(x, d, Witness(p))
    OBVIOUS
  <2>1. CASE p.pre \in {"", "ICCID"}
    <3>1. OkayEnds(p) /\ Witness(p) = "OK"
      BY <2>1 DEF Judges, Witness
    <3>2. PICK a \in 1..Len(p.finale) : p.finale[a] = "OK"
      BY <3>1 DEF OkayEnds
    <3>3. p.finale \in Seq({"eol", "OK"}) /\ p.finale # <<>>
      BY <3>1 DEF OkayEnds
    <3>4. Texted(x, Decider(p, x)) /\ Judged(x, Decider(p, x), "OK")
      BY <3>2, <3>3, OkayJudged
    <3> QED BY <3>1, <3>4
  <2>2. CASE p.pre \notin {"", "ICCID"}
    <3>1. LineEnds(p) /\ Witness(p) = p.pre
      BY <2>2 DEF Judges, Witness
    <3>2. p.pre # "" /\ (p.finale = <<>> \/ (p.finale = <<"eol">> /\ p.pre \in Preambles))
      BY <3>1 DEF LineEnds
    <3>3. Texted(x, Decider(p, x)) /\ Judged(x, Decider(p, x), p.pre)
      BY <3>2, PreambleJudged
    <3> QED BY <3>1, <3>3
  <2> QED BY <2>1, <2>2
<1>3. v \notin {"moduleError", "success"} => d = 0
  BY VerdictIs
<1>4. Texted(x, d) => d # 0
  <2>1. \A j \in 1..Len(x) : x[j].c \in 1..n
    BY TextNat
  <2>2. 0 \notin 1..n
    OBVIOUS
  <2> QED BY <2>1, <2>2 DEF Texted
<1> QED BY <1>1, <1>2, <1>3, <1>4

-----------------------------------------------------------------------------
(* The status of a request, from the tokens of the line that ends it.      *)
LEMMA NoDelimiter == ASSUME NEW x, NEW T, x \in Seq(T), \A j \in 1..Len(x) : x[j].k # "dlm" PROVE Cardinality(Places(x, <<"dlm">>)) = 0
<1>1. Places(x, <<"dlm">>) = {}
  BY HasWhere
<1> QED BY <1>1, FS_EmptySet

LEMMA Delimiters ==
    ASSUME NEW T, NEW x \in Seq(T)
    PROVE  /\ Places(x, <<"dlm">>) = {j \in 1..Len(x) : x[j].k = "dlm"}
           /\ IsFiniteSet(Places(x, <<"dlm">>))
<1> DEFINE D == Places(x, <<"dlm">>)
<1>1. \A j \in 1..Len(x) : x[j].k = "dlm" => j \in D
  BY PlaceThere
<1>2. \A i \in D : i \in 1..Len(x) /\ x[i].k = "dlm"
  <2> DEFINE part == <<"dlm">>
  <2>1. part \in Seq({"dlm"}) /\ part # <<>> /\ Len(part) = 1 /\ part[1] = "dlm"
    OBVIOUS
  <2> HIDE DEF part
  <2>2. ASSUME NEW i \in Places(x, part) PROVE i \in 1..Len(x) /\ x[i].k = "dlm"
    <3>1. i \in Nat \ {0} /\ \A j \in 1..Len(part) : i + j - 1 \in 1..Len(x) /\ x[i + j - 1].k = part[j]
      BY <2>1, PlacesAre
    <3>2. 1 \in 1..Len(part) /\ i + 1 - 1 = i
      BY <2>1, <3>1
    <3> QED BY <2>1, <3>1, <3>2
  <2> QED BY <2>2 DEF part
<1> HIDE DEF D
<1>3. D = {j \in 1..Len(x) : x[j].k = "dlm"}
  BY <1>1, <1>2
<1>4. IsFiniteSet(D)
  <2>1. Len(x) \in Nat
    OBVIOUS
  <2>2. IsFiniteSet(1..Len(x)) /\ D \subseteq 1..Len(x)
    BY <1>3, <2>1, FS_Interval
  <2> QED BY <2>2, FS_Subset
<1> QED BY <1>3, <1>4 DEF D

(* The delimiters before the i-th piece. *)
Before(x, i) == SubSeq(x, 1, i - 1)
LEMMA BeforeIs ==
    ASSUME NEW T, NEW x \in Seq(T), NEW i \in 1..Len(x)
    PROVE  LET D == Places(Before(x, i), <<"dlm">>)
           IN  D = {j \in 1..(i - 1) : x[j].k = "dlm"} /\ IsFiniteSet(D) /\ Cardinality(D) \in Nat
<1> DEFINE y == Before(x, i)
<1>1. y \in Seq(T) /\ Len(y) = i - 1 /\ \A j \in 1..(i - 1) : y[j] = x[j]
  BY DEF Before
<1> HIDE DEF y
<1>2. Places(y, <<"dlm">>) = {j \in 1..Len(y) : y[j].k = "dlm"} /\ IsFiniteSet(Places(y, <<"dlm">>))
  BY <1>1, Delimiters
<1>3. Places(y, <<"dlm">>) = {j \in 1..(i - 1) : x[j].k = "dlm"}
  BY <1>1, <1>2
<1> QED BY <1>2, <1>3, FS_CardinalityType DEF y

LEMMA FirstToken ==
    ASSUME NEW T, NEW x \in Seq(T), Len(x) >= 1, x[1].k = "tok"
    PROVE  TokenAt(x, 1) = x[1].v
<1> DEFINE at == {i \in DOMAIN x : (i = 1 \/ x[i - 1].k = "dlm") /\ Cardinality(Places(SubSeq(x, 1, i - 1), <<"dlm">>)) = 1 - 1}
<1>1. \A i \in 1..Len(x) : i \in at <=> i = 1
  <2>1. ASSUME NEW i \in 1..Len(x) PROVE i \in at <=> i = 1
    <3> DEFINE D == Places(Before(x, i), <<"dlm">>)
    <3>1. D = {j \in 1..(i - 1) : x[j].k = "dlm"} /\ IsFiniteSet(D) /\ Cardinality(D) \in Nat
      BY BeforeIs
    <3>2. i \in at <=> (i = 1 \/ x[i - 1].k = "dlm") /\ Cardinality(D) = 0
      BY DEF Before
    <3> HIDE DEF D, at
    <3>3. Cardinality(D) = 0 <=> D = {}
      BY <3>1, FS_EmptySet
    <3>4. i = 1 => D = {}
      BY <3>1
    <3>5. i # 1 /\ x[i - 1].k = "dlm" => i - 1 \in D
      BY <3>1
    <3> QED BY <3>2, <3>3, <3>4, <3>5
  <2> QED BY <2>1
<1>2. Len(x) \in Nat /\ DOMAIN x = 1..Len(x)
  OBVIOUS
<1>3. at = {1}
  <2>1. at \subseteq 1..Len(x) /\ 1 \in 1..Len(x)
    BY <1>2
  <2> HIDE DEF at
  <2> QED BY <1>1, <2>1
<1>4. TokenAt(x, 1) = IF \E i \in at : x[i].k = "tok" THEN x[CHOOSE i \in at : x[i].k = "tok"].v ELSE 0
  BY DEF TokenAt
<1> HIDE DEF at
<1> QED BY <1>3, <1>4

LEMMA SecondToken ==
    ASSUME NEW T, NEW x \in Seq(T), Len(x) >= 3, x[1].k = "tok", x[2].k = "dlm", x[3].k = "tok"
    PROVE  TokenAt(x, 2) = x[3].v
<1> DEFINE at == {i \in DOMAIN x : (i = 1 \/ x[i - 1].k = "dlm") /\ Cardinality(Places(SubSeq(x, 1, i - 1), <<"dlm">>)) = 2 - 1}
<1>1. \A i \in 1..Len(x) : i \in at <=> i = 3
  <2>1. ASSUME NEW i \in 1..Len(x) PROVE i \in at <=> i = 3
    <3> DEFINE D == Places(Before(x, i), <<"dlm">>)
    <3>1. D = {j \in 1..(i - 1) : x[j].k = "dlm"} /\ IsFiniteSet(D) /\ Cardinality(D) \in Nat
      BY BeforeIs
    <3>2. i \in at <=> (i = 1 \/ x[i - 1].k = "dlm") /\ Cardinality(D) = 1
      BY DEF Before
    <3> HIDE DEF D, at
    <3>3. Cardinality(D) = 1 <=> \E d : D = {d}
      <4>1. IsFiniteSet(D)
        BY <3>1
      <4> QED BY ONLY <4>1, FS_Singleton
    <3>4. CASE i <= 2
      <4>1. D = {}
        BY <3>1, <3>4
      <4> QED BY <3>3, <3>2, <3>4, <4>1
    <3>5. CASE i = 3
      <4>1. D = {2}
        <5>1. \A j \in 1..(i - 1) : j = 1 \/ j = 2
          BY <3>5
        <5>2. 2 \in 1..(i - 1)
          BY <3>5
        <5> QED BY <3>1, <5>1, <5>2
      <4>2. x[i - 1].k = "dlm"
        BY <3>5
      <4> QED BY <3>2, <3>3, <3>5, <4>1, <4>2
    <3>6. CASE i > 3
      <4>1. 2 \in D /\ i # 1 /\ i # 3 /\ 2 # i - 1
        BY <3>1, <3>6
      <4>2. x[i - 1].k = "dlm" => i - 1 \in D
        BY <3>1, <3>6
      <4> QED BY <3>2, <3>3, <4>1, <4>2
    <3> QED BY <3>4, <3>5, <3>6
  <2> QED BY <2>1
<1>2. Len(x) \in Nat /\ DOMAIN x = 1..Len(x)
  OBVIOUS
<1>3. at = {3}
  <2>1. at \subseteq 1..Len(x) /\ 3 \in 1..Len(x)
    BY <1>2
  <2> HIDE DEF at
  <2> QED BY <1>1, <2>1
<1>4. TokenAt(x, 2) = IF \E i \in at : x[i].k = "tok" THEN x[CHOOSE i \in at : x[i].k = "tok"].v ELSE 0
  BY DEF TokenAt
<1> HIDE DEF at
<1> QED BY <1>3, <1>4

(* A request that succeeds by the line of a command, with the status 200. *)
LEMMA StatusIs ==
    ASSUME NEW n \in Nat, NEW x \in Seq(Pieces(1..n)), Sorted(x), Whole(x), NEW g,
           Verdict(S__httpGetStatusParser, x) = "success",
           \A j \in 1..Len(x) : x[j].c = Decider(S__httpGetStatusParser, x) => Status(x, j, g),
           ValueOf(S__httpGetStatusParser, x) = 0, S__parseResponseForHttpStatus(x) = 200
    PROVE  g
<1> DEFINE p == S__httpGetStatusParser
           m == Min(PreamblePlaces(p, x))
           R == Response(p, x)
           S == Pieces(1..n)
<1>1. p.pre = "QHTTPGET" /\ p.finale = <<"eol">> /\ p.valueIndx = 1 /\ p.pre # "" /\ p.pre \in Preambles
  BY DEF S__httpGetStatusParser, Std, Preambles
<1>2. Verdict(p, x) = "success"
  OBVIOUS
<1>3. \A j \in 1..Len(x) : x[j].c = Decider(p, x) => Status(x, j, g)
  OBVIOUS
<1>4. TokenAt(R, 1) = 0
  BY <1>1, <1>2 DEF ValueOf
<1>5. (\E i \in DOMAIN x : x[i].k = "QHTTPGET") => TokenAt(R, 2) = 200
  BY DEF S__parseResponseForHttpStatus, Has
<1> HIDE DEF p
<1>6. m \in 1..Len(x) /\ x[m].k = "QHTTPGET" /\ x[m].c = Decider(p, x) /\ EndOf(R, x, m)
  <2>1. p.finale = <<>> \/ (p.finale = <<"eol">> /\ p.pre \in Preambles)
    BY <1>1
  <2>2. Verdict(p, x) = "success" /\ p.pre # ""
    BY <1>1, <1>2
  <2>3. n \in Nat /\ x \in Seq(Pieces(1..n)) /\ Sorted(x) /\ Whole(x)
    OBVIOUS
  <2>4. m \in 1..Len(x) /\ x[m].k = p.pre /\ x[m].c = Decider(p, x) /\ EndOf(R, x, m)
    BY ONLY <2>1, <2>2, <2>3, PreambleJudged
  <2> QED BY <1>1, <2>4
<1> HIDE DEF m
<1>7. x \in Seq(S) /\ Len(x) \in Nat /\ R \in Seq(S) /\ DOMAIN x = 1..Len(x)
  BY ResponseIs
<1> HIDE DEF R, S
<1>8. /\ \A j \in 1..Len(R) : m + j \in 1..Len(x) /\ R[j] = x[m + j]
      /\ m \in Nat /\ Len(R) \in Nat /\ Len(x) = m + Len(R)
  <2>1. EndOf(R, x, m) /\ Len(x) \in Nat
    BY <1>6, <1>7
  <2> QED BY ONLY <2>1, EndPlaces
<1>9. /\ m + 1 <= Len(x) /\ x[m + 1].k = "tok"
      /\ x[m + 1].v = 0 => m + 3 <= Len(x) /\ x[m + 2].k = "dlm" /\ x[m + 3].k = "tok" /\ (x[m + 3].v = 200 => g)
  BY <1>3, <1>6 DEF Status
<1>10. R[1] = x[m + 1] /\ Len(R) >= 1
  <2>1. 1 \in 1..Len(R)
    BY <1>8, <1>9
  <2> QED BY <1>8, <2>1
<1>11. x[m + 1].v = 0
  BY <1>4, <1>7, <1>9, <1>10, FirstToken
<1>12. R[2] = x[m + 2] /\ R[3] = x[m + 3] /\ Len(R) >= 3
  <2>1. 2 \in 1..Len(R) /\ 3 \in 1..Len(R)
    BY <1>8, <1>9, <1>11
  <2> QED BY <1>8, <2>1
<1>13. TokenAt(R, 2) = x[m + 3].v
  BY <1>7, <1>9, <1>10, <1>11, <1>12, SecondToken
<1>14. TokenAt(R, 2) = 200
  BY <1>5, <1>6, <1>7
<1> QED BY <1>9, <1>11, <1>13, <1>14

-----------------------------------------------------------------------------
(* What a line says is said at the end of a text, and by what reads alike. *)
LEMMA LineEnd ==
    ASSUME NEW x, NEW y, NEW n, EndOf(x, y, n), Len(y) \in Nat, NEW k, NEW g, NEW j \in 1..Len(x)
    PROVE  /\ LineOf(k, x, j, g) <=> LineOf(k, y, n + j, g)
           /\ Status(x, j, g) <=> Status(y, n + j, g)
<1> DEFINE p == Len(x)
           q == Len(y)
<1>1. n \in Nat /\ p \in Nat /\ q = n + p /\ j \in 1..p /\ \A i \in 1..p : x[i] = y[n + i]
  BY EndPlaces
<1>2. /\ x[j] = y[n + j] /\ j \in Nat
      /\ j + 1 <= p <=> n + j + 1 <= q
      /\ j + 2 <= p <=> n + j + 2 <= q
      /\ j + 3 <= p <=> n + j + 3 <= q
      /\ p = j + 2 <=> q = n + j + 2
      /\ p = j + 1 <=> q = n + j + 1
  <2> HIDE DEF p, q
  <2> QED BY <1>1
<1>3. /\ j + 1 <= p => x[j + 1] = y[n + j + 1]
      /\ j + 2 <= p => x[j + 2] = y[n + j + 2]
      /\ j + 3 <= p => x[j + 3] = y[n + j + 3]
  <2> HIDE DEF p, q
  <2>1. n + (j + 1) = n + j + 1 /\ n + (j + 2) = n + j + 2 /\ n + (j + 3) = n + j + 3
    BY <1>1
  <2>2. (j + 1 <= p => j + 1 \in 1..p) /\ (j + 2 <= p => j + 2 \in 1..p) /\ (j + 3 <= p => j + 3 \in 1..p)
    BY <1>1
  <2> QED BY <1>1, <2>1, <2>2
<1>4. j + 3 <= p => j + 1 <= p /\ j + 2 <= p
  <2> HIDE DEF p, q
  <2> QED BY <1>1
<1>5. p = j + 2 => j + 1 <= p
  <2> HIDE DEF p, q
  <2> QED BY <1>1
<1>6. Status(x, j, g) <=> Status(y, n + j, g)
  <2> HIDE DEF p, q
  <2>1. Status(x, j, g) <=> (x[j].k = "QHTTPGET" =>
            /\ j + 1 <= p /\ x[j + 1].k = "tok"
            /\ x[j + 1].v = 0 => j + 3 <= p /\ x[j + 2].k = "dlm" /\ x[j + 3].k = "tok" /\ (x[j + 3].v = 200 => g))
    BY DEF Status, p
  <2>2. Status(y, n + j, g) <=> (y[n + j].k = "QHTTPGET" =>
            /\ n + j + 1 <= q /\ y[n + j + 1].k = "tok"
            /\ y[n + j + 1].v = 0 => n + j + 3 <= q /\ y[n + j + 2].k = "dlm" /\ y[n + j + 3].k = "tok" /\ (y[n + j + 3].v = 200 => g))
    BY DEF Status, q
  <2> QED BY <1>2, <1>3, <1>4, <2>1, <2>2
<1>7. LineOf(k, x, j, g) <=> LineOf(k, y, n + j, g)
  <2> HIDE DEF p, q
  <2>1. LineOf(k, x, j, g) <=> /\ k \in GetKinds => Status(x, j, g)
                               /\ k = "QHTTPREAD" /\ x[j].k = "QHTTPREAD" => p = j + 2 /\ (x[j + 1].v = 0 => g)
                               /\ k = "QHTTPURL" /\ x[j].k = "OK" => p = j + 1
    BY DEF LineOf, p
  <2>2. LineOf(k, y, n + j, g) <=> /\ k \in GetKinds => Status(y, n + j, g)
                                   /\ k = "QHTTPREAD" /\ y[n + j].k = "QHTTPREAD" => q = n + j + 2 /\ (y[n + j + 1].v = 0 => g)
                                   /\ k = "QHTTPURL" /\ y[n + j].k = "OK" => q = n + j + 1
    BY DEF LineOf, q
  <2> QED BY <1>2, <1>3, <1>5, <1>6, <2>1, <2>2
<1> QED BY <1>6, <1>7

LEMMA LineLike ==
    ASSUME NEW x, NEW y, Len(x) = Len(y), Len(x) \in Nat, \A i \in 1..Len(x) : y[i].k = x[i].k /\ y[i].v = x[i].v,
           NEW k, NEW g, NEW j \in 1..Len(x), LineOf(k, x, j, g)
    PROVE  LineOf(k, y, j, g)
<1> DEFINE p == Len(x)
<1>1. /\ j \in Nat /\ x[j].k = y[j].k
      /\ j + 1 <= p => x[j + 1].k = y[j + 1].k /\ x[j + 1].v = y[j + 1].v
      /\ j + 2 <= p => x[j + 2].k = y[j + 2].k
      /\ j + 3 <= p => x[j + 3].k = y[j + 3].k /\ x[j + 3].v = y[j + 3].v
      /\ j + 3 <= p => j + 2 <= p /\ j + 1 <= p
      /\ p = j + 2 => j + 1 <= p
  OBVIOUS
<1>2. p = Len(y) /\ p = Len(x)
  OBVIOUS
<1> HIDE DEF p
<1>3. k \in GetKinds => Status(y, j, g)
  <2>1. k \in GetKinds => Status(x, j, g)
    BY DEF LineOf
  <2> QED BY <1>1, <1>2, <2>1 DEF Status
<1>4. k = "QHTTPREAD" /\ y[j].k = "QHTTPREAD" => Len(y) = j + 2 /\ (y[j + 1].v = 0 => g)
  BY <1>1, <1>2 DEF LineOf
<1>5. k = "QHTTPURL" /\ y[j].k = "OK" => Len(y) = j + 1
  BY <1>1, <1>2 DEF LineOf
<1> QED BY <1>3, <1>4, <1>5 DEF LineOf

LEMMA StatusCat ==
    ASSUME NEW T, NEW a \in Seq(T), NEW b \in Seq(T), NEW g, NEW j \in 1..Len(a), Status(a, j, g)
    PROVE  Status(a \o b, j, g)
<1> DEFINE y == a \o b
           p == Len(a)
           q == Len(y)
<1>1. p \in Nat /\ q \in Nat /\ p <= q /\ \A i \in 1..p : y[i] = a[i]
  BY CatIs
<1>2. p = Len(a) /\ q = Len(y) /\ j \in 1..p
  OBVIOUS
<1> HIDE DEF y, p, q
<1>3. /\ y[j] = a[j]
      /\ j + 1 <= p => j + 1 <= q /\ y[j + 1] = a[j + 1]
      /\ j + 3 <= p => j + 3 <= q /\ y[j + 2] = a[j + 2] /\ y[j + 3] = a[j + 3]
  BY <1>1, <1>2
<1>4. a[j].k = "QHTTPGET" =>
            /\ j + 1 <= p /\ a[j + 1].k = "tok"
            /\ a[j + 1].v = 0 => j + 3 <= p /\ a[j + 2].k = "dlm" /\ a[j + 3].k = "tok" /\ (a[j + 3].v = 200 => g)
  BY <1>2 DEF Status
<1>5. Status(y, j, g)
  BY <1>2, <1>3, <1>4 DEF Status
<1> QED BY <1>5 DEF y

(* A text put to the response. *)
LEMMA StatusBoth ==
    ASSUME NEW T, NEW a \in Seq(T), NEW b \in Seq(T), NEW g, NEW c,
           \A j \in 1..Len(a) : a[j].c = c => Status(a, j, g),
           \A j \in 1..Len(b) : b[j].c = c => Status(b, j, g)
    PROVE  \A j \in 1..Len(a \o b) : (a \o b)[j].c = c => Status(a \o b, j, g)
<1>1. SUFFICES ASSUME NEW j \in 1..Len(a \o b), (a \o b)[j].c = c PROVE Status(a \o b, j, g)
  OBVIOUS
<1>2. /\ Len(a \o b) \in Nat
      /\ \A i \in 1..Len(a) : (a \o b)[i] = a[i]
      /\ \A i \in 1..Len(b) : (a \o b)[Len(a) + i] = b[i]
      /\ j \in 1..Len(a) \/ \E i \in 1..Len(b) : j = Len(a) + i
  BY CatIs
<1>3. CASE j \in 1..Len(a)
  BY <1>1, <1>2, <1>3, StatusCat
<1>4. CASE \E i \in 1..Len(b) : j = Len(a) + i
  <2>1. PICK i \in 1..Len(b) : j = Len(a) + i
    BY <1>4
  <2>2. EndOf(b, a \o b, Len(a)) /\ Status(b, i, g)
    BY <1>1, <1>2, <2>1, CatEnds
  <2> QED BY <1>2, <2>1, <2>2, LineEnd
<1> QED BY <1>2, <1>3, <1>4

-----------------------------------------------------------------------------
(* What is still to come, when less is good and when a chunk has gone.     *)
LEMMA LineMore == ASSUME NEW k, NEW x, NEW j, NEW g, LineOf(k, x, j, g), NEW h, g => h PROVE LineOf(k, x, j, h)
<1>1. k \in GetKinds => Status(x, j, h)
  <2>1. k \in GetKinds => Status(x, j, g)
    BY DEF LineOf
  <2> QED BY <2>1 DEF Status
<1> QED BY <1>1 DEF LineOf

LEMMA RestsMore == ASSUME NEW k, NEW R, NEW g, Rests(k, R, g), NEW h, g => h PROVE Rests(k, R, h)
<1>1. SUFFICES ASSUME NEW m \in 1..Len(R) PROVE RestAt(k, R, h, m)
  BY DEF Rests
<1>2. RestAt(k, R, g, m)
  BY DEF Rests
<1>3. \A j \in 1..Len(R[m]) : LineOf(k, R[m], j, h)
  <2>1. SUFFICES ASSUME NEW j \in 1..Len(R[m]) PROVE LineOf(k, R[m], j, h)
    OBVIOUS
  <2>2. LineOf(k, R[m], j, g)
    BY <1>2 DEF RestAt
  <2> QED BY <2>2, LineMore
<1> QED BY <1>2, <1>3 DEF RestAt

LEMMA RestsTail ==
    ASSUME NEW R, Len(R) \in Nat, NEW S, Len(S) = Len(R) - 1, \A m \in 1..Len(S) : S[m] = R[m + 1],
           NEW k, NEW g, Rests(k, R, g)
    PROVE  Rests(k, S, g)
<1> DEFINE p == Len(R)
           q == Len(S)
<1>1. p \in Nat /\ q = p - 1
  OBVIOUS
<1>2. SUFFICES ASSUME NEW m \in 1..q PROVE RestAt(k, S, g, m)
  BY DEF Rests
<1>3. S[m] = R[m + 1]
  OBVIOUS
<1>4. m + 1 \in 1..p /\ (m + 1 = p => m = q) /\ \A n \in m..q : n + 1 \in (m + 1)..p /\ S[n] = R[n + 1]
  <2>1. \A n \in m..q : n \in 1..q /\ n + 1 \in (m + 1)..p
    <3> HIDE DEF p, q
    <3> QED BY <1>1
  <2>2. m + 1 \in 1..p /\ (m + 1 = p => m = q)
    <3> HIDE DEF p, q
    <3> QED BY <1>1
  <2> QED BY <2>1, <2>2
<1>5. RestAt(k, R, g, m + 1)
  BY <1>4 DEF Rests
<1>6. Tells(S[m], Final(k)) => m = q
  BY <1>3, <1>4, <1>5 DEF RestAt
<1>7. Tells(S[m], Pledges(k)) => g /\ \A n \in m..q : S[n] # Data
  <2> SUFFICES ASSUME Tells(S[m], Pledges(k)) PROVE g /\ \A n \in m..q : S[n] # Data
    OBVIOUS
  <2>1. g /\ \A n \in (m + 1)..p : R[n] # Data
    BY <1>3, <1>5 DEF RestAt
  <2> HIDE DEF p, q
  <2> QED BY <1>4, <2>1
<1>8. (S[m] = Data \/ Tells(S[m], {"CONNECT"}) => k \in Fed) /\ \A j \in 1..Len(S[m]) : LineOf(k, S[m], j, g)
  BY <1>3, <1>5 DEF RestAt
<1> QED BY <1>6, <1>7, <1>8 DEF RestAt

(* What promises a CONNECT still does, when a chunk that was none has gone. *)
LEMMA PromisedTail ==
    ASSUME NEW R, Len(R) \in Nat, NEW S, Len(S) = Len(R) - 1, \A m \in 1..Len(S) : S[m] = R[m + 1], Promised(R)
    PROVE  Promised(S) \/ Tells(R[1], {"CONNECT"})
<1> DEFINE p == Len(R)
           q == Len(S)
<1>1. p \in Nat /\ q = p - 1
  OBVIOUS
<1>2. SUFFICES ASSUME ~Tells(R[1], {"CONNECT"}), NEW m \in 1..q, Tells(S[m], {"OK"})
               PROVE  \E n \in 1..(m - 1) : Tells(S[n], {"CONNECT"})
  BY DEF Promised
<1>3. S[m] = R[m + 1]
  OBVIOUS
<1>4. m + 1 \in 1..p
  <2> HIDE DEF p, q
  <2> QED BY <1>1
<1>5. PICK n \in 1..(m + 1 - 1) : Tells(R[n], {"CONNECT"})
  BY <1>2, <1>3, <1>4 DEF Promised
<1>6. n # 1
  BY <1>2, <1>5
<1>7. n - 1 \in 1..(m - 1) /\ n - 1 \in 1..q /\ n - 1 + 1 = n
  <2> HIDE DEF p, q
  <2> QED BY <1>1, <1>5, <1>6
<1>8. S[n - 1] = R[n]
  BY <1>7
<1> QED BY <1>5, <1>7, <1>8

LEMMA PromisedFirst == ASSUME NEW R, Promised(R), Len(R) \in Nat, 1 <= Len(R) PROVE ~Tells(R[1], {"OK"})
<1>1. 1 \in 1..Len(R)
  OBVIOUS
<1>2. 1..(1 - 1) = {}
  OBVIOUS
<1> QED BY <1>1, <1>2 DEF Promised

-----------------------------------------------------------------------------
(* What is seen of the latest command when text is taken.                  *)
LEMMA CarriesEnd ==
    ASSUME NEW x, NEW y, NEW n, EndOf(x, y, n), Len(y) \in Nat, NEW K, Carries(x, K)
    PROVE  Carries(y, K)
<1>1. \A j \in 1..Len(x) : n + j \in 1..Len(y) /\ x[j] = y[n + j]
  BY EndPlaces
<1> QED BY <1>1 DEF Carries

LEMMA CarriesCat ==
    ASSUME NEW T, NEW a \in Seq(T), NEW b \in Seq(T), NEW K
    PROVE  Carries(a \o b, K) <=> Carries(a, K) \/ Carries(b, K)
<1> DEFINE y == a \o b
<1>1. /\ \A i \in 1..Len(a) : y[i] = a[i] /\ i \in 1..Len(y)
      /\ \A i \in 1..Len(b) : y[Len(a) + i] = b[i] /\ Len(a) + i \in 1..Len(y)
      /\ \A i \in 1..Len(y) : i \in 1..Len(a) \/ \E j \in 1..Len(b) : i = Len(a) + j
  BY CatIs
<1> HIDE DEF y
<1>2. Carries(y, K) => Carries(a, K) \/ Carries(b, K)
  <2> SUFFICES ASSUME NEW i \in 1..Len(y), y[i].c = cmds /\ y[i].k \in K PROVE Carries(a, K) \/ Carries(b, K)
    BY DEF Carries
  <2>1. CASE i \in 1..Len(a)
    <3>1. a[i] = y[i]
      BY <1>1, <2>1
    <3> QED BY <2>1, <3>1 DEF Carries
  <2>2. CASE \E j \in 1..Len(b) : i = Len(a) + j
    <3>1. PICK j \in 1..Len(b) : i = Len(a) + j
      BY <2>2
    <3>2. b[j] = y[i]
      BY <1>1, <3>1
    <3> QED BY <3>2 DEF Carries
  <2> QED BY <1>1, <2>1, <2>2
<1>3. Carries(a, K) => Carries(y, K)
  <2> SUFFICES ASSUME NEW i \in 1..Len(a), a[i].c = cmds /\ a[i].k \in K PROVE Carries(y, K)
    BY DEF Carries
  <2>1. i \in 1..Len(y) /\ y[i] = a[i]
    BY <1>1
  <2> QED BY <2>1 DEF Carries
<1>4. Carries(b, K) => Carries(y, K)
  <2> SUFFICES ASSUME NEW j \in 1..Len(b), b[j].c = cmds /\ b[j].k \in K PROVE Carries(y, K)
    BY DEF Carries
  <2>1. Len(a) + j \in 1..Len(y) /\ y[Len(a) + j] = b[j]
    BY <1>1
  <2> DEFINE i == Len(a) + j
  <2>2. i \in 1..Len(y) /\ y[i].c = cmds /\ y[i].k \in K
    BY <2>1
  <2> HIDE DEF i
  <2> QED BY <2>2 DEF Carries
<1> QED BY <1>2, <1>3, <1>4 DEF y

LEMMA CarriesNone == ASSUME NEW K PROVE ~Carries(<<>>, K)
<1> DEFINE x == <<>>
<1>1. \A j : j \notin 1..Len(x)
  OBVIOUS
<1> HIDE DEF x
<1>2. ~Carries(x, K)
  BY <1>1 DEF Carries
<1> QED BY <1>2 DEF x

LEMMA SeenTaken ==
    ASSUME Received, Takes, UNCHANGED cmds, NEW K
    PROVE  (Seen(K)' => Seen(K)) /\ (Carries(rxBffr, K)' => Carries(rxBffr, K))
<1>1. PICK x \in Seq(Pieces(1..out.c)) : \E n : EndOf(x, rxBffr, n) /\ Shifts(x)
  BY DEF Takes
<1>2. PICK n : EndOf(x, rxBffr, n) /\ Shifts(x)
  BY <1>1
<1>3. rxBffr \in Seq(Pieces(1..out.c)) /\ rawResponse \in Seq(Pieces(1..out.c)) /\ Len(rxBffr) \in Nat
  BY DEF Received
<1>4. Carries(x, K) => Carries(rxBffr, K)
  BY <1>2, <1>3, CarriesEnd
<1>5. Carries(rawResponse \o x, K) <=> Carries(rawResponse, K) \/ Carries(x, K)
  BY <1>1, <1>3, CarriesCat
<1>6. ~Carries(<<>>, K)
  BY CarriesNone
<1>7. \A y : Carries(y, K) <=> \E j \in 1..Len(y) : y[j].c = cmds' /\ y[j].k \in K
  BY DEF Carries
<1>8. Carries(rawResponse, K)' <=> Carries(rawResponse', K)
  BY <1>7 DEF Carries
<1>9. Carries(rxBffr, K)' <=> Carries(rxBffr', K)
  BY <1>7 DEF Carries
<1>10. CASE rawResponse' = rawResponse /\ rxBffr' = x
  BY <1>4, <1>8, <1>9, <1>10 DEF Seen
<1>11. CASE rawResponse' = rawResponse \o x /\ rxBffr' = <<>>
  BY <1>4, <1>5, <1>6, <1>8, <1>9, <1>11 DEF Seen
<1> QED BY <1>2, <1>10, <1>11 DEF Shifts

-----------------------------------------------------------------------------
(* The tale goes on when a call takes text.                                *)
LEMMA LinesTaken ==
    ASSUME Received, Takes, UNCHANGED <<cmds, good>>, NEW k,
           \A j \in 1..Len(rxBffr) : rxBffr[j].c = cmds => LineOf(k, rxBffr, j, cmds \in good),
           k \in GetKinds => \A j \in 1..Len(rawResponse) : rawResponse[j].c = cmds => Status(rawResponse, j, cmds \in good)
    PROVE  /\ \A j \in 1..Len(rxBffr') : rxBffr'[j].c = cmds' => LineOf(k, rxBffr', j, cmds' \in good')
           /\ k \in GetKinds => \A j \in 1..Len(rawResponse') : rawResponse'[j].c = cmds' => Status(rawResponse', j, cmds' \in good')
<1> DEFINE g == cmds \in good
<1>1. PICK x \in Seq(Pieces(1..out.c)) : \E n : EndOf(x, rxBffr, n) /\ Shifts(x)
  BY DEF Takes
<1>2. PICK n : EndOf(x, rxBffr, n) /\ Shifts(x)
  BY <1>1
<1>3. rxBffr \in Seq(Pieces(1..out.c)) /\ rawResponse \in Seq(Pieces(1..out.c)) /\ Len(rxBffr) \in Nat
  BY DEF Received
<1>4. \A j \in 1..Len(x) : x[j].c = cmds => LineOf(k, x, j, g)
  <2>1. SUFFICES ASSUME NEW j \in 1..Len(x), x[j].c = cmds PROVE LineOf(k, x, j, g)
    OBVIOUS
  <2>2. n + j \in 1..Len(rxBffr) /\ x[j] = rxBffr[n + j]
    BY <1>2, <1>3, EndPlaces
  <2>3. LineOf(k, rxBffr, n + j, g)
    BY <2>1, <2>2
  <2> QED BY <1>2, <1>3, <2>3, LineEnd
<1>5. k \in GetKinds => \A j \in 1..Len(x) : x[j].c = cmds => Status(x, j, g)
  BY <1>4 DEF LineOf
<1>6. k \in GetKinds => \A j \in 1..Len(rawResponse \o x) : (rawResponse \o x)[j].c = cmds => Status(rawResponse \o x, j, g)
  <2> SUFFICES ASSUME k \in GetKinds
               PROVE  \A j \in 1..Len(rawResponse \o x) : (rawResponse \o x)[j].c = cmds => Status(rawResponse \o x, j, g)
    OBVIOUS
  <2>1. \A j \in 1..Len(rawResponse) : rawResponse[j].c = cmds => Status(rawResponse, j, g)
    OBVIOUS
  <2>2. \A j \in 1..Len(x) : x[j].c = cmds => Status(x, j, g)
    BY <1>5
  <2> HIDE DEF g
  <2> QED BY <1>3, <2>1, <2>2, StatusBoth
<1>7. \A j : j \notin 1..Len(<<>>)
  OBVIOUS
<1>8. g = (cmds' \in good') /\ cmds' = cmds
  OBVIOUS
<1> HIDE DEF g
<1>9. CASE rawResponse' = rawResponse /\ rxBffr' = x
  BY <1>4, <1>8, <1>9 DEF g
<1>10. CASE rawResponse' = rawResponse \o x /\ rxBffr' = <<>>
  BY <1>6, <1>7, <1>8, <1>10
<1> QED BY <1>2, <1>9, <1>10 DEF Shifts

LEMMA StoryTaken ==
    ASSUME TextInv, NEW k, Asks(k), Gets(k), Takes, UNCHANGED <<out, good, cmds>>, dataMode' \in {dataMode, NoData},
           \/ inbox' = inbox
           \/ out.c = cmds /\ inbox' = Append(inbox, [k |-> "data", c |-> cmds])
    PROVE  Asks(k)' /\ Gets(k)'
<1>1. Handler(k)' = Handler(k)
  BY DEF Handler
<1>2. inbox \in Seq(Messages(cmds)) /\ Len(inbox) \in Nat
  BY DEF TextInv, Queued
<1>3. out.c = cmds => \A i \in 1..Len(inbox') : inbox'[i] = [k |-> "data", c |-> cmds']
  <2> SUFFICES ASSUME out.c = cmds PROVE \A i \in 1..Len(inbox') : inbox'[i] = [k |-> "data", c |-> cmds]
    OBVIOUS
  <2>1. \A i \in 1..Len(inbox) : inbox[i] = [k |-> "data", c |-> cmds]
    BY DEF Gets
  <2> DEFINE d == [k |-> "data", c |-> cmds]
  <2>2. CASE inbox' = Append(inbox, d)
    <3> HIDE DEF d
    <3>1. Len(inbox') = Len(inbox) + 1 /\ \A i \in 1..(Len(inbox) + 1) : i \in 1..Len(inbox) \/ i = Len(inbox) + 1
      BY <1>2, <2>2
    <3>2. \A i \in 1..Len(inbox) : inbox'[i] = inbox[i]
      BY <1>2, <2>2
    <3>3. inbox'[Len(inbox) + 1] = d
      BY <1>2, <2>2
    <3> QED BY <2>1, <3>1, <3>2, <3>3 DEF d
  <2> QED BY <2>1, <2>2
<1>4. Asks(k)'
  <2>1. \A i \in 1..Len(inbox') : inbox'[i].k # "data" /\ inbox'[i].c = cmds' => inbox'[i].k = k /\ i = Len(inbox')
    <3>1. CASE inbox' = inbox
      BY <3>1 DEF Asks
    <3>2. CASE out.c = cmds
      BY <1>3, <3>2
    <3> QED BY <3>1, <3>2
  <2>2. k \in Fed => dataMode' \in {Handler(k)', NoData}
    BY <1>1 DEF Asks
  <2> QED BY <2>1, <2>2 DEF Asks
<1>5. Gets(k)'
  <2> SUFFICES ASSUME out.c = cmds PROVE Gets(k)'
    BY DEF Gets
  <2>1. Rests(k, out'.chunks, cmds' \in good')
    BY DEF Gets
  <2>2. \A K : (Seen(K)' => Seen(K))
    BY SeenTaken DEF TextInv
  <2>3. Seen(Final(k))' => out'.chunks = <<>>
    BY <2>2 DEF Gets
  <2>4. Seen(Pledges(k))' => cmds' \in good' /\ \A m \in 1..Len(out'.chunks) : out'.chunks[m] # Data
    BY <2>2 DEF Gets
  <2>5. Seen({"CONNECT"})' => k \in Fed
    BY <2>2 DEF Gets
  <2>6. /\ \A j \in 1..Len(rxBffr') : rxBffr'[j].c = cmds' => LineOf(k, rxBffr', j, cmds' \in good')
        /\ k \in GetKinds => \A j \in 1..Len(rawResponse') : rawResponse'[j].c = cmds' => Status(rawResponse', j, cmds' \in good')
    BY LinesTaken DEF Gets, TextInv
  <2> QED BY <1>3, <2>1, <2>3, <2>4, <2>5, <2>6 DEF Gets
<1> QED BY <1>4, <1>5

-----------------------------------------------------------------------------
(* What the module has not begun to answer is not seen.                    *)
LEMMA NotSeen ==
    ASSUME TextInv, out.c # cmds
    PROVE  /\ \A j \in 1..Len(rxBffr) : rxBffr[j].c # cmds
           /\ \A j \in 1..Len(rawResponse) : rawResponse[j].c # cmds
           /\ \A K : ~Seen(K)
<1>1. rxBffr \in Seq(Pieces(1..out.c)) /\ rawResponse \in Seq(Pieces(1..out.c)) /\ out.c \in 0..cmds /\ cmds \in Nat
  BY DEF TextInv, Received, Answering, Numbers
<1>2. \A q \in Pieces(1..out.c) : q.c # cmds
  BY <1>1 DEF Pieces
<1>3. /\ \A j \in 1..Len(rxBffr) : rxBffr[j].c # cmds
      /\ \A j \in 1..Len(rawResponse) : rawResponse[j].c # cmds
  <2>1. \A j \in 1..Len(rxBffr) : rxBffr[j] \in Pieces(1..out.c)
    BY <1>1, Elements
  <2>2. \A j \in 1..Len(rawResponse) : rawResponse[j] \in Pieces(1..out.c)
    BY <1>1, Elements
  <2> QED BY <1>2, <2>1, <2>2
<1> QED BY <1>3 DEF Seen, Carries

LEMMA AsksTail ==
    ASSUME TextInv, NEW k, Asks(k), inbox # <<>>, inbox' = Tail(inbox), UNCHANGED <<cmds, dataMode>>
    PROVE  Asks(k)'
<1> DEFINE p == Len(inbox)
<1>1. inbox \in Seq(Messages(cmds))
  BY DEF TextInv, Queued
<1>2. p \in Nat /\ Len(inbox') = p - 1 /\ \A i \in 1..Len(inbox') : inbox'[i] = inbox[i + 1] /\ i + 1 \in 1..p /\ (i + 1 = p => i = Len(inbox'))
  BY <1>1
<1>3. \A i \in 1..p : inbox[i].k # "data" /\ inbox[i].c = cmds => inbox[i].k = k /\ i = p
  BY DEF Asks
<1> HIDE DEF p
<1>4. \A i \in 1..Len(inbox') : inbox'[i].k # "data" /\ inbox'[i].c = cmds' => inbox'[i].k = k /\ i = Len(inbox')
  BY <1>2, <1>3
<1> QED BY <1>4 DEF Asks, Handler

LEMMA DataTail ==
    ASSUME TextInv, inbox # <<>>, inbox' = Tail(inbox), NEW d, \A i \in 1..Len(inbox) : inbox[i] = d
    PROVE  inbox[1] = d /\ \A i \in 1..Len(inbox') : inbox'[i] = d
<1> DEFINE p == Len(inbox)
<1>1. inbox \in Seq(Messages(cmds))
  BY DEF TextInv, Queued
<1>2. Len(inbox') = p - 1 /\ 1 \in 1..p /\ \A i \in 1..Len(inbox') : inbox'[i] = inbox[i + 1] /\ i + 1 \in 1..p
  BY <1>1
<1> QED BY <1>2

-----------------------------------------------------------------------------
(* The tale goes on when the module takes up a command ...                 *)
LEMMA StoryServe == ASSUME TextInv, NEW k, Asks(k), Gets(k), Serve PROVE Asks(k)' /\ Gets(k)'
<1>1. /\ out.chunks = <<>> /\ inbox # <<>> /\ inbox' = Tail(inbox) /\ inbox[1] \in Messages(cmds) /\ inbox \in Seq(Messages(cmds))
      /\ UNCHANGED <<rawResponse, rxBffr, dataMode, cmds>>
  BY ServeIs
<1>2. \/ inbox[1].k = "data" /\ UNCHANGED <<out, good>>
      \/ /\ inbox[1].k \in Asked /\ inbox[1].c \in 1..cmds /\ out.c < inbox[1].c
         /\ \E r \in Replies(inbox[1].k) :
               /\ out' = [c |-> inbox[1].c, chunks |-> r.chunks]
               /\ good' = IF r.good THEN good \cup {inbox[1].c} ELSE good
  BY ServeIs
<1>3. Asks(k)'
  BY <1>1, AsksTail
<1>4. CASE UNCHANGED <<out, good>>
  <2> SUFFICES ASSUME out.c = cmds PROVE Gets(k)'
    BY <1>1, <1>3, <1>4 DEF Gets
  <2>1. \A i \in 1..Len(inbox') : inbox'[i] = [k |-> "data", c |-> cmds]
    <3>1. \A i \in 1..Len(inbox) : inbox[i] = [k |-> "data", c |-> cmds]
      BY DEF Gets
    <3> QED BY <1>1, <3>1, DataTail
  <2>2. Gets(k)'
    BY <1>1, <1>4, <2>1 DEF Gets, Seen, Carries
  <2> QED BY <1>3, <2>2
<1>5. CASE /\ inbox[1].k \in Asked /\ inbox[1].c \in 1..cmds /\ out.c < inbox[1].c
           /\ \E r \in Replies(inbox[1].k) :
                 /\ out' = [c |-> inbox[1].c, chunks |-> r.chunks]
                 /\ good' = IF r.good THEN good \cup {inbox[1].c} ELSE good
  <2>1. PICK r \in Replies(inbox[1].k) : /\ out' = [c |-> inbox[1].c, chunks |-> r.chunks]
                                         /\ good' = IF r.good THEN good \cup {inbox[1].c} ELSE good
    BY <1>5
  <2> SUFFICES ASSUME inbox[1].c = cmds PROVE Gets(k)'
    BY <1>1, <1>3, <2>1 DEF Gets
  <2>2. inbox[1].k # "data"
    BY <1>5 DEF Asked
  <2>3. 1 \in 1..Len(inbox)
    BY <1>1
  <2>4. inbox[1].k = k /\ 1 = Len(inbox)
    BY <2>2, <2>3 DEF Asks
  <2>5. Len(inbox') = 0 /\ \A i : i \notin 1..Len(inbox')
    BY <1>1, <2>4
  <2>6. out.c # cmds
    <3>1. out.c \in 0..cmds /\ cmds \in Nat
      BY DEF TextInv, Answering, Numbers
    <3>2. out.c < cmds
      BY <1>5
    <3> QED BY <3>1, <3>2
  <2>7. /\ \A j \in 1..Len(rxBffr) : rxBffr[j].c # cmds
        /\ \A j \in 1..Len(rawResponse) : rawResponse[j].c # cmds
    BY <2>6, NotSeen
  <2>8. \A K : ~Seen(K)'
    BY <1>1, <2>7 DEF Seen, Carries
  <2>9. Rests(k, out'.chunks, cmds' \in good')
    <3>1. Rests(k, r.chunks, r.good)
      BY <1>5, <2>1, <2>4, RepliesKeep DEF Keeps
    <3>2. r.good => cmds' \in good'
      BY <1>1, <2>1
    <3>3. Rests(k, r.chunks, cmds' \in good')
      <4> DEFINE g == r.good
                 h == cmds' \in good'
      <4>1. Rests(k, r.chunks, g) /\ (g => h)
        BY <3>1, <3>2
      <4> HIDE DEF g, h
      <4>2. Rests(k, r.chunks, h)
        BY <4>1, RestsMore
      <4> QED BY <4>2 DEF h
    <3> QED BY <2>1, <3>3
  <2>10. Gets(k)'
    BY <1>1, <2>5, <2>7, <2>8, <2>9 DEF Gets
  <2> QED BY <1>3, <2>10
<1> QED BY <1>2, <1>4, <1>5

LEMMA PageServe ==
    ASSUME TextInv, Asks("QHTTPREAD"), Page, Serve
    PROVE  Page'
<1>1. /\ out.chunks = <<>> /\ inbox # <<>> /\ inbox[1] \in Messages(cmds) /\ inbox \in Seq(Messages(cmds))
      /\ UNCHANGED <<rawResponse, rxBffr, dataMode, cmds>>
  BY ServeIs
<1>2. \/ inbox[1].k = "data" /\ UNCHANGED <<out, good>>
      \/ /\ inbox[1].k \in Asked /\ inbox[1].c \in 1..cmds /\ out.c < inbox[1].c
         /\ \E r \in Replies(inbox[1].k) : out' = [c |-> inbox[1].c, chunks |-> r.chunks]
  BY ServeIs
<1>3. CASE UNCHANGED out
  BY <1>1, <1>3 DEF Page, Carries
<1>4. CASE /\ inbox[1].k \in Asked /\ inbox[1].c \in 1..cmds /\ out.c < inbox[1].c
           /\ \E r \in Replies(inbox[1].k) : out' = [c |-> inbox[1].c, chunks |-> r.chunks]
  <2>1. PICK r \in Replies(inbox[1].k) : out' = [c |-> inbox[1].c, chunks |-> r.chunks]
    BY <1>4
  <2>2. out.c # cmds
    <3>1. out.c \in 0..cmds /\ cmds \in Nat
      BY DEF TextInv, Answering, Numbers
    <3> QED BY <1>4, <3>1
  <2>3. dataMode # NoData
    BY <2>2 DEF Page
  <2>4. inbox[1].c = cmds => Promised(r.chunks)
    <3> SUFFICES ASSUME inbox[1].c = cmds PROVE Promised(r.chunks)
      OBVIOUS
    <3>1. inbox[1].k # "data" /\ 1 \in 1..Len(inbox)
      BY <1>1, <1>4 DEF Asked
    <3>2. inbox[1].k = "QHTTPREAD"
      BY <3>1 DEF Asks
    <3> QED BY <1>4, <3>2, RepliesKeep
  <2> QED BY <1>1, <2>1, <2>3, <2>4 DEF Page, Carries
<1> QED BY <1>2, <1>3, <1>4

-----------------------------------------------------------------------------
(* ... when a chunk of the answer arrives ...                              *)
LEMMA EmitSeen ==
    ASSUME TextInv, Emit, NEW K
    PROVE  /\ Carries(rawResponse, K)' <=> Carries(rawResponse, K)
           /\ Carries(rxBffr, K)' <=> Carries(rxBffr, K) \/ (out.c = cmds /\ Tells(out.chunks[1], K))
<1> DEFINE R == out.chunks
           x == Sent(R[1], out.c)
<1>1. /\ rxBffr' = rxBffr \o x /\ x \in Seq(Pieces(1..out.c)) /\ Len(x) = Len(R[1])
      /\ \A i \in 1..Len(R[1]) : x[i].c = out.c /\ x[i].k = R[1][i].k
      /\ UNCHANGED <<rawResponse, cmds>>
  BY EmitIs
<1>2. rxBffr \in Seq(Pieces(1..out.c))
  BY DEF TextInv, Received
<1>3. Carries(x, K) <=> out.c = cmds /\ Tells(R[1], K)
  <2> HIDE DEF x
  <2> QED BY <1>1 DEF Carries, Tells
<1>4. Carries(rxBffr \o x, K) <=> Carries(rxBffr, K) \/ Carries(x, K)
  <2> HIDE DEF x
  <2> QED BY <1>1, <1>2, CarriesCat
<1>5. Carries(rxBffr, K)' <=> Carries(rxBffr \o x, K)
  BY <1>1 DEF Carries
<1>6. Carries(rawResponse, K)' <=> Carries(rawResponse, K)
  BY <1>1 DEF Carries
<1> QED BY <1>3, <1>4, <1>5, <1>6

LEMMA StoryEmit == ASSUME TextInv, NEW k, Asks(k), Gets(k), Emit PROVE Asks(k)' /\ Gets(k)'
<1> DEFINE R == out.chunks
           S == Tail(R)
           x == Sent(R[1], out.c)
           g == cmds \in good
<1>1. /\ R # <<>> /\ R[1] # Data /\ R \in Seq(Chunks) /\ Len(R) \in Nat
      /\ rxBffr' = rxBffr \o x /\ x \in Seq(Pieces(1..out.c)) /\ Len(x) = Len(R[1])
      /\ \A i \in 1..Len(R[1]) : x[i].c = out.c /\ x[i].k = R[1][i].k /\ x[i].v = R[1][i].v
      /\ out' = [c |-> out.c, chunks |-> S] /\ Len(S) = Len(R) - 1 /\ \A m \in 1..Len(S) : S[m] = R[m + 1]
      /\ UNCHANGED <<inbox, good, rawResponse, dataMode, cmds>>
  BY EmitIs
<1>2. rxBffr \in Seq(Pieces(1..out.c)) /\ Len(rxBffr) \in Nat
  BY DEF TextInv, Received
<1>3. Asks(k)'
  BY <1>1 DEF Asks, Handler
<1> SUFFICES ASSUME out.c = cmds PROVE Gets(k)'
  BY <1>1, <1>3 DEF Gets
<1>4. Rests(k, R, g) /\ 1 \in 1..Len(R)
  BY <1>1 DEF Gets
<1>5. RestAt(k, R, g, 1)
  BY <1>4 DEF Rests
<1>6. ~Seen(Final(k))
  BY <1>1 DEF Gets
<1>7. \A K : Seen(K)' <=> Seen(K) \/ Tells(R[1], K)
  BY EmitSeen DEF Seen
<1>8. Rests(k, S, g)
  <2> HIDE DEF R, S, g
  <2> QED BY <1>1, <1>4, RestsTail
<1>9. Seen(Final(k))' => S = <<>>
  <2>1. Seen(Final(k))' => 1 = Len(R)
    BY <1>5, <1>6, <1>7 DEF RestAt
  <2>2. S \in Seq(Chunks) /\ R \in Seq(Chunks) /\ Len(S) = Len(R) - 1
    BY <1>1
  <2> HIDE DEF R, S
  <2>3. 1 = Len(R) => S = <<>>
    BY <2>2
  <2> QED BY <2>1, <2>3
<1>10. Seen(Pledges(k))' => g /\ \A m \in 1..Len(S) : S[m] # Data
  <2>1. Seen(Pledges(k))' => g /\ \A n \in 1..Len(R) : R[n] # Data
    BY <1>5, <1>7 DEF RestAt, Gets
  <2>2. \A m \in 1..Len(S) : m + 1 \in 1..Len(R)
    <3> HIDE DEF R, S
    <3> QED BY <1>1
  <2> QED BY <1>1, <2>1, <2>2
<1>11. Seen({"CONNECT"})' => k \in Fed
  BY <1>5, <1>7 DEF RestAt, Gets
<1>12. \A j \in 1..Len(rxBffr') : rxBffr'[j].c = cmds => LineOf(k, rxBffr', j, g)
  <2>1. SUFFICES ASSUME NEW j \in 1..Len(rxBffr'), rxBffr'[j].c = cmds PROVE LineOf(k, rxBffr', j, g)
    OBVIOUS
  <2> HIDE DEF x, g, R
  <2>2. /\ \A i \in 1..Len(rxBffr) : (rxBffr \o x)[i] = rxBffr[i]
        /\ j \in 1..Len(rxBffr) \/ \E i \in 1..Len(x) : j = Len(rxBffr) + i
    BY <1>1, <1>2, CatIs
  <2>3. CASE j \in 1..Len(rxBffr)
    <3>1. rxBffr'[j] = rxBffr[j] /\ LineOf(k, rxBffr, j, g)
      BY <1>1, <2>1, <2>2, <2>3 DEF Gets, g
    <3>2. k \in GetKinds => Status(rxBffr', j, g)
      <4> SUFFICES ASSUME k \in GetKinds PROVE Status(rxBffr \o x, j, g)
        BY <1>1
      <4>1. Status(rxBffr, j, g)
        BY <3>1 DEF LineOf
      <4> QED BY <1>1, <1>2, <2>3, <4>1, StatusCat
    <3>3. rxBffr[j].k \notin Final(k)
      BY <1>6, <2>1, <2>3, <3>1 DEF Seen, Carries
    <3>4. (k = "QHTTPREAD" => "QHTTPREAD" \in Final(k)) /\ (k = "QHTTPURL" => "OK" \in Final(k))
      BY DEF Final, GetKinds
    <3> QED BY <3>1, <3>2, <3>3, <3>4 DEF LineOf
  <2>4. CASE \E i \in 1..Len(x) : j = Len(rxBffr) + i
    <3>1. PICK i \in 1..Len(x) : j = Len(rxBffr) + i
      BY <2>4
    <3>2. LineOf(k, R[1], i, g)
      BY <1>1, <1>5, <3>1 DEF RestAt
    <3>3. Len(x) \in Nat
      BY <1>1
    <3>4. LineOf(k, x, i, g)
      BY <1>1, <3>1, <3>2, <3>3, LineLike
    <3>5. EndOf(x, rxBffr \o x, Len(rxBffr)) /\ Len(rxBffr \o x) \in Nat
      BY <1>1, <1>2, CatEnds, CatIs
    <3> QED BY <1>1, <3>1, <3>4, <3>5, LineEnd
  <2> QED BY <2>2, <2>3, <2>4
<1>13. k \in GetKinds => \A j \in 1..Len(rawResponse) : rawResponse[j].c = cmds => Status(rawResponse, j, g)
  BY DEF Gets
<1>14. \A i \in 1..Len(inbox) : inbox[i] = [k |-> "data", c |-> cmds]
  BY DEF Gets
<1>15. /\ \A i \in 1..Len(inbox') : inbox'[i] = [k |-> "data", c |-> cmds']
       /\ Rests(k, out'.chunks, cmds' \in good')
       /\ Seen(Final(k))' => out'.chunks = <<>>
       /\ Seen(Pledges(k))' => cmds' \in good' /\ \A m \in 1..Len(out'.chunks) : out'.chunks[m] # Data
  BY <1>1, <1>8, <1>9, <1>10, <1>14
<1>16. /\ \A j \in 1..Len(rxBffr') : rxBffr'[j].c = cmds' => LineOf(k, rxBffr', j, cmds' \in good')
       /\ k \in GetKinds => \A j \in 1..Len(rawResponse') : rawResponse'[j].c = cmds' => Status(rawResponse', j, cmds' \in good')
  BY <1>1, <1>12, <1>13
<1> HIDE DEF R, S, x, g
<1>17. Gets(k)'
  BY <1>11, <1>15, <1>16 DEF Gets
<1> QED BY <1>3, <1>17

LEMMA PageEmit == ASSUME TextInv, Page, Emit PROVE Page'
<1> DEFINE R == out.chunks
           S == Tail(R)
<1>1. /\ Len(R) \in Nat /\ R # <<>> /\ R \in Seq(Chunks)
      /\ out' = [c |-> out.c, chunks |-> S] /\ Len(S) = Len(R) - 1 /\ \A m \in 1..Len(S) : S[m] = R[m + 1]
      /\ UNCHANGED <<dataMode, cmds>>
  BY EmitIs
<1>2. /\ \A K : Carries(rawResponse, K)' <=> Carries(rawResponse, K)
      /\ \A K : Carries(rxBffr, K)' <=> Carries(rxBffr, K) \/ (out.c = cmds /\ Tells(R[1], K))
  BY EmitSeen
<1>3. 1 <= Len(R) /\ 1 \in 1..Len(R) /\ \A m \in 1..Len(S) : m + 1 \in 1..Len(R)
  <2>1. Len(R) # 0
    BY <1>1
  <2> HIDE DEF R, S
  <2> QED BY <1>1, <2>1
<1> HIDE DEF R, S
<1>4. ~Carries(rawResponse, {"OK"})'
  BY <1>2 DEF Page
<1>5. dataMode' = NoData => out'.c = cmds' /\ ~Carries(rxBffr, {"OK"})' /\ \A m \in 1..Len(out'.chunks) : ~Tells(out'.chunks[m], {"OK"})
  <2> SUFFICES ASSUME dataMode = NoData
               PROVE  out'.c = cmds' /\ ~Carries(rxBffr, {"OK"})' /\ \A m \in 1..Len(S) : ~Tells(S[m], {"OK"})
    BY <1>1
  <2>1. out.c = cmds /\ ~Carries(rxBffr, {"OK"}) /\ \A m \in 1..Len(R) : ~Tells(R[m], {"OK"})
    BY DEF Page, R
  <2> QED BY <1>1, <1>2, <1>3, <2>1
<1>6. dataMode' # NoData => /\ Carries(rxBffr, {"OK"})' => Carries(rxBffr, {"CONNECT"})'
                            /\ out'.c = cmds' => Promised(out'.chunks) \/ Carries(rxBffr, {"CONNECT"})'
  <2> SUFFICES ASSUME dataMode # NoData
               PROVE  /\ Carries(rxBffr, {"OK"})' => Carries(rxBffr, {"CONNECT"})'
                      /\ out.c = cmds => Promised(S) \/ Carries(rxBffr, {"CONNECT"})'
    BY <1>1
  <2>1. /\ Carries(rxBffr, {"OK"}) => Carries(rxBffr, {"CONNECT"})
        /\ out.c = cmds => Promised(R) \/ Carries(rxBffr, {"CONNECT"})
    BY DEF Page, R
  <2>2. Promised(R) => ~Tells(R[1], {"OK"})
    BY <1>1, <1>3, PromisedFirst
  <2>3. Promised(R) => Promised(S) \/ Tells(R[1], {"CONNECT"})
    BY <1>1, PromisedTail
  <2> QED BY <1>2, <2>1, <2>2, <2>3
<1> QED BY <1>4, <1>5, <1>6 DEF Page

-----------------------------------------------------------------------------
(* ... and when it takes data, or gives up.                                *)
LEMMA StoryTakeData == ASSUME TextInv, NEW k, Asks(k), Gets(k), TakeData PROVE Asks(k)' /\ Gets(k)'
<1> DEFINE R == out.chunks
           S == Tail(R)
<1>1. /\ R # <<>> /\ R[1] = Data /\ R \in Seq(Chunks) /\ Len(R) \in Nat
      /\ UNCHANGED <<rawResponse, rxBffr, dataMode, cmds>>
  BY TakeDataIs
<1>2. \/ /\ inbox # <<>> /\ inbox' = Tail(inbox)
         /\ out' = [c |-> out.c, chunks |-> S] /\ Len(S) = Len(R) - 1 /\ \A m \in 1..Len(S) : S[m] = R[m + 1]
         /\ good' = IF inbox[1] = [k |-> "data", c |-> out.c] THEN good ELSE good \ {out.c}
      \/ /\ inbox = <<>> /\ inbox' = inbox
         /\ out' = [c |-> out.c, chunks |-> <<Refusal>>] /\ good' = good \ {out.c}
  BY TakeDataIs
<1>3. Asks(k)'
  <2>1. CASE inbox' = inbox
    BY <1>1, <2>1 DEF Asks, Handler
  <2>2. CASE inbox # <<>> /\ inbox' = Tail(inbox)
    BY <1>1, <2>2, AsksTail
  <2> QED BY <1>2, <2>1, <2>2
<1>4. out'.c = out.c
  BY <1>2
<1> SUFFICES ASSUME out.c = cmds PROVE Gets(k)'
  BY <1>1, <1>3, <1>4 DEF Gets
<1>5. ~Seen(Final(k)) /\ ~Seen(Pledges(k)) /\ (Seen({"CONNECT"}) => k \in Fed)
  <2>1. 1 \in 1..Len(R)
    BY <1>1
  <2> QED BY <1>1, <2>1 DEF Gets
<1>6. \A K : Seen(K)' <=> Seen(K)
  BY <1>1 DEF Seen, Carries
<1>7. \A g, h : \A j \in 1..Len(rxBffr) : rxBffr[j].c = cmds /\ LineOf(k, rxBffr, j, g) => LineOf(k, rxBffr, j, h)
  <2>1. SUFFICES ASSUME NEW g, NEW h, NEW j \in 1..Len(rxBffr), rxBffr[j].c = cmds, LineOf(k, rxBffr, j, g)
                 PROVE  LineOf(k, rxBffr, j, h)
    OBVIOUS
  <2>2. rxBffr[j].k \notin Final(k)
    BY <1>5, <2>1 DEF Seen, Carries
  <2>3. (k = "QHTTPREAD" => "QHTTPREAD" \in Final(k)) /\ (k \in GetKinds => "QHTTPGET" \in Final(k)) /\ (k = "QHTTPURL" => "OK" \in Final(k))
    BY DEF Final, GetKinds
  <2> QED BY <2>2, <2>3 DEF LineOf, Status
<1>8. k \in GetKinds => \A g, h : \A j \in 1..Len(rawResponse) : rawResponse[j].c = cmds /\ Status(rawResponse, j, g) => Status(rawResponse, j, h)
  <2>1. SUFFICES ASSUME k \in GetKinds, NEW g, NEW h, NEW j \in 1..Len(rawResponse), rawResponse[j].c = cmds, Status(rawResponse, j, g)
                 PROVE  Status(rawResponse, j, h)
    OBVIOUS
  <2>2. rawResponse[j].k \notin Final(k)
    BY <1>5, <2>1 DEF Seen, Carries
  <2>3. "QHTTPGET" \in Final(k)
    BY <2>1 DEF Final, GetKinds
  <2> QED BY <2>2, <2>3 DEF Status
<1>9. /\ \A j \in 1..Len(rxBffr') : rxBffr'[j].c = cmds' => LineOf(k, rxBffr', j, cmds' \in good')
      /\ k \in GetKinds => \A j \in 1..Len(rawResponse') : rawResponse'[j].c = cmds' => Status(rawResponse', j, cmds' \in good')
  <2> DEFINE g == cmds \in good
             h == cmds' \in good'
  <2>1. \A j \in 1..Len(rxBffr) : rxBffr[j].c = cmds => LineOf(k, rxBffr, j, g)
    BY DEF Gets
  <2>2. k \in GetKinds => \A j \in 1..Len(rawResponse) : rawResponse[j].c = cmds => Status(rawResponse, j, g)
    BY DEF Gets
  <2> HIDE DEF g, h
  <2>3. \A j \in 1..Len(rxBffr) : rxBffr[j].c = cmds => LineOf(k, rxBffr, j, h)
    BY <1>7, <2>1
  <2>4. k \in GetKinds => \A j \in 1..Len(rawResponse) : rawResponse[j].c = cmds => Status(rawResponse, j, h)
    BY <1>8, <2>2
  <2> QED BY <1>1, <2>3, <2>4 DEF h
<1>10. Rests(k, out'.chunks, cmds' \in good')
  <2>1. CASE /\ inbox # <<>> /\ inbox' = Tail(inbox)
             /\ out' = [c |-> out.c, chunks |-> S] /\ Len(S) = Len(R) - 1 /\ \A m \in 1..Len(S) : S[m] = R[m + 1]
             /\ good' = IF inbox[1] = [k |-> "data", c |-> out.c] THEN good ELSE good \ {out.c}
    <3>1. inbox[1] = [k |-> "data", c |-> cmds]
      <4>1. \A i \in 1..Len(inbox) : inbox[i] = [k |-> "data", c |-> cmds]
        BY DEF Gets
      <4> QED BY <2>1, <4>1, DataTail
    <3>2. good' = good
      BY <2>1, <3>1
    <3> DEFINE g == cmds \in good
    <3>3. Rests(k, R, g)
      BY DEF Gets
    <3> HIDE DEF R, S, g
    <3>4. Rests(k, S, g)
      BY <1>1, <2>1, <3>3, RestsTail
    <3> QED BY <1>1, <2>1, <3>2, <3>4 DEF g
  <2>2. CASE out' = [c |-> out.c, chunks |-> <<Refusal>>] /\ good' = good \ {out.c}
    <3>1. (cmds' \in good') = FALSE
      BY <1>1, <2>2
    <3>2. Rests(k, <<Refusal>>, FALSE)
      BY RefusedKeeps1
    <3> QED BY <2>2, <3>1, <3>2
  <2> QED BY <1>2, <2>1, <2>2
<1>11. \A i \in 1..Len(inbox') : inbox'[i] = [k |-> "data", c |-> cmds']
  <2>1. \A i \in 1..Len(inbox) : inbox[i] = [k |-> "data", c |-> cmds]
    BY DEF Gets
  <2>2. CASE inbox # <<>> /\ inbox' = Tail(inbox)
    BY <1>1, <2>1, <2>2, DataTail
  <2>3. CASE inbox' = inbox
    BY <1>1, <2>1, <2>3
  <2> QED BY <1>2, <2>2, <2>3
<1> HIDE DEF R, S
<1>12. Gets(k)'
  BY <1>5, <1>6, <1>9, <1>10, <1>11 DEF Gets
<1> QED BY <1>3, <1>12

LEMMA PageTakeData == ASSUME TextInv, Page, TakeData PROVE Page'
<1> DEFINE R == out.chunks
           S == Tail(R)
<1>1. /\ R # <<>> /\ R[1] = Data /\ R \in Seq(Chunks) /\ Len(R) \in Nat
      /\ UNCHANGED <<rawResponse, rxBffr, dataMode, cmds>>
  BY TakeDataIs
<1>2. \/ out' = [c |-> out.c, chunks |-> S] /\ Len(S) = Len(R) - 1 /\ \A m \in 1..Len(S) : S[m] = R[m + 1]
      \/ out' = [c |-> out.c, chunks |-> <<Refusal>>]
  BY TakeDataIs
<1>3. out'.c = out.c
  BY <1>2
<1>4. (\A m \in 1..Len(R) : ~Tells(R[m], {"OK"})) => \A m \in 1..Len(out'.chunks) : ~Tells(out'.chunks[m], {"OK"})
  <2>1. CASE out' = [c |-> out.c, chunks |-> S] /\ Len(S) = Len(R) - 1 /\ \A m \in 1..Len(S) : S[m] = R[m + 1]
    <3> HIDE DEF R, S
    <3>1. \A m \in 1..Len(S) : m + 1 \in 1..Len(R)
      BY <1>1, <2>1
    <3> QED BY <2>1, <3>1
  <2>2. CASE out' = [c |-> out.c, chunks |-> <<Refusal>>]
    <3>1. \A m \in 1..Len(<<Refusal>>) : <<Refusal>>[m] = Refusal
      OBVIOUS
    <3>2. ~Tells(Refusal, {"OK"})
      BY SaysWords, TellsWords DEF Says, Words, PieceKinds
    <3> QED BY <2>2, <3>1, <3>2
  <2> QED BY <1>2, <2>1, <2>2
<1>5. Promised(R) => Promised(out'.chunks)
  <2>1. CASE out' = [c |-> out.c, chunks |-> S] /\ Len(S) = Len(R) - 1 /\ \A m \in 1..Len(S) : S[m] = R[m + 1]
    <3>1. ~Tells(R[1], {"CONNECT"})
      <4>1. WordsOf(Data) = {}
        BY DataWords
      <4>2. {"CONNECT"} \in SUBSET Words
        BY DEF Words, PieceKinds
      <4> QED BY <1>1, <4>1, <4>2, TellsWords
    <3> HIDE DEF R, S
    <3> QED BY <1>1, <2>1, <3>1, PromisedTail
  <2>2. CASE out' = [c |-> out.c, chunks |-> <<Refusal>>]
    <3>1. \A m \in 1..Len(<<Refusal>>) : <<Refusal>>[m] = Refusal
      OBVIOUS
    <3>2. ~Tells(Refusal, {"OK"})
      BY SaysWords, TellsWords DEF Says, Words, PieceKinds
    <3> QED BY <2>2, <3>1, <3>2 DEF Promised
  <2> QED BY <1>2, <2>1, <2>2
<1>6. \A K : (Carries(rawResponse, K)' <=> Carries(rawResponse, K)) /\ (Carries(rxBffr, K)' <=> Carries(rxBffr, K))
  BY <1>1 DEF Carries
<1> HIDE DEF S
<1>7. dataMode' = NoData => out'.c = cmds' /\ ~Carries(rxBffr, {"OK"})' /\ \A m \in 1..Len(out'.chunks) : ~Tells(out'.chunks[m], {"OK"})
  BY <1>1, <1>3, <1>4, <1>6 DEF Page
<1>8. dataMode' # NoData => /\ Carries(rxBffr, {"OK"})' => Carries(rxBffr, {"CONNECT"})'
                            /\ out'.c = cmds' => Promised(out'.chunks) \/ Carries(rxBffr, {"CONNECT"})'
  BY <1>1, <1>3, <1>5, <1>6 DEF Page
<1>9. ~Carries(rawResponse, {"OK"})'
  BY <1>6 DEF Page
<1> QED BY <1>7, <1>8, <1>9 DEF Page

(* What the module does does not break the tale. *)
LEMMA StoryModule ==
    ASSUME TextInv, NEW k, Story(k), Serve \/ Emit \/ TakeData \/ Elapse \/ UNCHANGED vars
    PROVE  Story(k)'
<1>1. Asks(k) /\ Gets(k) /\ (k = "QHTTPREAD" => Page)
  BY DEF Story
<1>2. CASE Serve
  BY <1>1, <1>2, StoryServe, PageServe DEF Story
<1>3. CASE Emit
  BY <1>1, <1>3, StoryEmit, PageEmit DEF Story
<1>4. CASE TakeData
  BY <1>1, <1>4, StoryTakeData, PageTakeData DEF Story
<1>5. CASE Elapse \/ UNCHANGED vars
  <2>1. UNCHANGED <<rawResponse, rxBffr, dataMode, inbox, out, good, cmds>>
    BY <1>5 DEF Elapse, vars, cmdVars, callVars, modVars, histVars
  <2>2. \A K : (Seen(K)' <=> Seen(K)) /\ (Carries(rawResponse, K)' <=> Carries(rawResponse, K)) /\ (Carries(rxBffr, K)' <=> Carries(rxBffr, K))
    BY <2>1 DEF Seen, Carries
  <2>3. Asks(k)'
    BY <1>1, <2>1 DEF Asks, Handler
  <2>4. Gets(k)'
    BY <1>1, <2>1, <2>2 DEF Gets
  <2>5. Page => Page'
    BY <2>1, <2>2 DEF Page
  <2> QED BY <1>1, <2>3, <2>4, <2>5 DEF Story
<1> QED BY <1>2, <1>3, <1>4, <1>5

-----------------------------------------------------------------------------
(* What a step that reads concludes: no result; what the parser finds in   *)
(* the response; or the success of a handler that skips the parser.        *)
Nothing(r, c) == r \in {"timeout", "unknown"} /\ c = NoCmd /\ retValue' = retValue
Parsed(r, c) ==
    /\ rxBffr' = <<>> /\ parser.pre # "QIACT" /\ c = Decider(parser, rawResponse')
    /\ Verdict(parser, rawResponse') # "pending" /\ r = ResultOf(Verdict(parser, rawResponse'))
    /\ retValue' = IF Verdict(parser, rawResponse') = "success" THEN ValueOf(parser, rawResponse') ELSE retValue
PageEnd == Min(Places(rxBffr, <<"QHTTPREAD", "tok", "eol">>))
FeedEnd == Min(Places(rxBffr, <<"OK">>))
Skipped(t, r, c) ==
    /\ r = "success" /\ dataMode.skip /\ dataMode' = NoData /\ rawResponse' = rawResponse /\ retValue' = retValue
    /\ \/ DataSent(t) /\ c = rxBffr[FeedEnd].c
       \/ PageStreamed(t) /\ c = rxBffr[PageEnd].c /\ rxBffr[PageEnd + 1].v = 0
Found(t, r, c) == Conclude(t, r, c) /\ (Nothing(r, c) \/ Parsed(r, c) \/ Skipped(t, r, c))
Stopped == asserted' # "none" /\ UNCHANGED <<resultCode, rslt, got, loose, pc, retValue>>

LEMMA ParseFinds ==
    ASSUME NEW t, NEW x, Parse(t, x), asserted = "none"
    PROVE  Stopped \/ (asserted' = "none" /\ \E r, c : Conclude(t, r, c) /\ (Nothing(r, c) \/ Parsed(r, c)))
<1>1. CASE ~Fits(x) \/ parser.pre = "QIACT"
  <2>1. asserted' \in {"respBufferSz", "pDelimeters"} /\ UNCHANGED <<resultCode, rslt, got, loose, pc, retValue>>
    BY <1>1 DEF Parse
  <2> QED BY <2>1 DEF Stopped
<1>2. CASE ~(~Fits(x) \/ parser.pre = "QIACT")
  <2> DEFINE y == rawResponse \o x  v == Verdict(parser, y)
  <2>1. rawResponse' = y /\ rxBffr' = <<>> /\ Settle(t, y, TRUE) /\ asserted' = "none" /\ parser.pre # "QIACT"
    BY <1>2 DEF Parse
  <2>2. CASE v # "pending"
    <3>1. Conclude(t, ResultOf(v), Decider(parser, y)) /\ retValue' = IF v = "success" THEN ValueOf(parser, y) ELSE retValue
      BY <2>1, <2>2 DEF Settle
    <3>2. Parsed(ResultOf(v), Decider(parser, y))
      BY <2>1, <2>2, <3>1 DEF Parsed
    <3> QED BY <2>1, <3>1, <3>2
  <2>3. CASE v = "pending"
    <3>1. retValue' = retValue /\ (Conclude(t, "timeout", NoCmd) \/ Conclude(t, "unknown", NoCmd))
      BY <2>1, <2>3 DEF Settle
    <3> QED BY <2>1, <3>1 DEF Nothing
  <2> QED BY <2>2, <2>3
<1> QED BY <1>1, <1>2

LEMMA HandlerFinds ==
    ASSUME NEW t, NEW s, NEW c, NEW x, HandlerEnds(t, s, c, x), asserted = "none"
    PROVE  \/ Stopped
           \/ asserted' = "none" /\ \E r, d : Conclude(t, r, d) /\ (Nothing(r, d) \/ Parsed(r, d))
           \/ /\ asserted' = "none" /\ s /\ dataMode.skip /\ dataMode' = NoData /\ Conclude(t, "success", c)
              /\ rawResponse' = rawResponse /\ retValue' = retValue
<1>1. CASE s /\ dataMode.skip
  <2>1. /\ \/ Conclude(t, "success", c) /\ asserted' = asserted
           \/ asserted' = "respBufferSz" /\ UNCHANGED <<isOpenLocked, resultCode, rslt, got, loose, pc, owner, robber>>
        /\ UNCHANGED <<rawResponse, retValue>> /\ dataMode' = NoData
    BY <1>1 DEF HandlerEnds
  <2>2. CASE asserted' = "respBufferSz" /\ UNCHANGED <<isOpenLocked, resultCode, rslt, got, loose, pc, owner, robber>>
    BY <2>1, <2>2 DEF Stopped
  <2> QED BY <1>1, <2>1, <2>2
<1>2. CASE ~(s /\ dataMode.skip)
  <2>1. Parse(t, x)
    BY <1>2 DEF HandlerEnds
  <2> QED BY <2>1, ParseFinds
<1> QED BY <1>1, <1>2

LEMMA ReadsFind ==
    ASSUME NEW t \in Tasks, Reads(t)
    PROVE  Stopped \/ (asserted' = "none" /\ \E r, c : Found(t, r, c))
<1>0. asserted = "none"
  BY RunsAlone DEF Reads, ReadNothing, ReadResult, DataSent, DataTimeout, FileStreamed, PageStreamed
<1>1. CASE ReadNothing(t)
  <2>1. asserted' = "none" /\ retValue' = retValue /\ (Conclude(t, "timeout", NoCmd) \/ Conclude(t, "unknown", NoCmd))
    BY <1>0, <1>1 DEF ReadNothing, Settle
  <2> QED BY <2>1 DEF Found, Nothing
<1>2. CASE ReadResult(t)
  <2>1. Parse(t, rxBffr)
    BY <1>2 DEF ReadResult
  <2> QED BY <1>0, <2>1, ParseFinds DEF Found
<1>3. CASE DataSent(t)
  <2>1. HandlerEnds(t, TRUE, rxBffr[FeedEnd].c, BehindOK(FeedEnd))
    BY <1>3 DEF DataSent, FeedEnd
  <2> QED BY <1>0, <1>3, <2>1, HandlerFinds DEF Found, Skipped
<1>4. CASE DataTimeout(t) \/ FileStreamed(t)
  <2>1. PICK x : HandlerEnds(t, FALSE, NoCmd, x)
    BY <1>4 DEF DataTimeout, FileStreamed
  <2> QED BY <1>0, <2>1, HandlerFinds DEF Found
<1>5. CASE PageStreamed(t)
  <2>1. HandlerEnds(t, rxBffr[PageEnd + 1].v = 0, rxBffr[PageEnd].c, Rest(rxBffr, PageEnd + 3))
    BY <1>5 DEF PageStreamed, PageEnd
  <2>2. \/ Stopped
        \/ asserted' = "none" /\ \E r, d : Conclude(t, r, d) /\ (Nothing(r, d) \/ Parsed(r, d))
        \/ /\ asserted' = "none" /\ rxBffr[PageEnd + 1].v = 0 /\ dataMode.skip /\ dataMode' = NoData
           /\ Conclude(t, "success", rxBffr[PageEnd].c) /\ rawResponse' = rawResponse /\ retValue' = retValue
    <3> DEFINE s == rxBffr[PageEnd + 1].v = 0
    <3>1. HandlerEnds(t, s, rxBffr[PageEnd].c, Rest(rxBffr, PageEnd + 3))
      BY <2>1
    <3> HIDE DEF s
    <3>2. \/ Stopped
          \/ asserted' = "none" /\ \E r, d : Conclude(t, r, d) /\ (Nothing(r, d) \/ Parsed(r, d))
          \/ /\ asserted' = "none" /\ s /\ dataMode.skip /\ dataMode' = NoData
             /\ Conclude(t, "success", rxBffr[PageEnd].c) /\ rawResponse' = rawResponse /\ retValue' = retValue
      BY <1>0, <3>1, HandlerFinds
    <3> QED BY <3>2 DEF s
  <2> QED BY <1>5, <2>2 DEF Found, Skipped
<1> QED BY <1>1, <1>2, <1>3, <1>4, <1>5 DEF Reads

-----------------------------------------------------------------------------
(* What a task that waits alone has before it. *)
LEMMA TextNumbers ==
    ASSUME TextInv
    PROVE  /\ out.c \in 0..cmds /\ cmds \in Nat /\ out.c \in Nat
           /\ rxBffr \in Seq(Pieces(1..out.c)) /\ rawResponse \in Seq(Pieces(1..out.c))
           /\ Len(rxBffr) \in Nat /\ Len(rawResponse) \in Nat
           /\ \A j \in 1..Len(rxBffr) : rxBffr[j].c \in 1..cmds /\ rxBffr[j].c <= out.c
           /\ \A j \in 1..Len(rawResponse) : rawResponse[j].c \in 1..cmds
<1>1. out.c \in 0..cmds /\ cmds \in Nat /\ rxBffr \in Seq(Pieces(1..out.c)) /\ rawResponse \in Seq(Pieces(1..out.c))
  BY DEF TextInv, Answering, Numbers, Received
<1>2. out.c \in Nat
  BY <1>1
<1>3. /\ Len(rxBffr) \in Nat /\ \A j \in 1..Len(rxBffr) : rxBffr[j].c \in 1..out.c
      /\ Len(rawResponse) \in Nat /\ \A j \in 1..Len(rawResponse) : rawResponse[j].c \in 1..out.c
  BY <1>1, <1>2, TextNat
<1>4. \A c \in 1..out.c : c \in 1..cmds /\ c <= out.c
  BY <1>1, <1>2
<1> QED BY <1>1, <1>2, <1>3, <1>4

LEMMA AlonePresent ==
    ASSUME LockInv, OwnInv, Clean, NEW t \in Tasks, Alone(t), Awaits(t), NEW d \in 1..cmds, Present(d)
    PROVE  d \in loose \cup {cmds}
<1>1. d \in loose \/ \E s \in Tasks : Current(s) = d /\ Answers(s)
  BY DEF Clean
<1>2. ASSUME NEW s \in Tasks, Current(s) = d, Answers(s) PROVE s = t
  <2>1. Awaits(s)
    BY <1>2 DEF Answers, Open, Awaits
  <2> QED BY <2>1 DEF LockInv, Apart, Alone
<1>3. Current(t) = cmds
  BY DEF OwnInv, Latest
<1> QED BY <1>1, <1>2, <1>3

LEMMA StreamText ==
    ASSUME TextInv, OrderInv, NEW t, Streams(t), pc[t] \in {"data", "stream"}
    PROVE  out.c = cmds /\ (\A j \in 1..Len(rxBffr) : rxBffr[j].c = cmds) /\ 1 \in 1..Len(rxBffr)
<1>1. rxBffr # <<>> /\ rxBffr[1].c = cmds
  BY DEF Streams
<1>2. /\ cmds \in Nat /\ out.c \in 0..cmds /\ Len(rxBffr) \in Nat /\ rxBffr \in Seq(Pieces(1..out.c))
      /\ \A j \in 1..Len(rxBffr) : rxBffr[j].c \in 1..cmds /\ rxBffr[j].c <= out.c
  BY TextNumbers
<1>3. 1 \in 1..Len(rxBffr)
  BY <1>1, <1>2
<1>4. \A j \in 1..Len(rxBffr) : j \in 1..Len(rxBffr) /\ 1 <= j
  OBVIOUS
<1>5. ASSUME NEW j \in 1..Len(rxBffr) PROVE rxBffr[j].c = cmds
  <2>1. rxBffr[1].c <= rxBffr[j].c
    <3>1. j \in 1..Len(rxBffr)
      OBVIOUS
    <3>2. \A i \in 1..Len(rxBffr) : \A h \in i..Len(rxBffr) : rxBffr[i].c <= rxBffr[h].c
      BY DEF OrderInv, Sorted
    <3> QED BY <1>3, <3>1, <3>2
  <2> QED BY <1>1, <1>2, <2>1
<1>6. out.c = cmds
  <2>1. cmds <= out.c /\ out.c \in 0..cmds
    BY <1>1, <1>2, <1>3
  <2> QED BY <1>2, <2>1
<1> QED BY <1>3, <1>5, <1>6

-----------------------------------------------------------------------------
(* Where a handler ends: at the last line of the answer.                   *)
LEMMA RestNone ==
    ASSUME NEW T, NEW x \in Seq(T), NEW i \in Nat \ {0}, Len(x) + 1 = i
    PROVE  Rest(x, i) = <<>>
<1>1. Rest(x, i) \in Seq(T) /\ EndOf(Rest(x, i), x, i - 1)
  <2>1. Len(x) \in Nat /\ i <= Len(x) + 1
    OBVIOUS
  <2> QED BY <2>1, RestIs
<1>2. Len(Rest(x, i)) = 0
  BY <1>1 DEF EndOf
<1> QED BY <1>1, <1>2

LEMMA SeenAt ==
    ASSUME NEW j \in 1..Len(rxBffr), rxBffr[j].c = cmds, NEW K, rxBffr[j].k \in K
    PROVE  Carries(rxBffr, K) /\ Seen(K)
BY DEF Seen, Carries

LEMMA PageLine ==
    ASSUME TextInv, OrderInv, NEW t, pc[t] = "stream", Streams(t), Kind(t) = "QHTTPREAD", Gets("QHTTPREAD"),
           Places(rxBffr, <<"QHTTPREAD", "tok", "eol">>) # {}
    PROVE  /\ PageEnd \in 1..Len(rxBffr) /\ rxBffr[PageEnd].k = "QHTTPREAD" /\ rxBffr[PageEnd].c = cmds
           /\ rxBffr[PageEnd + 1].v = 0 => cmds \in good
           /\ Rest(rxBffr, PageEnd + 3) = <<>> /\ out.c = cmds /\ out.chunks = <<>>
           /\ PageEnd + 3 \in Nat \ {0}
<1>1. out.c = cmds /\ \A j \in 1..Len(rxBffr) : rxBffr[j].c = cmds
  BY StreamText
<1>2. rxBffr \in Seq(Pieces(1..out.c)) /\ Len(rxBffr) \in Nat
  BY TextNumbers
<1> DEFINE part == <<"QHTTPREAD", "tok", "eol">>
<1>3. PageEnd \in Places(rxBffr, part)
  BY FirstIs DEF PageEnd
<1>4. part \in Seq({"QHTTPREAD", "tok", "eol"}) /\ part # <<>> /\ Len(part) = 3 /\ part[1] = "QHTTPREAD"
  <2>1. part \in Seq({"QHTTPREAD", "tok", "eol"}) /\ Len(part) = 3 /\ part[1] = "QHTTPREAD"
    OBVIOUS
  <2> QED BY <2>1
<1> HIDE DEF part
<1>5. PageEnd \in Nat \ {0} /\ \A j \in 1..Len(part) : PageEnd + j - 1 \in 1..Len(rxBffr) /\ rxBffr[PageEnd + j - 1].k = part[j]
  <2> DEFINE K == {"QHTTPREAD", "tok", "eol"}  T == Pieces(1..out.c)  x == rxBffr  i == PageEnd
  <2>1. part \in Seq(K) /\ part # <<>> /\ x \in Seq(T) /\ i \in Places(x, part)
    BY <1>2, <1>3, <1>4
  <2> HIDE DEF K, T, x, i
  <2>2. i \in Nat \ {0} /\ \A j \in 1..Len(part) : i + j - 1 \in 1..Len(x) /\ x[i + j - 1].k = part[j]
    BY ONLY <2>1, PlacesAre
  <2> QED BY <2>2 DEF x, i
<1>6. PageEnd \in 1..Len(rxBffr) /\ rxBffr[PageEnd].k = "QHTTPREAD"
  <2>1. 1 \in 1..Len(part) /\ PageEnd + 1 - 1 = PageEnd
    BY <1>4, <1>5
  <2> QED BY <1>4, <1>5, <2>1
<1>7. LineOf("QHTTPREAD", rxBffr, PageEnd, cmds \in good) /\ rxBffr[PageEnd].c = cmds
  BY <1>1, <1>6 DEF Gets
<1>8. Len(rxBffr) = PageEnd + 2 /\ (rxBffr[PageEnd + 1].v = 0 => cmds \in good)
  BY <1>6, <1>7 DEF LineOf
<1>9. Rest(rxBffr, PageEnd + 3) = <<>>
  <2>1. Len(rxBffr) + 1 = PageEnd + 3 /\ PageEnd + 3 \in Nat \ {0}
    BY <1>5, <1>8
  <2> QED BY <1>2, <2>1, RestNone
<1>10. Seen(Final("QHTTPREAD"))
  <2>1. "QHTTPREAD" \in Final("QHTTPREAD")
    BY DEF Final, GetKinds
  <2> QED BY <1>6, <1>7, <2>1, SeenAt
<1> QED BY <1>1, <1>5, <1>6, <1>7, <1>8, <1>9, <1>10 DEF Gets

LEMMA FeedLine ==
    ASSUME TextInv, OrderInv, NEW t, pc[t] = "data", Streams(t), Gets(Kind(t)), dataMode.skip, Has(rxBffr, "OK")
    PROVE  /\ FeedEnd \in 1..Len(rxBffr) /\ rxBffr[FeedEnd].k = "OK" /\ rxBffr[FeedEnd].c = cmds
           /\ cmds \in good /\ Kind(t) = "QHTTPURL"
           /\ Rest(rxBffr, FeedEnd + 2) = <<>> /\ out.c = cmds /\ out.chunks = <<>>
           /\ FeedEnd + 2 \in Nat \ {0}
<1>1. out.c = cmds /\ \A j \in 1..Len(rxBffr) : rxBffr[j].c = cmds
  BY StreamText
<1>2. rxBffr \in Seq(Pieces(1..out.c)) /\ Len(rxBffr) \in Nat
  BY TextNumbers
<1>3. Kind(t) = "QHTTPURL"
  <2>1. Kind(t) \in Fed /\ dataMode = Handler(Kind(t)) /\ dataMode.h = "stdTx"
    BY DEF Streams
  <2>2. Skips(Kind(t)) /\ HandlerOf(Kind(t)) = "stdTx"
    BY <2>1 DEF Handler
  <2> QED BY <2>2 DEF HandlerOf, Skips
<1>4. Places(rxBffr, <<"OK">>) # {}
  BY <1>2, HasPlace
<1>5. FeedEnd \in 1..Len(rxBffr) /\ rxBffr[FeedEnd].k = "OK"
  <2>1. LET i == Min(Places(rxBffr, <<"OK">>)) IN i \in 1..Len(rxBffr) /\ rxBffr[i].k = "OK"
    BY <1>2, <1>4, HasWhere
  <2> QED BY <2>1 DEF FeedEnd
<1>6. rxBffr[FeedEnd].c = cmds /\ Seen(Final("QHTTPURL")) /\ Seen(Pledges("QHTTPURL"))
  BY <1>1, <1>5, SeenAt DEF Final, Pledges, GetKinds
<1>7. LineOf("QHTTPURL", rxBffr, FeedEnd, cmds \in good) /\ out.chunks = <<>> /\ cmds \in good
  BY <1>1, <1>3, <1>5, <1>6 DEF Gets
<1>8. Len(rxBffr) = FeedEnd + 1
  BY <1>5, <1>7 DEF LineOf
<1>9. Len(rxBffr) + 1 = FeedEnd + 2 /\ FeedEnd + 2 \in Nat \ {0}
  BY <1>5, <1>8
<1>10. Rest(rxBffr, FeedEnd + 2) = <<>>
  BY <1>2, <1>9, RestNone
<1> QED BY <1>1, <1>3, <1>5, <1>6, <1>7, <1>9, <1>10

-----------------------------------------------------------------------------
(* A page that is read keeps to its tale.                                  *)
LEMMA PageReads ==
    ASSUME LockInv, TextInv, OrderInv, NEW t \in Tasks, Reads(t), Streams(t), Kind(t) = "QHTTPREAD", Story("QHTTPREAD")
    PROVE  Page'
<1>1. Asks("QHTTPREAD") /\ Gets("QHTTPREAD") /\ Page
  BY DEF Story
<1>2. UNCHANGED <<cmds, out>>
  BY ReadsGo DEF ReadFrame
<1>3. Received /\ rxBffr \in Seq(Pieces(1..out.c)) /\ rawResponse \in Seq(Pieces(1..out.c))
  BY TextNumbers DEF TextInv
<1>4. \A x, K : Carries(x, K)' <=> Carries(x', K)
  BY <1>2 DEF Carries
<1>5. ASSUME NEW y, rawResponse' = y, NEW z, rxBffr' = z,
             ~Carries(y, {"OK"}), ~Carries(z, {"OK"}), dataMode' = NoData => out.c = cmds /\ \A m \in 1..Len(out.chunks) : ~Tells(out.chunks[m], {"OK"}),
             dataMode' # NoData => (out.c = cmds => Promised(out.chunks))
      PROVE  Page'
  <2>1. ~Carries(rawResponse, {"OK"})' /\ ~Carries(rxBffr, {"OK"})'
    BY <1>2, <1>5 DEF Carries
  <2> QED BY <1>2, <1>5, <2>1 DEF Page
<1>6. CASE ReadNothing(t)
  <2>1. UNCHANGED <<rawResponse, rxBffr, dataMode>>
    BY <1>6 DEF ReadNothing
  <2> QED BY <1>1, <1>2, <2>1 DEF Page, Carries
<1>7. CASE ReadResult(t)
  <2>1. Shifts(rxBffr) /\ dataMode' = dataMode /\ ~Triggered
    BY <1>7, ParseShifts DEF ReadResult
  <2>2. dataMode # NoData => ~Carries(rxBffr, {"CONNECT"})
    <3>1. dataMode # NoData => dataMode.h # "none"
      BY <1>1 DEF Asks, Fed, Handler, HandlerOf
    <3>2. Carries(rxBffr, {"CONNECT"}) => Has(rxBffr, "CONNECT")
      BY <1>3 DEF Carries, Has
    <3> QED BY <2>1, <3>1, <3>2 DEF Triggered
  <2>3. ~Carries(rxBffr, {"OK"}) /\ ~Carries(rawResponse, {"OK"})
    BY <1>1, <2>2 DEF Page
  <2>4. CASE rawResponse' = rawResponse /\ rxBffr' = rxBffr
    BY <1>1, <1>2, <2>1, <2>4 DEF Page, Carries
  <2>5. CASE rawResponse' = rawResponse \o rxBffr /\ rxBffr' = <<>>
    <3>1. ~Carries(rawResponse \o rxBffr, {"OK"}) /\ ~Carries(<<>>, {"OK"})
      BY <1>3, <2>3, CarriesCat, CarriesNone
    <3>2. dataMode' = NoData => out.c = cmds /\ \A m \in 1..Len(out.chunks) : ~Tells(out.chunks[m], {"OK"})
      BY <1>1, <2>1 DEF Page
    <3>3. dataMode' # NoData => (out.c = cmds => Promised(out.chunks))
      BY <1>1, <2>1, <2>2 DEF Page
    <3> QED BY <1>5, <2>5, <3>1, <3>2, <3>3
  <2> QED BY <2>1, <2>4, <2>5 DEF Shifts
<1>8. CASE DataSent(t) \/ DataTimeout(t) \/ FileStreamed(t)
  <2>1. \/ pc[t] = "data"
        \/ pc[t] = "stream" /\ dataMode.h = "S__filesRxHndlr"
    BY <1>8, RunsAlone DEF DataSent, DataTimeout, FileStreamed
  <2> QED BY <2>1 DEF Streams, Handler, HandlerOf
<1>9. CASE PageStreamed(t)
  <2>1. /\ pc[t] = "stream" /\ Places(rxBffr, <<"QHTTPREAD", "tok", "eol">>) # {}
        /\ HandlerEnds(t, rxBffr[PageEnd + 1].v = 0, rxBffr[PageEnd].c, Rest(rxBffr, PageEnd + 3))
    BY <1>9, RunsAlone DEF PageStreamed, PageEnd
  <2>2. Rest(rxBffr, PageEnd + 3) = <<>> /\ out.c = cmds /\ out.chunks = <<>>
    BY <1>1, <2>1, PageLine
  <2>3. dataMode' = NoData
    BY <2>1 DEF HandlerEnds
  <2>4. Shifts(<<>>)
    BY <2>1, <2>2, HandlerShifts
  <2>5. rawResponse \o <<>> = rawResponse
    BY <1>3
  <2>6. rawResponse' = rawResponse /\ rxBffr' = <<>>
    BY <2>4, <2>5 DEF Shifts
  <2>7. \A m \in 1..Len(out.chunks) : ~Tells(out.chunks[m], {"OK"})
    BY <2>2
  <2> QED BY <1>1, <1>5, <2>2, <2>3, <2>6, <2>7, CarriesNone DEF Page
<1> QED BY <1>6, <1>7, <1>8, <1>9 DEF Reads

(* So does every answer that is read.                                      *)
LEMMA StoryReads ==
    ASSUME LockInv, TextInv, OrderInv, NEW t \in Tasks, Reads(t), Streams(t), Story(Kind(t))
    PROVE  Story(Kind(t))'
<1>1. UNCHANGED <<cmds, out, good, call, step, http>> /\ Takes
  BY ReadsGo, ReadsTake DEF ReadFrame, TextInv
<1>2. inbox' = inbox /\ dataMode' \in {dataMode, NoData}
  BY DEF Reads, ReadNothing, ReadResult, DataSent, DataTimeout, FileStreamed, PageStreamed, HandlerEnds
<1>3. Asks(Kind(t)) /\ Gets(Kind(t))
  BY DEF Story
<1>4. Asks(Kind(t))' /\ Gets(Kind(t))'
  <2> DEFINE k == Kind(t)
  <2>1. k' = k
    BY <1>1, SameScripts DEF Kind, Command
  <2> HIDE DEF k
  <2>2. Asks(k) /\ Gets(k)
    BY <1>3 DEF k
  <2>3. Asks(k)' /\ Gets(k)'
    BY <1>1, <1>2, <2>1, <2>2, StoryTaken
  <2> QED BY <2>3 DEF k
<1>5. Kind(t)' = Kind(t)
  BY <1>1, SameScripts DEF Kind, Command
<1>6. Kind(t) = "QHTTPREAD" => Page'
  BY PageReads
<1> QED BY <1>4, <1>5, <1>6 DEF Story

-----------------------------------------------------------------------------
(* What the parser of a command finds in the response.                     *)
LEMMA CommandFit ==
    ASSUME LockInv, WhereInv, NEW t \in Tasks, Working(t)
    PROVE  /\ \/ Command(t) = ActivateCommand /\ call[t] \in Activating
              \/ Matches(Command(t), Command(t).k) /\ call[t] \notin Activating
           /\ Command(t).p.pre # "QIACT" => Matches(Command(t), Command(t).k) /\ Judges(Command(t).p)
<1>1. step[t] <= Len(Script(t).cmds)
  BY DEF WhereInv, WhereOf
<1>2. Command(t) \in CommandsOf(call[t])
  BY <1>1, CommandMade
<1>3. \/ Command(t) = ActivateCommand /\ call[t] \in Activating
      \/ Matches(Command(t), Command(t).k) /\ call[t] \notin Activating
  BY <1>2, CommandsMatch DEF CommandsOf
<1>4. ActivateCommand.p.pre = "QIACT"
  BY ActivateIs DEF S__contextStatusCompleteParser, Std
<1>5. Matches(Command(t), Command(t).k) => Judges(Command(t).p)
  BY ParsersJudge DEF Matches
<1> QED BY <1>3, <1>4, <1>5

LEMMA FoundIs ==
    ASSUME TextInv', OrderInv', UNCHANGED cmds, NEW r, NEW c, Parsed(r, c), Judges(parser)
    PROVE  /\ c # 0 <=> r \in {"success", "cmError"}
           /\ c # 0 => Texted(rawResponse', c)
           /\ c = cmds /\ r = "cmError" => Carries(rawResponse', {"ERROR"})
           /\ c = cmds /\ r = "success" => Carries(rawResponse', {Witness(parser)})
           /\ r = "success" => Verdict(parser, rawResponse') = "success"
           /\ r \in {"success", "cmError", "notFound", "internalError"}
<1> DEFINE x == rawResponse'  v == Verdict(parser, x)  n == out'.c
<1>1. n \in Nat /\ x \in Seq(Pieces(1..n)) /\ Sorted(x) /\ Whole(x) /\ Len(x) \in Nat /\ cmds' \in Nat
      /\ \A j \in 1..Len(x) : x[j].c \in 1..cmds'
  <2>1. (out.c \in Nat /\ rawResponse \in Seq(Pieces(1..out.c)) /\ Len(rawResponse) \in Nat /\ cmds \in Nat
         /\ \A j \in 1..Len(rawResponse) : rawResponse[j].c \in 1..cmds)'
    BY TextNumbers, PTL
  <2> QED BY <2>1 DEF OrderInv
<1>2. c = Decider(parser, x) /\ v # "pending" /\ r = ResultOf(v)
  BY DEF Parsed
<1>3. v \in {"moduleError", "pending", "preambleMissing", "countShort", "success"}
  BY VerdictIs
<1>4. /\ r = "cmError" <=> v = "moduleError"
      /\ r = "success" <=> v = "success"
      /\ r \in {"success", "cmError", "notFound", "internalError"}
  <2> HIDE DEF v
  <2> QED BY <1>2, <1>3 DEF ResultOf
<1>5. /\ v = "moduleError" => c # 0 /\ Texted(x, c) /\ Judged(x, c, "ERROR")
      /\ v = "success" => c # 0 /\ Texted(x, c) /\ Judged(x, c, Witness(parser))
      /\ v \notin {"moduleError", "success"} => c = 0
  BY <1>1, <1>2, Decided
<1>6. ASSUME NEW w, Judged(x, cmds, w) PROVE Carries(rawResponse', {w})
  <2>1. PICK j \in 1..Len(x) : x[j].k = w /\ x[j].c >= cmds
    BY <1>6 DEF Judged
  <2>2. x[j].c \in 1..cmds
    BY <1>1
  <2>3. x[j].c = cmds
    <3> DEFINE a == x[j].c  b == cmds
    <3>1. a \in 1..b /\ a >= b /\ b \in Nat
      BY <1>1, <2>1, <2>2
    <3> HIDE DEF a, b
    <3>2. a = b
      BY <3>1
    <3> QED BY <3>2 DEF a, b
  <2> QED BY <2>1, <2>3 DEF Carries
<1> HIDE DEF x, v
<1>7. c = cmds /\ r = "cmError" => Carries(rawResponse', {"ERROR"})
  <2>1. c = cmds /\ r = "cmError" => Judged(x, cmds, "ERROR")
    BY <1>4, <1>5
  <2> QED BY <1>6, <2>1
<1>8. c = cmds /\ r = "success" => Carries(rawResponse', {Witness(parser)})
  <2> DEFINE w == Witness(parser)
  <2>1. c = cmds /\ r = "success" => Judged(x, cmds, w)
    BY <1>4, <1>5
  <2> HIDE DEF w
  <2>2. c = cmds /\ r = "success" => Carries(rawResponse', {w})
    BY <1>6, <2>1
  <2> QED BY <2>2 DEF w
<1>9. (c # 0 <=> r \in {"success", "cmError"}) /\ (c # 0 => Texted(x, c))
  BY <1>4, <1>5
<1> QED BY <1>4, <1>7, <1>8, <1>9 DEF x, v

(* An answer in full ends a wait by itself, with nothing left of it.       *)
LEMMA FinalWitness ==
    ASSUME NEW k, k # "again", ParserOf(k) \notin EarlyParsers
    PROVE  "ERROR" \in Final(k) /\ (k # "QHTTPREAD" => Witness(ParserOf(k)) \in Final(k)) /\ (k = "QHTTPREAD" => Witness(ParserOf(k)) = "OK")
<1>1. k \notin {"QGPSLOC", "QADC", "QCFG", "QIOPEN"}
  BY DEF EarlyParsers, ParserOf, GetKinds
<1>2. CASE k = "ICCID"
  BY <1>2 DEF ParserOf, Witness, Final, GetKinds, S__iccidCompleteParser, Std
<1>3. CASE k \in GetKinds
  BY <1>3 DEF ParserOf, Witness, Final, GetKinds, S__httpGetStatusParser, Std
<1>4. CASE k = "QHTTPPOST"
  BY <1>4 DEF ParserOf, Witness, Final, GetKinds, S__httpPostStatusParser, Std
<1>5. CASE k \notin {"ICCID", "QHTTPPOST"} \cup GetKinds
  <2>1. ParserOf(k) = ATCMD_okResponseParser
    BY <1>1, <1>5 DEF ParserOf, GetKinds
  <2>2. Witness(ATCMD_okResponseParser) = "OK"
    BY DEF Witness, ATCMD_okResponseParser, Std
  <2> QED BY <1>1, <1>5, <2>1, <2>2 DEF Final, GetKinds
<1> QED BY <1>2, <1>3, <1>4, <1>5

LEMMA AloneTale ==
    ASSUME Numbers, OwnInv, TaleInv, NEW t \in Tasks, Alone(t), Awaits(t)
    PROVE  /\ Current(t) = cmds /\ cmds \in mine[t] /\ Clear /\ Fresh(t) /\ (Open(t) => parser = Command(t).p)
           /\ Fair /\ asserted = "none" => Story(Kind(t)) /\ Streams(t)
<1>1. Current(t) = cmds
  BY DEF OwnInv, Latest
<1>2. mine[t] \in SUBSET (1..cmds) /\ cmds \in Nat /\ mine[t] # {}
  BY DEF Numbers, Alone
<1>3. Max(mine[t]) \in mine[t]
  BY <1>2, MaxGreatest
<1>4. cmds \in mine[t]
  BY <1>1, <1>2, <1>3 DEF Current
<1>5. TaleOf(t)
  BY DEF TaleInv, Tales
<1> QED BY <1>1, <1>4, <1>5 DEF TaleOf, Follows

-----------------------------------------------------------------------------
LEMMA ReadsLeave ==
    ASSUME LockInv, NEW t \in Tasks, Reads(t)
    PROVE  /\ UNCHANGED <<cmds, out, good, inbox, call, step, http, mine, disturbed, parser, last>>
           /\ dataMode' \in {dataMode, NoData} /\ Awaits(t) /\ Open(t) /\ Working(t) /\ asserted = "none"
           /\ Current(t)' = Current(t) /\ Command(t)' = Command(t)
<1>1. UNCHANGED <<cmds, out, good, call, step, http, mine, disturbed, parser, last>> /\ asserted = "none" /\ pc[t] \in {"read", "data", "stream"}
  BY ReadsGo DEF ReadFrame
<1>2. inbox' = inbox /\ dataMode' \in {dataMode, NoData}
  BY DEF Reads, ReadNothing, ReadResult, DataSent, DataTimeout, FileStreamed, PageStreamed, HandlerEnds
<1>3. Current(t)' = Current(t) /\ Command(t)' = Command(t)
  BY <1>1, SameScripts DEF Current, Command
<1> QED BY <1>1, <1>2, <1>3 DEF Awaits, Open, Working

LEMMA EndsThere ==
    ASSUME TextInv, NEW t
    PROVE  /\ DataSent(t) => FeedEnd \in 1..Len(rxBffr) /\ rxBffr[FeedEnd].k = "OK"
           /\ PageStreamed(t) => PageEnd \in 1..Len(rxBffr)
<1>1. rxBffr \in Seq(Pieces(1..out.c)) /\ Len(rxBffr) \in Nat
  BY TextNumbers
<1>2. CASE DataSent(t)
  <2>1. Has(rxBffr, "OK")
    BY <1>2 DEF DataSent
  <2>2. Places(rxBffr, <<"OK">>) # {}
    BY <1>1, <2>1, HasPlace
  <2>3. LET i == Min(Places(rxBffr, <<"OK">>)) IN i \in 1..Len(rxBffr) /\ rxBffr[i].k = "OK"
    BY <1>1, <2>2, HasWhere
  <2>4. FeedEnd \in 1..Len(rxBffr) /\ rxBffr[FeedEnd].k = "OK"
    BY <2>3 DEF FeedEnd
  <2>5. ~PageStreamed(t)
    BY <1>2, RunsAlone DEF DataSent, PageStreamed, At
  <2> QED BY <2>4, <2>5
<1>3. CASE PageStreamed(t)
  <2> DEFINE part == <<"QHTTPREAD", "tok", "eol">>  T == Pieces(1..out.c)  K == {"QHTTPREAD", "tok", "eol"}  x == rxBffr  i == PageEnd
  <2>1. Places(x, part) # {} /\ part \in Seq(K) /\ part # <<>> /\ x \in Seq(T) /\ Len(part) = 3
    <3>1. Places(x, part) # {}
      BY <1>3 DEF PageStreamed
    <3>2. part \in Seq(K) /\ Len(part) = 3
      OBVIOUS
    <3> QED BY <1>1, <3>1, <3>2
  <2>2. i \in Places(x, part)
    BY <2>1, FirstIs DEF PageEnd
  <2> HIDE DEF part, T, K, x, i
  <2>7. part \in Seq(K) /\ part # <<>> /\ x \in Seq(T) /\ i \in Places(x, part)
    BY <2>1, <2>2
  <2>3. i \in Nat \ {0} /\ \A j \in 1..Len(part) : i + j - 1 \in 1..Len(x) /\ x[i + j - 1].k = part[j]
    BY ONLY <2>7, PlacesAre
  <2>4. 1 \in 1..Len(part) /\ i + 1 - 1 = i
    BY <2>1, <2>3
  <2>5. i \in 1..Len(x)
    BY <2>3, <2>4
  <2>6. ~DataSent(t)
    BY <1>3, RunsAlone DEF DataSent, PageStreamed, At
  <2> QED BY <2>5, <2>6 DEF x, i
<1> QED BY <1>2, <1>3

(* A wait that is ended by its own answer leaves nothing of it.            *)
LEMMA NothingLeft ==
    ASSUME NEW k, Gets(k), out.c = cmds, Seen(Final(k)) \/ out.chunks = <<>>, rxBffr' = <<>>, UNCHANGED <<out, inbox, cmds>>
    PROVE  ~Present(cmds)'
<1>1. out.chunks = <<>> /\ \A i \in 1..Len(inbox) : inbox[i] = [k |-> "data", c |-> cmds]
  BY DEF Gets
<1>2. \A i \in 1..Len(inbox') : inbox'[i].k = "data"
  BY <1>1
<1>3. \A i : i \notin 1..Len(<<>>)
  OBVIOUS
<1>4. ~\E i \in 1..Len(rxBffr') : rxBffr'[i].c = cmds'
  BY <1>3
<1> QED BY <1>1, <1>2, <1>4 DEF Present

LEMMA AnswerEnds ==
    ASSUME LockInv, TextInv, TextInv', WhereInv, OwnInv, OrderInv, OrderInv', TaleInv, NEW t \in Tasks, Reads(t),
           NEW r, NEW c, Found(t, r, c), EndedByItself(t, r, c), Answers(t), Current(t) # 0
    PROVE  ~Present(cmds)' /\ Current(t) = cmds
<1>1. /\ UNCHANGED <<cmds, out, inbox, parser>> /\ Awaits(t) /\ Open(t) /\ Working(t) /\ asserted = "none" /\ Takes
      /\ cmds \in Nat /\ Numbers /\ Received
  BY ReadsLeave, ReadsTake DEF TextInv, Numbers
<1>2. r \in {"success", "cmError"} /\ c = Current(t) /\ Command(t).p \notin EarlyParsers /\ got[c] \notin loose /\ ~disturbed[t]
  BY DEF EndedByItself
<1>3. Alone(t)
  BY <1>2 DEF Alone, Current, NoCmd
<1>4. Current(t) = cmds /\ parser = Command(t).p /\ Fair
  BY <1>1, <1>2, <1>3, AloneTale DEF Fair
<1> DEFINE k == Command(t).k
<1>5. k # "again" /\ Kind(t) = k
  BY DEF Answers, Kind
<1>6. Story(k) /\ Streams(t) /\ Gets(k)
  <2>1. Story(Kind(t)) /\ Streams(t)
    BY <1>1, <1>3, <1>4, AloneTale
  <2> QED BY <1>5, <2>1 DEF Story
<1> HIDE DEF k
<1>7. CASE Parsed(r, c)
  <2>1. parser.pre # "QIACT" /\ rxBffr' = <<>>
    BY <1>7 DEF Parsed
  <2>2. Matches(Command(t), k) /\ Judges(parser)
    BY <1>1, <1>4, <2>1, CommandFit DEF k
  <2>3. ParserOf(k) \notin EarlyParsers /\ parser = ParserOf(k)
    BY <1>2, <1>4, <2>2 DEF Matches
  <2>4. /\ r = "cmError" => Carries(rawResponse', {"ERROR"})
        /\ r = "success" => Carries(rawResponse', {Witness(parser)})
    BY <1>1, <1>2, <1>4, <1>7, <2>2, FoundIs
  <2>5. "ERROR" \in Final(k) /\ (k # "QHTTPREAD" => Witness(parser) \in Final(k)) /\ (k = "QHTTPREAD" => Witness(parser) = "OK")
    BY <1>5, <2>3, FinalWitness
  <2>6. k = "QHTTPREAD" => ~Carries(rawResponse', {"OK"})
    <3>1. k = "QHTTPREAD" => Page'
      BY <1>5, <1>6, PageReads
    <3> QED BY <1>1, <3>1 DEF Page, Carries
  <2>7. Carries(rawResponse', Final(k))
    <3>1. \E w \in Final(k) : Carries(rawResponse', {w})
      BY <1>2, <2>4, <2>5, <2>6
    <3> QED BY <3>1 DEF Carries
  <2>8. Seen(Final(k))
    <3>1. ASSUME NEW L, Carries(rawResponse', L) PROVE Seen(L)
      <4>1. Seen(L)' => Seen(L)
        BY <1>1, SeenTaken
      <4>2. Seen(L)'
        BY <1>1, <3>1 DEF Seen, Carries
      <4> QED BY <4>1, <4>2
    <3> QED BY <2>7, <3>1
  <2>9. out.c = cmds
    BY <2>8, NotSeen
  <2> QED BY <1>1, <1>4, <1>6, <2>1, <2>8, <2>9, NothingLeft
<1>8. CASE Skipped(t, r, c)
  <2>1. dataMode.skip
    BY <1>8 DEF Skipped
  <2>2. CASE DataSent(t)
    <3>1. pc[t] = "data" /\ HandlerEnds(t, TRUE, rxBffr[FeedEnd].c, Rest(rxBffr, FeedEnd + 2)) /\ Has(rxBffr, "OK")
      BY <2>2, RunsAlone DEF DataSent, FeedEnd, BehindOK
    <3>2. Rest(rxBffr, FeedEnd + 2) = <<>> /\ out.c = cmds /\ out.chunks = <<>>
      BY <1>5, <1>6, <2>1, <3>1, FeedLine
    <3>3. rxBffr' = <<>>
      BY <2>1, <3>1, <3>2 DEF HandlerEnds
    <3> QED BY <1>1, <1>4, <1>6, <3>2, <3>3, NothingLeft
  <2>3. CASE PageStreamed(t)
    <3>1. /\ pc[t] = "stream" /\ HandlerEnds(t, rxBffr[PageEnd + 1].v = 0, rxBffr[PageEnd].c, Rest(rxBffr, PageEnd + 3))
          /\ Places(rxBffr, <<"QHTTPREAD", "tok", "eol">>) # {} /\ dataMode.h = "S__httpRxHndlr"
      BY <2>3, RunsAlone DEF PageStreamed, PageEnd
    <3>2. Kind(t) = "QHTTPREAD"
      BY <1>6, <3>1 DEF Streams, Handler, HandlerOf
    <3>3. Rest(rxBffr, PageEnd + 3) = <<>> /\ out.c = cmds /\ out.chunks = <<>>
      BY <1>5, <1>6, <3>1, <3>2, PageLine
    <3>4. Shifts(<<>>)
      BY <3>1, <3>3, HandlerShifts
    <3>5. rxBffr' = <<>>
      BY <3>4 DEF Shifts
    <3> QED BY <1>1, <1>4, <1>6, <3>3, <3>5, NothingLeft
  <2> QED BY <1>8, <2>2, <2>3 DEF Skipped
<1>9. ~Nothing(r, c)
  BY <1>2 DEF Nothing
<1> QED BY <1>7, <1>8, <1>9 DEF Found

-----------------------------------------------------------------------------
(* What is still to come stays loose, or is of a command that waits.       *)
LEMMA CleanLess ==
    ASSUME Clean, UNCHANGED cmds, loose \subseteq loose', \A d \in 1..cmds : Present(d)' => Present(d),
           \A s \in Tasks : \A d \in 1..cmds : Current(s) = d /\ Answers(s) =>
               (Answers(s)' /\ Current(s)' = d) \/ d \in loose' \/ ~Present(d)'
    PROVE  Clean'
<1> SUFFICES ASSUME NEW d \in 1..cmds, Present(d)'
             PROVE  d \in loose' \/ \E s \in Tasks : Current(s)' = d /\ Answers(s)'
  BY DEF Clean
<1>1. d \in loose \/ \E s \in Tasks : Current(s) = d /\ Answers(s)
  BY DEF Clean
<1> QED BY <1>1

LEMMA PresentTaken ==
    ASSUME TextInv, Takes, UNCHANGED <<out, cmds>>, inbox' = inbox \/ \E c : inbox' = Append(inbox, [k |-> "data", c |-> c]), NEW d, Present(d)'
    PROVE  Present(d)
<1>1. PICK x \in Seq(Pieces(1..out.c)) : \E n : EndOf(x, rxBffr, n) /\ Shifts(x)
  BY DEF Takes
<1>2. PICK n : EndOf(x, rxBffr, n) /\ Shifts(x)
  BY <1>1
<1>3. Len(rxBffr) \in Nat
  BY TextNumbers
<1>4. \A j \in 1..Len(x) : n + j \in 1..Len(rxBffr) /\ x[j] = rxBffr[n + j]
  BY <1>2, <1>3, EndPlaces
<1>5. CASE \E i \in 1..Len(rxBffr') : rxBffr'[i].c = d
  <2>1. PICK i \in 1..Len(rxBffr') : rxBffr'[i].c = d
    BY <1>5
  <2>2. rxBffr' = x
    <3>1. rxBffr' # <<>>
      BY <2>1
    <3> QED BY <1>2, <3>1 DEF Shifts
  <2>3. n + i \in 1..Len(rxBffr) /\ rxBffr[n + i].c = d
    BY <1>4, <2>1, <2>2
  <2> QED BY <2>3 DEF Present
<1>6. CASE \E i \in 1..Len(inbox') : inbox'[i].k # "data" /\ inbox'[i].c = d
  <2>1. PICK i \in 1..Len(inbox') : inbox'[i].k # "data" /\ inbox'[i].c = d
    BY <1>6
  <2>2. CASE inbox' = inbox
    BY <2>1, <2>2 DEF Present
  <2>3. CASE \E c : inbox' = Append(inbox, [k |-> "data", c |-> c])
    <3>1. PICK c : inbox' = Append(inbox, [k |-> "data", c |-> c])
      BY <2>3
    <3>2. inbox \in Seq(Messages(cmds)) /\ Len(inbox) \in Nat
      BY DEF TextInv, Queued
    <3>3. i \in 1..(Len(inbox) + 1) /\ (i # Len(inbox) + 1 => i \in 1..Len(inbox) /\ inbox'[i] = inbox[i])
          /\ (i = Len(inbox) + 1 => inbox'[i] = [k |-> "data", c |-> c])
      BY <2>1, <3>1, <3>2
    <3>4. i # Len(inbox) + 1
      BY <2>1, <3>3
    <3> QED BY <2>1, <3>3, <3>4 DEF Present
  <2> QED BY <2>2, <2>3
<1>7. CASE out'.chunks # <<>> /\ out'.c = d
  BY <1>7 DEF Present
<1> QED BY <1>5, <1>6, <1>7 DEF Present

LEMMA StillAnswers ==
    ASSUME UNCHANGED <<pc, call, step, rslt, http, mine>>
    PROVE  \A s \in Tasks : Current(s)' = Current(s) /\ (Answers(s)' <=> Answers(s)) /\ Command(s)' = Command(s)
BY SameScripts DEF Current, Command, Answers, Open

LEMMA CleanModule == ASSUME TextInv, Clean, Serve \/ Emit \/ TakeData \/ Elapse \/ UNCHANGED vars PROVE Clean'
<1>1. UNCHANGED <<pc, call, step, rslt, http, mine, cmds, loose>>
  BY DEF Serve, Emit, TakeData, Elapse, ModFrame, vars, callVars, histVars
<1>2. \A s \in Tasks : Current(s)' = Current(s) /\ (Answers(s)' <=> Answers(s))
  BY <1>1, StillAnswers
<1> SUFFICES ASSUME NEW d \in 1..cmds, Present(d)' PROVE Present(d)
  BY <1>1, <1>2, CleanLess
<1>3. inbox \in Seq(Messages(cmds)) /\ Len(inbox) \in Nat
  BY DEF TextInv, Queued
<1>4. inbox' = Tail(inbox) /\ inbox # <<>> =>
        \A i \in 1..Len(inbox') : i + 1 \in 1..Len(inbox) /\ inbox'[i] = inbox[i + 1]
  BY <1>3
<1>5. inbox' = inbox \/ (inbox' = Tail(inbox) /\ inbox # <<>>) =>
        ((\E i \in 1..Len(inbox') : inbox'[i].k # "data" /\ inbox'[i].c = d) => Present(d))
  <2>1. CASE inbox' = inbox
    BY <2>1 DEF Present
  <2>2. CASE inbox' = Tail(inbox) /\ inbox # <<>>
    BY <1>4, <2>2 DEF Present
  <2> QED BY <2>1, <2>2
<1>6. CASE Serve
  <2>1. /\ inbox # <<>> /\ inbox' = Tail(inbox) /\ rxBffr' = rxBffr
        /\ out' = out \/ (inbox[1].k \in Asked /\ out'.c = inbox[1].c)
    BY <1>6, ServeIs
  <2>2. "data" \notin Asked
    BY DEF Asked
  <2>3. 1 \in 1..Len(inbox)
    BY <1>3, <2>1
  <2>4. out'.chunks # <<>> /\ out'.c = d => Present(d)
    BY <2>1, <2>2, <2>3 DEF Present
  <2>5. (\E i \in 1..Len(rxBffr') : rxBffr'[i].c = d) => Present(d)
    BY <2>1 DEF Present
  <2> QED BY <1>5, <2>1, <2>4, <2>5 DEF Present
<1>7. CASE Emit
  <2>1. LET R == out.chunks  x == Sent(R[1], out.c)
        IN  /\ R # <<>> /\ rxBffr' = rxBffr \o x /\ x \in Seq(Pieces(1..out.c)) /\ Len(x) = Len(R[1])
            /\ \A i \in 1..Len(R[1]) : x[i].c = out.c
            /\ out'.c = out.c /\ inbox' = inbox
    BY <1>7, EmitIs
  <2>2. (\E i \in 1..Len(rxBffr') : rxBffr'[i].c = d) => Present(d)
    <3> SUFFICES ASSUME NEW i \in 1..Len(rxBffr'), rxBffr'[i].c = d PROVE Present(d)
      OBVIOUS
    <3> DEFINE x == Sent(out.chunks[1], out.c)  y == rxBffr
    <3>1. y \in Seq(Pieces(1..out.c)) /\ x \in Seq(Pieces(1..out.c)) /\ rxBffr' = y \o x /\ \A j \in 1..Len(x) : x[j].c = out.c
      BY <2>1, TextNumbers
    <3> HIDE DEF x, y
    <3>0. y \in Seq(Pieces(1..out.c)) /\ x \in Seq(Pieces(1..out.c))
      BY <3>1
    <3>2. /\ \A j \in 1..Len(y) : (y \o x)[j] = y[j]
          /\ \A j \in 1..Len(x) : (y \o x)[Len(y) + j] = x[j]
          /\ \A j \in 1..Len(y \o x) : j \in 1..Len(y) \/ \E h \in 1..Len(x) : j = Len(y) + h
      BY ONLY <3>0, CatIs
    <3>3. CASE i \in 1..Len(y)
      <4>1. y[i].c = d
        BY <3>1, <3>2, <3>3
      <4> QED BY <3>3, <4>1 DEF Present, y
    <3>4. CASE \E h \in 1..Len(x) : i = Len(y) + h
      <4>1. out.c = d
        BY <3>1, <3>2, <3>4
      <4> QED BY <2>1, <4>1 DEF Present
    <3> QED BY <3>1, <3>2, <3>3, <3>4
  <2>3. (out'.chunks # <<>> /\ out'.c = d => Present(d))
    BY <2>1 DEF Present
  <2> QED BY <1>5, <2>1, <2>2, <2>3 DEF Present
<1>8. CASE TakeData
  <2>1. /\ out.chunks # <<>> /\ rxBffr' = rxBffr /\ out'.c = out.c
        /\ inbox' = inbox \/ (inbox' = Tail(inbox) /\ inbox # <<>>)
    BY <1>8, TakeDataIs
  <2> QED BY <1>5, <2>1 DEF Present
<1>9. CASE Elapse \/ UNCHANGED vars
  <2>1. UNCHANGED <<rxBffr, out, inbox>>
    BY <1>9 DEF Elapse, vars, modVars
  <2> QED BY <2>1 DEF Present
<1> QED BY <1>6, <1>7, <1>8, <1>9

-----------------------------------------------------------------------------
LEMMA OthersAnswer ==
    ASSUME LockInv, Numbers, NEW t \in Tasks, Caller(t), NEW s \in Tasks \ {t}, Answers(s)
    PROVE  Answers(s)' /\ Current(s)' = Current(s)
<1>1. Stays(s)
  BY OthersStay
<1> QED BY <1>1 DEF Stays, Answers, Open, Command, Current

LEMMA SentKind ==
    ASSUME LockInv, NEW t \in Tasks, Sending(t)
    PROVE  Command(t).k # "again" /\ ~Open(t)
<1>1. pc[t] \in {"next", "lock"} /\ step[t] \in 1..Len(Script(t).cmds)
  <2>1. pc[t] \in {"next", "lock"} /\ step[t] <= Len(Script(t).cmds) /\ step[t] \in Nat \ {0}
    BY SendingIs DEF LockInv, Types
  <2>2. Len(Script(t).cmds) \in Nat
    BY ScriptOfTask DEF Fit
  <2> QED BY <2>1, <2>2
<1>2. Honest(call[t], Script(t))
  BY ScriptIs, ScriptHonest DEF LockInv, Types
<1>3. Command(t).k = "again" => call[t] = "file_write" /\ step[t] = 2 /\ Script(t).manual
  BY <1>1, <1>2 DEF Honest, Command
<1>4. Command(t).k # "again"
  <2>1. CASE TryInvoke(t)
    BY <1>3, <2>1 DEF TryInvoke
  <2>2. CASE TakeLock(t)
    BY <1>3, <2>2 DEF TakeLock
  <2>3. CASE InvokeReuseLock(t)
    BY <2>3 DEF InvokeReuseLock
  <2> QED BY <2>1, <2>2, <2>3 DEF Sending
<1> QED BY <1>1, <1>4 DEF Open

LEMMA CleanSends == ASSUME LockInv, TextInv, Clean, NEW t \in Tasks, Caller(t), Sending(t) PROVE Clean'
<1>1. /\ cmds' = cmds + 1 /\ inbox' = Append(inbox, [k |-> Command(t).k, c |-> cmds + 1]) /\ UNCHANGED <<rxBffr, out, loose, call, http, step>>
      /\ mine' = [mine EXCEPT ![t] = @ \cup {cmds + 1}] /\ pc'[t] = "read"
  BY SendingIs, GoesTo DEF SendCommand, StartToRead
<1>2. Current(t)' = cmds + 1 /\ Answers(t)' /\ ~Open(t)
  <2>1. Current(t)' = cmds + 1
    BY <1>1, NewCurrent DEF TextInv
  <2>2. Command(t)' = Command(t)
    BY <1>1, SameScripts DEF Command
  <2> QED BY <1>1, <2>1, <2>2, SentKind DEF Answers, Open
<1> SUFFICES ASSUME NEW d \in 1..(cmds + 1), Present(d)', d # cmds + 1
             PROVE  d \in loose \/ \E s \in Tasks : Current(s)' = d /\ Answers(s)'
  BY <1>1, <1>2 DEF Clean
<1>3. d \in 1..cmds
  BY DEF TextInv, Numbers
<1>4. Present(d)
  <2>1. inbox \in Seq(Messages(cmds)) /\ Len(inbox) \in Nat
    BY DEF TextInv, Queued
  <2>2. \A i \in 1..Len(inbox') : (i \in 1..Len(inbox) /\ inbox'[i] = inbox[i]) \/ inbox'[i] = [k |-> Command(t).k, c |-> cmds + 1]
    BY <1>1, <2>1
  <2>3. (\E i \in 1..Len(inbox') : inbox'[i].k # "data" /\ inbox'[i].c = d) => Present(d)
    BY <2>2 DEF Present
  <2> QED BY <1>1, <2>3 DEF Present
<1>5. d \in loose \/ \E s \in Tasks : Current(s) = d /\ Answers(s)
  BY <1>3, <1>4 DEF Clean
<1>6. ASSUME NEW s \in Tasks, Current(s) = d, Answers(s) PROVE Current(s)' = d /\ Answers(s)'
  <2>1. s # t
    BY <1>2, <1>6 DEF Answers
  <2> QED BY <1>6, <2>1, OthersAnswer DEF TextInv
<1> QED BY <1>5, <1>6

LEMMA CleanReads ==
    ASSUME LockInv, TextInv, TextInv', WhereInv, OwnInv, OrderInv, OrderInv', TaleInv, NEW t \in Tasks, Caller(t), Reads(t)
    PROVE  Clean'
<1>1. /\ UNCHANGED <<cmds, out, inbox>> /\ Takes /\ Open(t) /\ Current(t)' = Current(t) /\ Command(t)' = Command(t)
      /\ asserted = "none"
  BY ReadsLeave, ReadsTake DEF TextInv
<1>2. \A d \in 1..cmds : Present(d)' => Present(d)
  BY <1>1, PresentTaken
<1>3. \A s \in Tasks \ {t} : Answers(s) => Answers(s)' /\ Current(s)' = Current(s)
  BY OthersAnswer DEF TextInv
<1>4. CASE Stopped
  <2>1. loose' = loose /\ pc' = pc /\ rslt' = rslt
    BY <1>4 DEF Stopped
  <2>2. Answers(t)' <=> Answers(t)
    BY <1>1, <2>1 DEF Answers, Open
  <2> QED BY <1>1, <1>2, <1>3, <2>1, <2>2, CleanLess DEF TaleInv
<1>5. ASSUME NEW r, NEW c, Found(t, r, c) PROVE Clean'
  <2>1. pc'[t] = "yield" /\ rslt'[t] = r /\ Conclude(t, r, c)
    BY <1>5, ConcludeGoes DEF Found
  <2>2. loose' = (IF r = "unknown" \/ Current(t) = NoCmd \/ EndedByItself(t, r, c) THEN loose ELSE loose \cup {Current(t)})
    BY <2>1 DEF Conclude
  <2>3. r = "unknown" => (Answers(t)' <=> Answers(t))
    BY <1>1, <2>1 DEF Answers, Open
  <2>4. EndedByItself(t, r, c) /\ Answers(t) /\ Current(t) # 0 => ~Present(cmds)' /\ Current(t) = cmds
    BY <1>5, AnswerEnds
  <2>5. \A d \in 1..cmds : Current(t) = d /\ Answers(t) => (Answers(t)' /\ Current(t)' = d) \/ d \in loose' \/ ~Present(d)'
    <3> SUFFICES ASSUME NEW d \in 1..cmds, Current(t) = d, Answers(t), r # "unknown", d \notin loose'
                 PROVE  ~Present(d)'
      BY <1>1, <2>3
    <3>1. d # 0 /\ EndedByItself(t, r, c)
      BY <2>2 DEF NoCmd
    <3>2. ~Present(cmds)' /\ d = cmds
      BY <2>4, <3>1
    <3> QED BY <1>1, <3>2 DEF Present
  <2>6. loose \subseteq loose'
    BY <2>2
  <2> QED BY <1>1, <1>2, <1>3, <2>5, <2>6, CleanLess DEF TaleInv
<1> QED BY <1>4, <1>5, ReadsFind

-----------------------------------------------------------------------------
(* A step that does not end a wait keeps the text clean. *)
LEMMA CleanKeeps ==
    ASSUME LockInv, TextInv, Clean, NEW t \in Tasks, Caller(t), UNCHANGED <<cmds, loose>>,
           \A d \in 1..cmds : Present(d)' => Present(d), Answers(t) => Answers(t)' /\ Current(t)' = Current(t)
    PROVE  Clean'
<1>1. \A s \in Tasks : Answers(s) => Answers(s)' /\ Current(s)' = Current(s)
  BY OthersAnswer DEF TextInv
<1> QED BY <1>1, CleanLess

LEMMA IdlesOpen ==
    ASSUME NEW t \in Tasks, Idles(t), Open(t)
    PROVE  ReadAgain(t)
<1>1. ~\E n : Call(t, n)
  BY RunsAlone DEF Call, Open
<1>2. ~SkipKnown(t) /\ ~WaitForLock(t) /\ ~ReuseLockAssert(t) /\ ~Refused(t)
  BY RunsAlone DEF SkipKnown, WaitForLock, ReuseLockAssert, Refused, Open
<1>3. ~AwaitReturns(t) /\ ~EndCall(t) /\ ~StreamAssert(t)
  BY RunsAlone DEF AwaitReturns, EndCall, StreamAssert, Open
<1> QED BY <1>1, <1>2, <1>3 DEF Idles

LEMMA ReadAgainIs ==
    ASSUME LockInv, NEW t \in Tasks, ReadAgain(t)
    PROVE  /\ pc[t] = "yield" /\ rslt[t] = "unknown" /\ pc'[t] = "read" /\ asserted = "none"
           /\ UNCHANGED <<call, step, rslt, http, mine, disturbed, asserted, parser>>
           /\ Open(t) /\ Open(t)' /\ Command(t)' = Command(t) /\ Current(t)' = Current(t)
<1>1. /\ pc[t] = "yield" /\ rslt[t] = "unknown" /\ pc'[t] = "read" /\ asserted = "none"
      /\ UNCHANGED <<call, step, rslt, http, mine, disturbed, asserted, parser>>
  BY RunsAlone, GoesTo DEF ReadAgain, cmdVars, histVars
<1> QED BY <1>1, SameScripts DEF Open, Command, Current

LEMMA EnterIs ==
    ASSUME LockInv, TextInv, NEW t \in Tasks, EnterDataMode(t)
    PROVE  LET i == Min(Places(rxBffr, <<"CONNECT">>))
           IN  /\ pc[t] = "read" /\ asserted = "none" /\ pc'[t] \in {"data", "stream"} /\ (pc'[t] = "data" <=> dataMode.h = "stdTx")
               /\ dataMode.h # "none" /\ i \in 1..Len(rxBffr) /\ rxBffr[i].k = "CONNECT" /\ rxBffr' = Rest(rxBffr, i)
               /\ inbox' = IF dataMode.h = "stdTx" THEN Append(inbox, [k |-> "data", c |-> dataMode.c]) ELSE inbox
               /\ got' = IF Current(t) \in {NoCmd, rxBffr[i].c} THEN got ELSE [got EXCEPT ![Current(t)] = rxBffr[i].c]
               /\ UNCHANGED <<cmds, out, good, call, step, http, mine, disturbed, parser, last, rawResponse, dataMode, rslt, loose, asserted, retValue>>
               /\ Awaits(t) /\ Open(t) /\ Open(t)' /\ Current(t)' = Current(t) /\ Command(t)' = Command(t)
<1> DEFINE i == Min(Places(rxBffr, <<"CONNECT">>))
<1>1. /\ pc[t] = "read" /\ asserted = "none" /\ Triggered /\ rxBffr' = Rest(rxBffr, i)
      /\ got' = IF Current(t) \in {NoCmd, rxBffr[i].c} THEN got ELSE [got EXCEPT ![Current(t)] = rxBffr[i].c]
      /\ UNCHANGED <<cmds, out, good, call, step, http, mine, disturbed, parser, last, rawResponse, dataMode, rslt, loose, asserted, retValue>>
  BY RunsAlone DEF EnterDataMode, ReadFrame
<1>2. \/ dataMode.h = "stdTx" /\ inbox' = Append(inbox, [k |-> "data", c |-> dataMode.c]) /\ Goto(t, "data")
      \/ dataMode.h # "stdTx" /\ inbox' = inbox /\ Goto(t, "stream")
  BY DEF EnterDataMode
<1>3. \/ dataMode.h = "stdTx" /\ inbox' = Append(inbox, [k |-> "data", c |-> dataMode.c]) /\ pc'[t] = "data"
      \/ dataMode.h # "stdTx" /\ inbox' = inbox /\ pc'[t] = "stream"
  BY <1>2, GoesTo
<1>4. i \in 1..Len(rxBffr) /\ rxBffr[i].k = "CONNECT" /\ dataMode.h # "none"
  <2>1. Has(rxBffr, "CONNECT") /\ dataMode.h # "none" /\ rxBffr \in Seq(Pieces(1..out.c))
    BY <1>1, TextNumbers DEF Triggered
  <2>2. Places(rxBffr, <<"CONNECT">>) # {}
    BY <2>1, HasPlace
  <2>3. LET h == Min(Places(rxBffr, <<"CONNECT">>)) IN h \in 1..Len(rxBffr) /\ rxBffr[h].k = "CONNECT"
    BY <2>1, <2>2, HasWhere
  <2> QED BY <2>1, <2>3
<1>5. Awaits(t) /\ Open(t) /\ Open(t)'
  BY <1>1, <1>3 DEF Awaits, Open
<1>6. Current(t)' = Current(t) /\ Command(t)' = Command(t)
  BY <1>1, SameScripts DEF Current, Command
<1> QED BY <1>1, <1>3, <1>4, <1>5, <1>6

LEMMA CleanCaller ==
    ASSUME LockInv, TextInv, TextInv', WhereInv, OwnInv, OrderInv, OrderInv', TaleInv, NEW t \in Tasks, Caller(t)
    PROVE  Clean'
<1>1. CASE Sending(t)
  BY <1>1, CleanSends DEF TaleInv
<1>2. CASE Reads(t)
  BY <1>2, CleanReads
<1>3. CASE Idles(t)
  <2>1. UNCHANGED <<cmds, loose, rxBffr, out, inbox>>
    BY <1>3, IdlesStill DEF Still
  <2>2. \A d \in 1..cmds : Present(d)' => Present(d)
    BY <2>1 DEF Present
  <2>3. Answers(t) => Answers(t)' /\ Current(t)' = Current(t)
    BY <1>3, IdlesOpen, ReadAgainIs DEF Answers
  <2> QED BY <2>1, <2>2, <2>3, CleanKeeps DEF TaleInv
<1>4. CASE AwaitAgain(t)
  <2>1. UNCHANGED <<cmds, loose, rxBffr, out, inbox>> /\ pc[t] = "next"
    BY <1>4, RunsAlone DEF AwaitAgain, modVars
  <2>2. \A d \in 1..cmds : Present(d)' => Present(d)
    BY <2>1 DEF Present
  <2>3. ~Answers(t)
    BY <2>1 DEF Answers, Open
  <2> QED BY <2>1, <2>2, <2>3, CleanKeeps DEF TaleInv
<1>5. CASE EnterDataMode(t)
  <2>1. UNCHANGED <<cmds, loose, out>> /\ Takes /\ (inbox' = inbox \/ \E c : inbox' = Append(inbox, [k |-> "data", c |-> c]))
    BY <1>5, EnterIs, ReadsTake DEF TextInv
  <2>2. \A d \in 1..cmds : Present(d)' => Present(d)
    BY <2>1, PresentTaken
  <2>3. Answers(t) => Answers(t)' /\ Current(t)' = Current(t)
    BY <1>5, EnterIs DEF Answers
  <2> QED BY <2>1, <2>2, <2>3, CleanKeeps DEF TaleInv
<1>6. CASE Return(t)
  <2>1. UNCHANGED <<cmds, loose, rxBffr, out, inbox>> /\ pc[t] = "return"
    BY <1>6, RunsAlone DEF Return, modVars
  <2>2. \A d \in 1..cmds : Present(d)' => Present(d)
    BY <2>1 DEF Present
  <2>3. ~Answers(t)
    BY <2>1 DEF Answers, Open
  <2> QED BY <2>1, <2>2, <2>3, CleanKeeps DEF TaleInv
<1> QED BY <1>1, <1>2, <1>3, <1>4, <1>5, <1>6, CallerKinds

-----------------------------------------------------------------------------
(* The tale of a task that is alone. *)
LEMMA StorySame ==
    ASSUME UNCHANGED <<rawResponse, rxBffr, dataMode, inbox, out, good, cmds>>, NEW k, Story(k)
    PROVE  Story(k)'
<1>1. \A K : (Seen(K)' <=> Seen(K)) /\ (Carries(rawResponse, K)' <=> Carries(rawResponse, K)) /\ (Carries(rxBffr, K)' <=> Carries(rxBffr, K))
  BY DEF Seen, Carries
<1>2. Asks(k)'
  BY DEF Story, Asks, Handler
<1>3. Gets(k)'
  BY <1>1 DEF Story, Gets
<1>4. Page => Page'
  BY <1>1 DEF Page
<1> QED BY <1>2, <1>3, <1>4 DEF Story

(* A task that keeps its command and sees no change keeps its tale. *)
LEMMA TaleSame ==
    ASSUME NEW t \in Tasks, TaleOf(t), Alone(t)' => Alone(t), Follows(t)' => Follows(t), Open(t)' => Open(t),
           pc'[t] \in {pc[t], "read"}, Command(t)' = Command(t), asserted' = "none" => asserted = "none",
           UNCHANGED <<rawResponse, rxBffr, dataMode, inbox, out, good, cmds, loose, parser>>, Alone(t)' => got'[cmds] = got[cmds]
    PROVE  TaleOf(t)'
<1> SUFFICES ASSUME Alone(t)', Follows(t)'
             PROVE  (/\ Clear /\ Fresh(t)
                     /\ Open(t) => parser = Command(t).p
                     /\ Fair /\ asserted = "none" => Story(Kind(t)) /\ Streams(t))'
  BY DEF TaleOf
<1>1. Clear /\ Fresh(t) /\ (Open(t) => parser = Command(t).p) /\ (Fair /\ asserted = "none" => Story(Kind(t)) /\ Streams(t))
  BY DEF TaleOf
<1>2. Clear'
  BY <1>1 DEF Clear
<1>3. Fresh(t)'
  <2>1. Answers(t)' => Answers(t)
    BY DEF Answers
  <2>2. (Open(t) \/ pc[t] = "next" \/ Command(t).k = "QFWRITE")' => (Open(t) \/ pc[t] = "next" \/ Command(t).k = "QFWRITE")
    OBVIOUS
  <2> QED BY <1>1, <2>1, <2>2 DEF Fresh
<1>4. (Open(t) => parser = Command(t).p)'
  BY <1>1
<1>5. Fair' /\ asserted' = "none" => Story(Kind(t))' /\ Streams(t)'
  <2> SUFFICES ASSUME Fair', asserted' = "none" PROVE Story(Kind(t))' /\ Streams(t)'
    OBVIOUS
  <2>1. Fair /\ asserted = "none"
    BY DEF Fair
  <2>2. Kind(t)' = Kind(t)
    BY DEF Kind
  <2>3. \A k : Story(k) => Story(k)'
    BY StorySame
  <2>4. Story(Kind(t))'
    BY <1>1, <2>1, <2>2, <2>3
  <2>5. Streams(t)'
    BY <1>1, <2>1, <2>2 DEF Streams, Handler
  <2> QED BY <2>4, <2>5
<1> QED BY <1>2, <1>3, <1>4, <1>5

LEMMA TaleOther ==
    ASSUME LockInv, Numbers, OwnInv, TaleInv, NEW t \in Tasks, Caller(t), NEW u \in Tasks \ {t}
    PROVE  TaleOf(u)'
<1> SUFFICES ASSUME Alone(u)' PROVE TaleOf(u)'
  BY DEF TaleOf
<1>1. /\ pc[u] \in {"yield", "data"} /\ Alone(u) /\ Stays(u) /\ asserted = "none"
      /\ UNCHANGED <<rawResponse, rxBffr, dataMode, inbox, out, good, loose, cmds, parser>>
      /\ Current(u)' = Current(u) /\ Command(u)' = Command(u)
      /\ \A c \in mine[u] : got'[c] = got[c]
  BY OtherStill
<1>2. cmds \in mine[u]
  BY <1>1, AloneTale DEF Awaits
<1>3. Open(u)' = Open(u) /\ Follows(u)' = Follows(u) /\ pc'[u] = pc[u]
  BY <1>1 DEF Stays, Open, Follows, Awaits
<1> QED BY <1>1, <1>2, <1>3, TaleSame DEF TaleInv, Tales

LEMMA TaleModule ==
    ASSUME LockInv, TextInv, TaleInv, Serve \/ Emit \/ TakeData \/ Elapse \/ UNCHANGED vars, NEW t \in Tasks
    PROVE  TaleOf(t)'
<1>1. UNCHANGED <<pc, call, step, rslt, http, mine, cmds, loose, got, asserted, parser, disturbed, rawResponse, dataMode>>
  BY DEF Serve, Emit, TakeData, Elapse, ModFrame, vars, callVars, histVars, cmdVars
<1>2. Current(t)' = Current(t) /\ (Answers(t)' <=> Answers(t)) /\ Command(t)' = Command(t)
  BY <1>1, StillAnswers
<1>3. (Alone(t)' <=> Alone(t)) /\ (Follows(t)' <=> Follows(t)) /\ (Open(t)' <=> Open(t)) /\ Kind(t)' = Kind(t)
  BY <1>1, <1>2 DEF Alone, Follows, Awaits, Open, Kind
<1> SUFFICES ASSUME Alone(t), Follows(t)
             PROVE  (/\ Clear /\ Fresh(t)
                     /\ Open(t) => parser = Command(t).p
                     /\ Fair /\ asserted = "none" => Story(Kind(t)) /\ Streams(t))'
  BY <1>3 DEF TaleOf
<1>4. Clear /\ Fresh(t) /\ (Open(t) => parser = Command(t).p) /\ (Fair /\ asserted = "none" => Story(Kind(t)) /\ Streams(t))
  BY DEF TaleOf, TaleInv, Tales
<1>5. Clear'
  BY <1>1, <1>4 DEF Clear
<1>6. Fresh(t)'
  BY <1>1, <1>2, <1>3, <1>4 DEF Fresh
<1>7. (Open(t) => parser = Command(t).p)'
  BY <1>1, <1>2, <1>3, <1>4
<1>8. Fair' /\ asserted' = "none" => Story(Kind(t))' /\ Streams(t)'
  <2> SUFFICES ASSUME Fair, asserted = "none" PROVE Story(Kind(t))' /\ Streams(t)'
    BY <1>1 DEF Fair
  <2>1. Story(Kind(t)) /\ Streams(t)
    BY <1>4
  <2>2. \A k : Story(k) => Story(k)'
    BY StoryModule
  <2>3. Story(Kind(t))'
    BY <1>3, <2>1, <2>2
  <2>4. rxBffr # <<>> => rxBffr' # <<>> /\ rxBffr'[1] = rxBffr[1]
    <3>1. CASE ~Emit
      <4>1. rxBffr' = rxBffr
        BY <3>1 DEF Serve, TakeData, Elapse, vars
      <4> QED BY <4>1
    <3>2. CASE Emit
      <4> DEFINE x == Sent(out.chunks[1], out.c)  y == rxBffr
      <4>1. rxBffr' = y \o x /\ y \in Seq(Pieces(1..out.c)) /\ x \in Seq(Pieces(1..out.c))
        BY <3>2, EmitIs, TextNumbers
      <4> HIDE DEF x, y
      <4>2. y # <<>> => y \o x # <<>> /\ (y \o x)[1] = y[1]
        BY <4>1
      <4> QED BY <4>1, <4>2 DEF y
    <3> QED BY <3>1, <3>2
  <2>5. Streams(t)'
    BY <1>1, <1>3, <2>1, <2>4 DEF Streams, Handler
  <2> QED BY <2>3, <2>5
<1> QED BY <1>5, <1>6, <1>7, <1>8

-----------------------------------------------------------------------------
LEMMA EarlyIs == ATCMD_okResponseParser \notin EarlyParsers
<1>1. ATCMD_okResponseParser.pre = ""
  BY DEF ATCMD_okResponseParser, Std
<1>2. /\ gnssLocCompleteParser.pre = "QGPSLOC" /\ S__adcValueParser.pre = "QADC"
      /\ S__ioValueParser.pre = "QCFG" /\ S__udptcpOpenCompleteParser.pre = "QIOPEN"
  BY DEF gnssLocCompleteParser, S__adcValueParser, S__ioValueParser, S__udptcpOpenCompleteParser, Std
<1> QED BY <1>1, <1>2 DEF EarlyParsers
(* The tale of the task that reads. *)
LEMMA TaleReads ==
    ASSUME LockInv, TextInv, TextInv', WhereInv, OwnInv, OrderInv, OrderInv', TaleInv, NEW t \in Tasks, Reads(t), Alone(t)
    PROVE  TaleOf(t)'
<1>1. /\ UNCHANGED <<cmds, out, good, inbox, call, step, http, mine, disturbed, parser>> /\ Awaits(t) /\ Open(t) /\ Working(t)
      /\ asserted = "none" /\ Current(t)' = Current(t) /\ Command(t)' = Command(t) /\ Takes
  BY ReadsLeave, ReadsTake DEF TextInv
<1>2. /\ Current(t) = cmds /\ cmds \in mine[t] /\ Clear /\ Fresh(t) /\ parser = Command(t).p
      /\ Fair => Story(Kind(t)) /\ Streams(t)
  BY <1>1, AloneTale DEF TextInv
<1>3. cmds \in 1..cmds /\ cmds \in Nat /\ cmds <= MaxCmds /\ MaxCmds \in Nat /\ cmds # 0 /\ DOMAIN got = Cmds /\ cmds \in Cmds
  <2>1. cmds \in 1..cmds /\ cmds \in Nat /\ cmds <= MaxCmds
    BY <1>2 DEF TextInv, Numbers, OwnInv, Gotten
  <2> QED BY <2>1, ServicesAssumption DEF Cmds, OwnInv, Gotten
<1>4. loose \subseteq loose' /\ (got[cmds] \in loose => got'[cmds] = got[cmds])
  <2>1. CASE Stopped
    BY <2>1 DEF Stopped
  <2>2. ASSUME NEW r, NEW c, Conclude(t, r, c) PROVE loose \subseteq loose' /\ (got[cmds] \in loose => got'[cmds] = got[cmds])
    BY <1>2, <1>3, <2>2 DEF Conclude
  <2> QED BY <2>1, <2>2, ReadsFind DEF Found
<1>5. Clear'
  <2>1. \A j \in 1..Len(rawResponse) : rawResponse[j].c \in loose' \cup {cmds}
    BY <1>2, <1>4 DEF Clear
  <2>2. \A j \in 1..Len(rxBffr) : rxBffr[j].c \in loose' \cup {cmds}
    <3> SUFFICES ASSUME NEW j \in 1..Len(rxBffr) PROVE rxBffr[j].c \in loose' \cup {cmds}
      OBVIOUS
    <3>1. rxBffr[j].c \in 1..cmds
      BY TextNumbers
    <3>2. Present(rxBffr[j].c)
      BY DEF Present
    <3>3. rxBffr[j].c \in loose \cup {cmds}
      <4> DEFINE d == rxBffr[j].c
      <4>1. d \in 1..cmds /\ Present(d) /\ Clean
        BY <3>1, <3>2 DEF TaleInv
      <4> HIDE DEF d
      <4>2. d \in loose \cup {cmds}
        BY <1>1, <4>1, AlonePresent
      <4> QED BY <4>2 DEF d
    <3> QED BY <1>4, <3>3
  <2>3. PICK x \in Seq(Pieces(1..out.c)) : \E n : EndOf(x, rxBffr, n) /\ Shifts(x)
    BY <1>1 DEF Takes
  <2>4. PICK n : EndOf(x, rxBffr, n) /\ Shifts(x)
    BY <2>3
  <2>5. rawResponse \in Seq(Pieces(1..out.c)) /\ Len(rxBffr) \in Nat
    BY TextNumbers
  <2>6. \A j \in 1..Len(x) : n + j \in 1..Len(rxBffr) /\ x[j] = rxBffr[n + j]
    BY <2>4, <2>5, EndPlaces
  <2>7. \A j \in 1..Len(x) : x[j].c \in loose' \cup {cmds}
    BY <2>2, <2>6
  <2>8. CASE rawResponse' = rawResponse
    BY <1>1, <2>1, <2>8 DEF Clear
  <2>9. CASE rawResponse' = rawResponse \o x
    <3> DEFINE L == loose' \cup {cmds}
               y == rawResponse
    <3>1. (\A j \in 1..Len(y) : y[j].c \in L) /\ (\A j \in 1..Len(x) : x[j].c \in L)
      BY <2>1, <2>7
    <3>2. y \in Seq(Pieces(1..out.c)) /\ x \in Seq(Pieces(1..out.c))
      BY <2>5
    <3> HIDE DEF L, y
    <3>3. \A j \in 1..Len(y \o x) : (y \o x)[j].c \in L
      BY ONLY <3>1, <3>2, CatAll
    <3> QED BY <1>1, <2>9, <3>3 DEF Clear, L, y
  <2> QED BY <2>4, <2>8, <2>9 DEF Shifts
<1>6. Fresh(t)'
  <2>1. /\ Answers(t) => cmds \notin loose /\ got[cmds] # cmds
        /\ got[cmds] = cmds => cmds \notin loose
    BY <1>1, <1>2 DEF Fresh
  <2>2. CASE loose' = loose /\ got' = got
    <3>1. Answers(t)' => Answers(t)
      BY <1>1 DEF Answers
    <3> QED BY <1>1, <2>1, <2>2, <3>1 DEF Fresh
  <2>3. ASSUME NEW r, NEW c, Found(t, r, c), r # "unknown" PROVE Fresh(t)'
    <3>1. Conclude(t, r, c) /\ pc'[t] = "yield" /\ rslt'[t] = r
      BY <2>3, ConcludeGoes DEF Found
    <3>2. ~Open(t)' /\ pc'[t] # "next" /\ ~Answers(t)'
      BY <2>3, <3>1 DEF Open, Answers
    <3> SUFFICES ASSUME Command(t).k = "QFWRITE", got'[cmds] = cmds PROVE cmds \notin loose'
      BY <1>1, <3>2 DEF Fresh
    <3>3. Answers(t) /\ cmds \notin loose /\ got[cmds] # cmds
      BY <1>1, <2>1 DEF Answers
    <3>4. got' = [got EXCEPT ![cmds] = CASE @ \in loose -> @
                                         [] @ \notin loose /\ c # NoCmd -> c
                                         [] @ \notin loose /\ c = NoCmd /\ Current(t) \notin answered -> Missed
                                         [] OTHER -> @]
      BY <1>2, <1>3, <2>3, <3>1 DEF Conclude, NoCmd
    <3>5. Missed # cmds
      BY <1>3 DEF Missed
    <3>6. c = cmds /\ got[cmds] \notin loose
      BY <1>3, <3>3, <3>4, <3>5
    <3>7. Command(t).p \notin EarlyParsers
      <4>1. Command(t).p.pre # "QIACT" => Matches(Command(t), "QFWRITE")
        BY <1>1, CommandFit
      <4>2. Command(t) # ActivateCommand
        BY ActivateIs
      <4>3. Matches(Command(t), "QFWRITE")
        BY <1>1, <4>2, CommandFit
      <4>4. Command(t).p = ATCMD_okResponseParser
        BY <4>3 DEF Matches, ParserOf, GetKinds
      <4> QED BY <4>4, EarlyIs
    <3>8. r \in {"success", "cmError"}
      <4>1. ~Nothing(r, c)
        BY <1>3, <3>6 DEF Nothing, NoCmd
      <4>2. CASE Parsed(r, c)
        <5>1. Judges(parser)
          BY <1>1, <1>2, <4>2, CommandFit DEF Parsed
        <5> QED BY <1>1, <1>3, <3>6, <4>2, <5>1, FoundIs
      <4>3. CASE Skipped(t, r, c)
        BY <4>3 DEF Skipped
      <4> QED BY <2>3, <4>1, <4>2, <4>3 DEF Found
    <3>9. EndedByItself(t, r, c)
      BY <1>2, <3>6, <3>7, <3>8 DEF EndedByItself, Alone
    <3> QED BY <3>1, <3>3, <3>9 DEF Conclude
  <2>4. ASSUME NEW r, NEW c, Found(t, r, c), r = "unknown" PROVE loose' = loose /\ got' = got
    BY <2>4 DEF Found, Conclude
  <2> QED BY <2>2, <2>3, <2>4, ReadsFind DEF Stopped
<1>7. (Open(t) => parser = Command(t).p)'
  BY <1>1, <1>2
<1>8. Fair' /\ asserted' = "none" => Story(Kind(t))' /\ Streams(t)'
  <2> SUFFICES ASSUME Fair', asserted' = "none" PROVE Story(Kind(t))' /\ Streams(t)'
    OBVIOUS
  <2>1. Fair
    BY <1>1, <1>4 DEF Fair
  <2>2. Story(Kind(t))'
    BY <1>2, <2>1, StoryReads
  <2>3. pc'[t] = "yield"
    <3>1. ~Stopped
      BY DEF Stopped
    <3> QED BY <3>1, ReadsFind, ConcludeGoes DEF Found
  <2>4. Streams(t)'
    BY <2>3 DEF Streams
  <2> QED BY <2>2, <2>4
<1> QED BY <1>5, <1>6, <1>7, <1>8 DEF TaleOf

-----------------------------------------------------------------------------
(* Of a command that is just being sent nothing has come. *)
LEMMA SentStory ==
    ASSUME LockInv, TextInv, WhereInv, NEW t \in Tasks, Sending(t)
    PROVE  Story(Command(t).k)'
<1> DEFINE k == Command(t).k
<1>1. /\ cmds' = cmds + 1 /\ inbox' = Append(inbox, [k |-> k, c |-> cmds + 1]) /\ UNCHANGED <<rxBffr, out, call, http, step>>
      /\ rawResponse' = <<>> /\ k # "again"
      /\ dataMode' = IF Command(t).h = "none" THEN dataMode ELSE [h |-> Command(t).h, skip |-> Command(t).skip, c |-> cmds + 1]
  BY SendingIs, SentKind DEF SendCommand, Reset
<1>2. Command(t)' = Command(t)
  BY <1>1, SameScripts DEF Command
<1>3. cmds \in Nat /\ out.c \in Nat /\ out.c <= cmds /\ cmds + 1 # 0 /\ \A j \in 1..Len(rxBffr) : rxBffr[j].c # cmds + 1
  BY TextNumbers
<1>4. k \in Fed => Command(t).h = HandlerOf(k) /\ Command(t).skip = Skips(k) /\ HandlerOf(k) # "none"
  <2>1. Working(t)
    BY SendingIs DEF Working
  <2>2. Command(t) = ActivateCommand \/ Matches(Command(t), k)
    BY <2>1, CommandFit
  <2>3. CASE Command(t) = ActivateCommand
    BY <2>3, ActivateIs DEF Fed
  <2>4. CASE Matches(Command(t), k)
    BY <2>4 DEF Matches, HandlerOf
  <2> QED BY <2>2, <2>3, <2>4
<1>5. k \in Fed => dataMode' = [h |-> HandlerOf(k), skip |-> Skips(k), c |-> cmds'] /\ dataMode' # NoData
  <2> SUFFICES ASSUME k \in Fed PROVE dataMode' = [h |-> HandlerOf(k), skip |-> Skips(k), c |-> cmds'] /\ dataMode' # NoData
    OBVIOUS
  <2>1. dataMode' = [h |-> HandlerOf(k), skip |-> Skips(k), c |-> cmds']
    BY <1>1, <1>4
  <2>2. dataMode'.c # 0
    BY <1>1, <1>3, <2>1
  <2> QED BY <2>1, <2>2 DEF NoData, NoCmd
<1>6. \A i \in 1..Len(inbox') : inbox'[i].c = cmds' => inbox'[i].k = k /\ i = Len(inbox')
  <2>1. inbox \in Seq(Messages(cmds)) /\ Len(inbox) \in Nat
    BY DEF TextInv, Queued
  <2>2. \A q \in Messages(cmds) : q.c # cmds + 1
    BY <1>3 DEF Messages
  <2>3. \A i \in 1..Len(inbox) : inbox[i] \in Messages(cmds)
    BY <2>1
  <2>4. \A i \in 1..Len(inbox) : inbox[i].c # cmds + 1
    BY <2>2, <2>3
  <2> DEFINE x == inbox  m == [k |-> k, c |-> cmds + 1]
  <2>5. inbox' = Append(x, m) /\ x \in Seq(Messages(cmds)) /\ m.k = k
    BY <1>1, <2>1
  <2>6. \A i \in 1..Len(x) : x[i].c # cmds + 1
    BY <2>4
  <2> HIDE DEF x, m
  <2>7. Len(inbox') = Len(x) + 1 /\ Len(x) \in Nat /\ \A i \in 1..Len(inbox') : (i \in 1..Len(x) /\ inbox'[i] = x[i]) \/ (i = Len(x) + 1 /\ inbox'[i] = m)
    BY <2>5
  <2> QED BY <1>1, <2>5, <2>6, <2>7
<1>7. Asks(k)'
  <2> HIDE DEF k
  <2>1. \A i \in 1..Len(inbox') : inbox'[i].k # "data" /\ inbox'[i].c = cmds' => inbox'[i].k = k' /\ i = Len(inbox')
    BY <1>2, <1>6 DEF k
  <2>2. k' \in Fed => dataMode' \in {Handler(k)', NoData'}
    BY <1>2, <1>5 DEF k, Handler
  <2> QED BY <2>1, <2>2 DEF Asks
<1>8. Gets(k)'
  BY <1>1, <1>3 DEF Gets
<1>9. k = "QHTTPREAD" => Page'
  <2>1. ~Carries(rawResponse, {"OK"})' /\ (\A K : ~Carries(rxBffr, K)') /\ out'.c # cmds'
    BY <1>1, <1>3 DEF Carries
  <2>2. k = "QHTTPREAD" => dataMode' # NoData
    BY <1>5 DEF Fed
  <2> QED BY <2>1, <2>2 DEF Page, NoData, NoCmd
<1> QED BY <1>2, <1>7, <1>8, <1>9 DEF Story

LEMMA TaleSends ==
    ASSUME LockInv, TextInv, WhereInv, OwnInv, NEW t \in Tasks, Sending(t)
    PROVE  TaleOf(t)'
<1>1. /\ cmds' = cmds + 1 /\ UNCHANGED <<rxBffr, out, call, http, step, loose, got>> /\ rawResponse' = <<>>
      /\ parser' = Command(t).p /\ pc'[t] = "read" /\ cmds < MaxCmds /\ Command(t).k # "again"
  BY SendingIs, SentKind, GoesTo DEF SendCommand, Reset, StartToRead
<1>2. Command(t)' = Command(t)
  BY <1>1, SameScripts DEF Command
<1>3. cmds \in Nat /\ MaxCmds \in Nat /\ loose \subseteq 0..cmds
  BY TextNumbers, ServicesAssumption DEF TextInv, Numbers
<1>4. Clear'
  <2>1. \A i \in 1..Len(rawResponse') : FALSE
    BY <1>1
  <2> QED BY <2>1 DEF Clear
<1>5. Fresh(t)'
  <2>1. cmds + 1 \notin loose /\ cmds + 1 \in Cmds /\ cmds + 1 > cmds /\ cmds + 1 # 0
    BY <1>1, <1>3 DEF Cmds
  <2>2. got[cmds + 1] = 0
    BY <2>1 DEF OwnInv, Gotten, NoCmd
  <2>3. cmds' \notin loose' /\ got'[cmds'] # cmds'
    BY <1>1, <2>1, <2>2
  <2> QED BY <2>3 DEF Fresh
<1>6. Story(Kind(t))' /\ Streams(t)'
  <2>1. Story(Kind(t))'
    BY <1>1, <1>2, SentStory DEF Kind
  <2>2. Streams(t)'
    BY <1>1 DEF Streams
  <2> QED BY <2>1, <2>2
<1> QED BY <1>1, <1>2, <1>4, <1>5, <1>6 DEF TaleOf

-----------------------------------------------------------------------------
(* The response is cleared when a call waits again. *)
LEMMA StoryCleared ==
    ASSUME UNCHANGED <<rxBffr, dataMode, inbox, out, good, cmds>>, rawResponse' \in {rawResponse, <<>>}, NEW k, Story(k)
    PROVE  Story(k)'
<1>1. \A K : (Seen(K)' => Seen(K)) /\ (Carries(rawResponse, K)' => Carries(rawResponse, K)) /\ (Carries(rxBffr, K)' <=> Carries(rxBffr, K))
  <2>1. CASE rawResponse' = rawResponse
    BY <2>1 DEF Seen, Carries
  <2>2. CASE rawResponse' = <<>>
    <3>1. \A K : ~Carries(rawResponse, K)'
      BY <2>2 DEF Carries
    <3> QED BY <3>1 DEF Seen, Carries
  <2> QED BY <2>1, <2>2
<1>2. Asks(k)'
  BY DEF Story, Asks, Handler
<1>3. Gets(k)'
  <2>1. \A j \in 1..Len(rawResponse') : j \in 1..Len(rawResponse) /\ rawResponse' = rawResponse
    <3>1. CASE rawResponse' = <<>>
      BY <3>1
    <3> QED BY <3>1
  <2> QED BY <1>1, <2>1 DEF Story, Gets
<1>4. Page => Page'
  BY <1>1 DEF Page
<1> QED BY <1>2, <1>3, <1>4 DEF Story

LEMMA TaleAgain ==
    ASSUME LockInv, TaleInv, NEW t \in Tasks, AwaitAgain(t)
    PROVE  TaleOf(t)'
<1>1. /\ UNCHANGED <<rxBffr, dataMode, inbox, out, good, cmds, loose, got, call, http, step, mine, asserted>> /\ rawResponse' \in {rawResponse, <<>>}
      /\ pc[t] = "next" /\ pc'[t] = "read" /\ Command(t).k = "again" /\ parser' = Command(t).p /\ asserted = "none"
      /\ disturbed[t] => disturbed'[t]
  <2>1. StartToRead(t) /\ OthersYield(t) /\ pc[t] = "next" /\ asserted = "none"
    BY RunsAlone DEF AwaitAgain
  <2>2. pc'[t] = "read" /\ (disturbed[t] => disturbed'[t])
    BY <2>1, ReadStarts DEF LockInv, Types
  <2> QED BY <2>1, <2>2 DEF AwaitAgain, Reset, modVars
<1>2. Command(t)' = Command(t)
  BY <1>1, SameScripts DEF Command
<1> SUFFICES ASSUME Alone(t)'
             PROVE  (/\ Clear /\ Fresh(t)
                     /\ Open(t) => parser = Command(t).p
                     /\ Fair /\ asserted = "none" => Story(Kind(t)) /\ Streams(t))'
  BY DEF TaleOf
<1>3. Clear /\ Fresh(t) /\ (Fair /\ asserted = "none" => Story(Kind(t)))
  <2>1. Alone(t) /\ Follows(t)
    BY <1>1 DEF Alone, Follows
  <2> QED BY <2>1 DEF TaleInv, Tales, TaleOf
<1>4. Clear'
  <2>1. CASE rawResponse' = <<>>
    <3>1. \A i \in 1..Len(rawResponse') : FALSE
      BY <2>1
    <3> QED BY <3>1 DEF Clear
  <2> QED BY <1>1, <1>3, <2>1 DEF Clear
<1>5. Fresh(t)'
  <2>1. ~Answers(t)'
    BY <1>1, <1>2 DEF Answers
  <2> QED BY <1>1, <1>3, <2>1 DEF Fresh
<1>6. Fair' /\ asserted' = "none" => Story(Kind(t))' /\ Streams(t)'
  <2> SUFFICES ASSUME Fair' PROVE Story(Kind(t))' /\ Streams(t)'
    OBVIOUS
  <2>1. Story(Kind(t)) /\ Kind(t)' = Kind(t)
    BY <1>1, <1>2, <1>3 DEF Fair, Kind
  <2>2. \A k : Story(k) => Story(k)'
    BY <1>1, StoryCleared
  <2>3. Story(Kind(t))'
    BY <2>1, <2>2
  <2>4. Streams(t)'
    BY <1>1 DEF Streams
  <2> QED BY <2>3, <2>4
<1> QED BY <1>1, <1>2, <1>4, <1>5, <1>6

-----------------------------------------------------------------------------
LEMMA RestFirst ==
    ASSUME NEW T, NEW text \in Seq(T), NEW i \in 1..Len(text)
    PROVE  Len(Rest(text, i)) >= 1 /\ Rest(text, i) # <<>> /\ Rest(text, i)[1] = text[i] /\ 1 \in 1..Len(Rest(text, i))
<1> DEFINE x == Rest(text, i)
<1>1. i \in Nat \ {0} /\ Len(text) \in Nat /\ i <= Len(text) + 1
  OBVIOUS
<1>2. x \in Seq(T) /\ EndOf(x, text, IF i <= Len(text) + 1 THEN i - 1 ELSE Len(text))
  BY <1>1, RestIs
<1>3. EndOf(x, text, i - 1)
  BY <1>1, <1>2
<1> HIDE DEF x
<1>4. Len(x) = Len(text) - (i - 1) /\ Len(x) >= 1 /\ 1 \in 1..Len(x)
  BY <1>1, <1>3 DEF EndOf
<1>5. x[1] = text[i - 1 + 1] /\ i - 1 + 1 = i
  BY <1>1, <1>3, <1>4 DEF EndOf
<1>6. x # <<>>
  BY <1>4
<1> QED BY <1>4, <1>5, <1>6 DEF x

(* A handler starts with the trigger of the command, if what it starts     *)
(* with is not left behind by another.                                     *)
LEMMA TaleEnters ==
    ASSUME LockInv, TextInv, OwnInv, TaleInv, NEW t \in Tasks, EnterDataMode(t)
    PROVE  TaleOf(t)'
<1> DEFINE i == Min(Places(rxBffr, <<"CONNECT">>))
           k == Kind(t)
<1>1. /\ pc[t] = "read" /\ asserted = "none" /\ pc'[t] \in {"data", "stream"} /\ (pc'[t] = "data" <=> dataMode.h = "stdTx")
      /\ dataMode.h # "none" /\ i \in 1..Len(rxBffr) /\ rxBffr[i].k = "CONNECT" /\ rxBffr' = Rest(rxBffr, i)
      /\ inbox' = (IF dataMode.h = "stdTx" THEN Append(inbox, [k |-> "data", c |-> dataMode.c]) ELSE inbox)
      /\ got' = (IF Current(t) \in {NoCmd, rxBffr[i].c} THEN got ELSE [got EXCEPT ![Current(t)] = rxBffr[i].c])
      /\ UNCHANGED <<cmds, out, good, call, step, http, mine, disturbed, parser, rawResponse, dataMode, rslt, loose, asserted>>
      /\ Awaits(t) /\ Open(t) /\ Open(t)' /\ Current(t)' = Current(t) /\ Command(t)' = Command(t)
  BY EnterIs
<1> HIDE DEF i
<1> SUFFICES ASSUME Alone(t)
             PROVE  (/\ Clear /\ Fresh(t)
                     /\ Open(t) => parser = Command(t).p
                     /\ Fair /\ asserted = "none" => Story(Kind(t)) /\ Streams(t))'
  BY <1>1 DEF TaleOf, Alone
<1>2. /\ Current(t) = cmds /\ cmds \in mine[t] /\ Clear /\ Fresh(t) /\ parser = Command(t).p
      /\ Fair => Story(k)
  BY <1>1, AloneTale DEF TextInv
<1>3. cmds \in Nat /\ cmds # 0 /\ rxBffr[i].c \in 1..cmds /\ rxBffr[i].c <= out.c /\ out.c \in Nat /\ out.c <= cmds /\ cmds \in Cmds /\ DOMAIN got = Cmds
  <2>1. cmds \in 1..cmds /\ cmds \in Nat /\ cmds <= MaxCmds /\ DOMAIN got = Cmds
    BY <1>2 DEF TextInv, Numbers, OwnInv, Gotten
  <2>2. cmds \in Cmds /\ cmds # 0
    BY <2>1, ServicesAssumption DEF Cmds
  <2> QED BY <1>1, <2>1, <2>2, TextNumbers
<1>4. Clear'
  BY <1>1, <1>2 DEF Clear
<1>5. (rxBffr[i].c = cmds /\ got' = got) \/ (rxBffr[i].c # cmds /\ got'[cmds] = rxBffr[i].c)
  BY <1>1, <1>2, <1>3 DEF NoCmd
<1>6. Fresh(t)'
  <2>1. Answers(t)' => Answers(t)
    BY <1>1 DEF Answers
  <2> QED BY <1>1, <1>2, <1>5, <2>1 DEF Fresh
<1>7. Fair' => Story(k)' /\ Streams(t)'
  <2> SUFFICES ASSUME Fair' PROVE Story(k)' /\ Streams(t)'
    OBVIOUS
  <2>1. rxBffr[i].c = cmds /\ got' = got
    <3> DEFINE d == rxBffr[i].c
    <3>1. d \in 1..cmds /\ Present(d) /\ Clean
      BY <1>1, <1>3 DEF Present, TaleInv
    <3> HIDE DEF d
    <3>2. d \in loose \cup {cmds}
      BY <1>1, <3>1, AlonePresent
    <3>3. got'[cmds] \notin loose
      BY <1>1 DEF Fair
    <3>4. (d = cmds /\ got' = got) \/ (d # cmds /\ got'[cmds] = d)
      BY <1>5 DEF d
    <3>5. d = cmds
      BY <1>1, <3>2, <3>3, <3>4, <1>2 DEF d
    <3>6. got' = got
      BY <3>4, <3>5
    <3> QED BY <3>5, <3>6 DEF d
  <2>2. Fair /\ Story(k) /\ out.c = cmds
    BY <1>1, <1>2, <1>3, <2>1 DEF Fair
  <2>3. k \in Fed /\ dataMode = Handler(k)
    <3>1. Seen({"CONNECT"})
      BY <1>1, <2>1, SeenAt
    <3>2. k \in Fed
      BY <2>2, <3>1 DEF Story, Gets
    <3> QED BY <1>1, <2>2, <3>2 DEF Story, Asks, NoData
  <2>4. Kind(t)' = k
    BY <1>1 DEF Kind
  <2>5. rxBffr' # <<>> /\ rxBffr'[1] = rxBffr[i] /\ 1 \in 1..Len(rxBffr')
    BY <1>1, TextNumbers, RestFirst
  <2>6. Streams(t)'
    <3>1. Handler(k)' = Handler(k)
      BY <1>1, <2>4 DEF Handler
    <3> HIDE DEF k
    <3> QED BY <1>1, <2>1, <2>3, <2>4, <2>5, <3>1 DEF Streams, k
  <2>7. Takes
    BY ReadsTake DEF TextInv
  <2>8. \A x : Asks(x) /\ Gets(x) => Asks(x)' /\ Gets(x)'
    <3>1. dataMode.c = cmds
      BY <2>3 DEF Handler
    <3>2. inbox' = inbox \/ (out.c = cmds /\ inbox' = Append(inbox, [k |-> "data", c |-> cmds]))
      BY <1>1, <2>2, <3>1
    <3> QED BY <1>1, <2>7, <3>2, StoryTaken
  <2>9. k = "QHTTPREAD" => Page'
    <3> SUFFICES ASSUME k = "QHTTPREAD" PROVE Page'
      OBVIOUS
    <3>1. ~Carries(rawResponse, {"OK"})'
      BY <1>1, <2>2 DEF Story, Page, Carries
    <3>2. dataMode' # NoData
      BY <1>1 DEF NoData
    <3>3. Carries(rxBffr, {"CONNECT"})'
      BY <1>1, <2>1, <2>5 DEF Carries
    <3> QED BY <3>1, <3>2, <3>3 DEF Page, NoData, NoCmd
  <2>10. Story(k)'
    <3>1. \A x : Story(x) /\ (x = "QHTTPREAD" => Page') => Story(x)'
      BY <2>8 DEF Story
    <3>2. Story(Kind(t)) /\ (Kind(t) = "QHTTPREAD" => Page')
      BY <2>2, <2>9
    <3> QED BY <2>4, <3>1, <3>2
  <2> QED BY <2>6, <2>10
<1> QED BY <1>1, <1>2, <1>4, <1>6, <1>7

-----------------------------------------------------------------------------
(* Steps that read and send nothing. *)
LEMMA ScriptAt ==
    ASSUME LockInv, NEW t \in Tasks
    PROVE  /\ Honest(call[t], Script(t)) /\ Len(Script(t).cmds) \in Nat /\ step[t] \in Nat \ {0}
           /\ pc[t] \in {"next", "lock"} => step[t] \in 1..Len(Script(t).cmds)
           /\ Script(t).refused = "wait" /\ pc[t] \in {"next", "lock"} => step[t] = 1
<1>1. Honest(call[t], Script(t))
  BY ScriptIs, ScriptHonest DEF LockInv, Types
<1>2. Len(Script(t).cmds) \in Nat
  BY ScriptOfTask DEF Fit, LockInv
<1>3. step[t] \in Nat \ {0} /\ (pc[t] \in {"next", "lock"} => step[t] <= Len(Script(t).cmds))
  BY DEF LockInv, Types, StepsOf
<1>4. pc[t] \in {"next", "lock"} => step[t] \in 1..Len(Script(t).cmds)
  BY <1>2, <1>3
<1>5. Script(t).refused = "wait" => Len(Script(t).cmds) = 1
  BY <1>1 DEF Honest
<1>6. ASSUME Script(t).refused = "wait", pc[t] \in {"next", "lock"} PROVE step[t] = 1
  <2>1. step[t] <= 1 /\ step[t] >= 1 /\ step[t] \in Nat
    <3>1. Len(Script(t).cmds) = 1
      BY <1>5, <1>6
    <3>2. step[t] <= Len(Script(t).cmds) /\ step[t] \in Nat \ {0}
      BY <1>3, <1>6
    <3> QED BY ONLY <3>1, <3>2
  <2> QED BY <2>1
<1> QED BY <1>1, <1>2, <1>3, <1>4, <1>6

LEMMA AdvanceAgain ==
    ASSUME LockInv, NEW t \in Tasks, Advance(t), UNCHANGED <<call, http>>, Follows(t)'
    PROVE  pc'[t] = "next" /\ step[t] = 1 /\ Command(t).k = "QFWRITE" /\ Command(t)'.k = "again"
<1>1. /\ pc'[t] \in {"next", "end"} /\ step'[t] = step[t] + 1 /\ step[t] \in Nat \ {0}
      /\ pc'[t] = "next" <=> step[t] < Len(Script(t).cmds)
      /\ Script(t)' = Script(t) /\ Len(Script(t).cmds) \in Nat
  BY AdvanceIs
<1>2. pc'[t] = "next" /\ Command(t)'.k = "again"
  BY <1>1 DEF Follows, Awaits
<1>3. step[t] + 1 \in 1..Len(Script(t).cmds) /\ step[t] \in 1..Len(Script(t).cmds)
  BY <1>1, <1>2
<1>4. Script(t).cmds[step[t] + 1].k = "again"
  BY <1>1, <1>2 DEF Command
<1>5. call[t] = "file_write" /\ step[t] + 1 = 2
  BY <1>3, <1>4, ScriptAt DEF Honest
<1>6. step[t] = 1
  BY <1>1, <1>5
<1>7. Command(t).k = "QFWRITE"
  BY <1>3, <1>5, <1>6, ScriptAt DEF Honest, Command
<1> QED BY <1>2, <1>6, <1>7

LEMMA RefusedIs ==
    ASSUME LockInv, NEW t \in Tasks, Refused(t)
    PROVE  /\ pc[t] \in {"next", "lock"} /\ asserted = "none" /\ OthersYield(t) /\ UNCHANGED <<call, http, mine>>
           /\ \/ Script(t).refused = "wait" /\ parser' = Command(t).p /\ StartToRead(t) /\ pc'[t] = "read" /\ step[t] = 1 /\ UNCHANGED <<step, rslt, last>>
              \/ rslt' = [rslt EXCEPT ![t] = "success"] /\ Advance(t) /\ UNCHANGED <<parser, disturbed, last>>
              \/ pc'[t] = "return" /\ last' = Script(t).refused /\ UNCHANGED <<parser, disturbed, step, rslt>>
<1>1. pc[t] \in {"next", "lock"} /\ asserted = "none" /\ OthersYield(t) /\ UNCHANGED <<call, http, mine>>
  BY RunsAlone DEF Refused
<1>2. CASE Script(t).refused = "wait"
  <2>1. parser' = Command(t).p /\ StartToRead(t) /\ UNCHANGED <<step, rslt, last>>
    BY <1>2 DEF Refused
  <2>2. pc'[t] = "read"
    BY <2>1, GoesTo DEF StartToRead
  <2> QED BY <1>1, <1>2, <2>1, <2>2, ScriptAt
<1>3. CASE Script(t).refused # "wait" /\ (Script(t).refused = "skip" \/ step[t] > 1)
  <2>1. rslt' = [rslt EXCEPT ![t] = "success"] /\ Advance(t) /\ UNCHANGED <<parser, disturbed, last>>
    BY <1>3 DEF Refused
  <2> QED BY <1>1, <2>1
<1>4. CASE ~(Script(t).refused = "wait") /\ ~(Script(t).refused # "wait" /\ (Script(t).refused = "skip" \/ step[t] > 1))
  <2>1. Finish(t, Script(t).refused) /\ UNCHANGED <<parser, disturbed, step, rslt>>
    BY <1>4 DEF Refused
  <2>2. pc'[t] = "return" /\ last' = Script(t).refused
    BY <2>1, GoesTo DEF Finish
  <2> QED BY <1>1, <2>1, <2>2
<1> QED BY <1>2, <1>3, <1>4

-----------------------------------------------------------------------------
(* What is not followed, or begins, has no tale. *)
LEMMA NoTale ==
    ASSUME NEW t \in Tasks, OwnInv, Beginning(t), mine'[t] = mine[t]
    PROVE  TaleOf(t)'
<1>1. mine'[t] = {}
  BY DEF OwnInv
<1> QED BY <1>1 DEF TaleOf, Alone

LEMMA TaleAwaited ==
    ASSUME LockInv, Numbers, OwnInv, TaleInv, NEW t \in Tasks, AwaitReturns(t)
    PROVE  TaleOf(t)'
<1>1. /\ UNCHANGED <<rawResponse, rxBffr, dataMode, inbox, out, good, cmds, loose, got, call, http, mine, disturbed, asserted>>
      /\ pc[t] = "yield" /\ asserted = "none" /\ rslt[t] # "unknown" /\ (Advance(t) \/ pc'[t] = "end")
  <2>1. pc[t] = "yield" /\ asserted = "none" /\ rslt[t] # "unknown" /\ (Advance(t) \/ Goto(t, "end"))
    BY RunsAlone DEF AwaitReturns
  <2>2. Advance(t) \/ pc'[t] = "end"
    BY <2>1, GoesTo
  <2> QED BY <2>1, <2>2 DEF AwaitReturns, modVars
<1> SUFFICES ASSUME Alone(t)', Follows(t)'
             PROVE  (/\ Clear /\ Fresh(t)
                     /\ Open(t) => parser = Command(t).p
                     /\ Fair /\ asserted = "none" => Story(Kind(t)) /\ Streams(t))'
  BY DEF TaleOf
<1>2. Alone(t) /\ Awaits(t)
  BY <1>1 DEF Alone, Awaits
<1>3. Clear /\ Fresh(t) /\ (Fair => Story(Kind(t)))
  BY <1>1, <1>2, AloneTale
<1>4. pc'[t] = "next" /\ Command(t).k = "QFWRITE" /\ Command(t)'.k = "again"
  <2>1. Advance(t)
    BY <1>1 DEF Follows, Awaits
  <2> QED BY <1>1, <2>1, AdvanceAgain
<1>5. ~Open(t)' /\ ~Answers(t)' /\ Kind(t)' = "QFWRITE" /\ Kind(t) = "QFWRITE"
  BY <1>4 DEF Open, Answers, Kind
<1>6. Clear'
  BY <1>1, <1>3 DEF Clear
<1>7. Fresh(t)'
  BY <1>1, <1>3, <1>4, <1>5 DEF Fresh
<1>8. Fair' => Story(Kind(t))' /\ Streams(t)'
  <2> SUFFICES ASSUME Fair' PROVE Story(Kind(t))' /\ Streams(t)'
    OBVIOUS
  <2>1. Story(Kind(t)) /\ Kind(t)' = Kind(t)
    BY <1>1, <1>3, <1>5 DEF Fair
  <2>2. \A k : Story(k) => Story(k)'
    BY <1>1, StorySame
  <2>3. Story(Kind(t))'
    BY <2>1, <2>2
  <2>4. Streams(t)'
    BY <1>4 DEF Streams
  <2> QED BY <2>3, <2>4
<1> QED BY <1>5, <1>6, <1>7, <1>8

LEMMA TaleIdles ==
    ASSUME LockInv, Numbers, OwnInv, TaleInv, NEW t \in Tasks, Idles(t)
    PROVE  TaleOf(t)'
<1>1. CASE \E n \in CallsOf[t] : Call(t, n)
  <2>1. Beginning(t) /\ mine' = mine
    BY <1>1, RunsAlone DEF Call, Beginning
  <2> QED BY <2>1, NoTale
<1>2. CASE SkipKnown(t)
  <2>1. pc[t] \in {"next", "lock"} /\ UNCHANGED <<call, http, mine>> /\ Advance(t)
    BY <1>2, RunsAlone DEF SkipKnown
  <2>2. CASE ~Follows(t)'
    BY <2>2 DEF TaleOf
  <2>3. CASE Follows(t)'
    <3>1. step[t] = 1
      BY <2>1, <2>3, AdvanceAgain
    <3>2. Beginning(t)
      BY <2>1, <3>1 DEF Beginning
    <3> QED BY <2>1, <3>2, NoTale
  <2> QED BY <2>2, <2>3
<1>3. CASE WaitForLock(t) \/ EndCall(t)
  <2>1. pc'[t] \in {"lock", "return"}
    BY <1>3, GoesTo DEF WaitForLock, EndCall, Finish
  <2>2. ~Follows(t)'
    BY <2>1 DEF Follows, Awaits
  <2> QED BY <2>2 DEF TaleOf
<1>4. CASE ReuseLockAssert(t) \/ StreamAssert(t)
  <2>1. UNCHANGED <<pc, call, step, http>> /\ (pc[t] = "end" \/ (pc[t] = "next" /\ Command(t).k # "again"))
    BY <1>4, RunsAlone DEF ReuseLockAssert, StreamAssert, callVars
  <2>2. Command(t)' = Command(t)
    BY <2>1, SameScripts DEF Command
  <2>3. ~Follows(t)'
    BY <2>1, <2>2 DEF Follows, Awaits
  <2> QED BY <2>3 DEF TaleOf
<1>5. CASE Refused(t)
  <2>1. /\ pc[t] \in {"next", "lock"} /\ UNCHANGED <<call, http, mine>>
        /\ step[t] = 1 \/ Advance(t) \/ pc'[t] = "return"
    BY <1>5, RefusedIs
  <2>2. CASE ~Follows(t)'
    BY <2>2 DEF TaleOf
  <2>3. CASE Follows(t)'
    <3>1. pc'[t] # "return"
      BY <2>3 DEF Follows, Awaits
    <3>2. step[t] = 1
      BY <2>1, <2>3, <3>1, AdvanceAgain
    <3>3. Beginning(t)
      BY <2>1, <3>2 DEF Beginning
    <3> QED BY <2>1, <3>3, NoTale
  <2> QED BY <2>2, <2>3
<1>6. CASE ReadAgain(t)
  <2>1. /\ pc[t] = "yield" /\ pc'[t] = "read" /\ UNCHANGED <<mine, disturbed, asserted, parser>> /\ Open(t) /\ Command(t)' = Command(t)
    BY <1>6, ReadAgainIs
  <2>2. UNCHANGED <<rawResponse, rxBffr, dataMode, inbox, out, good, cmds, loose, got>>
    BY <1>6, IdlesStill DEF Still, Idles
  <2>3. (Alone(t)' <=> Alone(t)) /\ Follows(t)
    BY <2>1 DEF Alone, Follows, Awaits
  <2>4. TaleOf(t)
    BY DEF TaleInv, Tales
  <2> QED BY <2>1, <2>2, <2>3, <2>4, TaleSame
<1>7. CASE AwaitReturns(t)
  BY <1>7, TaleAwaited
<1> QED BY <1>1, <1>2, <1>3, <1>4, <1>5, <1>6, <1>7 DEF Idles

LEMMA TaleCaller ==
    ASSUME LockInv, TextInv, TextInv', WhereInv, OwnInv, OrderInv, OrderInv', TaleInv, NEW t \in Tasks, Caller(t)
    PROVE  TaleOf(t)'
<1>1. CASE Idles(t)
  BY <1>1, TaleIdles DEF TextInv
<1>2. CASE Sending(t)
  BY <1>2, TaleSends
<1>3. CASE AwaitAgain(t)
  BY <1>3, TaleAgain
<1>4. CASE Reads(t)
  <2>1. CASE Alone(t)
    BY <1>4, <2>1, TaleReads
  <2>2. CASE ~Alone(t)
    <3>1. ~Alone(t)'
      BY <1>4, <2>2, ReadsLeave DEF Alone
    <3> QED BY <3>1 DEF TaleOf
  <2> QED BY <2>1, <2>2
<1>5. CASE EnterDataMode(t)
  BY <1>5, TaleEnters
<1>6. CASE Return(t)
  <2>1. mine'[t] = {}
    BY <1>6 DEF Return, TextInv, Numbers
  <2> QED BY <2>1 DEF TaleOf, Alone
<1> QED BY <1>1, <1>2, <1>3, <1>4, <1>5, <1>6, CallerKinds

LEMMA TaleInit == Init => TaleInv
<1> SUFFICES ASSUME Init PROVE TaleInv
  OBVIOUS
<1>1. Clean
  BY DEF Init, Clean
<1>2. \A t \in Tasks : mine[t] = {}
  BY DEF Init
<1> QED BY <1>1, <1>2 DEF TaleInv, Tales, TaleOf, Alone

LEMMA TaleStep ==
    LockInv /\ TextInv /\ TextInv' /\ WhereInv /\ OwnInv /\ OrderInv /\ OrderInv' /\ TaleInv /\ [Next]_vars => TaleInv'
<1> SUFFICES ASSUME LockInv, TextInv, TextInv', WhereInv, OwnInv, OrderInv, OrderInv', TaleInv, [Next]_vars PROVE TaleInv'
  OBVIOUS
<1>1. ASSUME NEW t \in Tasks, Caller(t) PROVE TaleInv'
  <2>1. Clean'
    BY <1>1, CleanCaller
  <2>2. \A u \in Tasks \ {t} : TaleOf(u)'
    BY <1>1, TaleOther DEF TextInv
  <2>3. TaleOf(t)'
    BY <1>1, TaleCaller
  <2> QED BY <2>1, <2>2, <2>3 DEF TaleInv, Tales
<1>2. CASE Serve \/ Emit \/ TakeData \/ Elapse \/ UNCHANGED vars
  <2>1. Clean'
    BY <1>2, CleanModule DEF TaleInv
  <2>2. \A u \in Tasks : TaleOf(u)'
    BY <1>2, TaleModule
  <2> QED BY <2>1, <2>2 DEF TaleInv, Tales
<1> QED BY <1>1, <1>2 DEF Next

LEMMA TaleAlways == Spec => []TaleInv
<1>1. Init => TaleInv
  BY TaleInit
<1>2. LockInv /\ TextInv /\ TextInv' /\ WhereInv /\ OwnInv /\ OrderInv /\ OrderInv' /\ TaleInv /\ [Next]_vars => TaleInv'
  BY TaleStep
<1>3. (Spec => []LockInv) /\ (Spec => []TextInv) /\ (Spec => []WhereInv) /\ (Spec => []OwnInv) /\ (Spec => []OrderInv)
  BY LockAlways, TextAlways, WhereAlways, OwnAlways, OrderAlways
<1> QED BY <1>1, <1>2, <1>3, PTL DEF Spec

-----------------------------------------------------------------------------
(* What was carried out stays so. *)
LEMMA DoneModule ==
    ASSUME TextInv, Serve \/ Emit \/ TakeData \/ Elapse \/ UNCHANGED vars, NEW c, Done(c)
    PROVE  Done(c)'
<1>1. c \in good /\ (out.c = c => \A i \in 1..Len(out.chunks) : out.chunks[i] # Data)
      /\ \A i \in 1..Len(inbox) : inbox[i].k # "data" => inbox[i].c # c
  BY DEF Done
<1>2. inbox # <<>> /\ inbox' = Tail(inbox) => \A i \in 1..Len(inbox') : inbox'[i].k # "data" => inbox'[i].c # c
  <2> SUFFICES ASSUME inbox # <<>>, inbox' = Tail(inbox) PROVE \A i \in 1..Len(inbox') : inbox'[i].k # "data" => inbox'[i].c # c
    OBVIOUS
  <2>1. inbox \in Seq(Messages(cmds))
    BY DEF TextInv, Queued
  <2>2. Len(inbox') = Len(inbox) - 1 /\ \A i \in 1..Len(inbox') : inbox'[i] = inbox[i + 1] /\ i + 1 \in 1..Len(inbox)
    BY <2>1
  <2> QED BY <1>1, <2>2
<1>3. CASE Serve
  <2>1. inbox # <<>> /\ inbox' = Tail(inbox) /\ 1 \in 1..Len(inbox)
    BY <1>3, ServeIs
  <2>2. CASE inbox[1].k = "data" /\ UNCHANGED <<out, good>>
    BY <1>1, <1>2, <2>1, <2>2 DEF Done
  <2>3. ASSUME inbox[1].k \in Asked, NEW r \in Replies(inbox[1].k), out' = [c |-> inbox[1].c, chunks |-> r.chunks],
               good' = IF r.good THEN good \cup {inbox[1].c} ELSE good
        PROVE  Done(c)'
    <3>1. inbox[1].k # "data"
      BY <2>3 DEF Asked
    <3>2. out'.c # c /\ c \in good'
      BY <1>1, <2>1, <2>3, <3>1
    <3> QED BY <1>2, <2>1, <3>2 DEF Done
  <2> QED BY <1>3, <2>2, <2>3, ServeIs
<1>4. CASE Emit
  <2>1. /\ UNCHANGED <<inbox, good>> /\ out'.c = out.c /\ out'.chunks = Tail(out.chunks) /\ out.chunks # <<>> /\ Len(out.chunks) \in Nat
        /\ Len(Tail(out.chunks)) = Len(out.chunks) - 1 /\ \A m \in 1..Len(Tail(out.chunks)) : Tail(out.chunks)[m] = out.chunks[m + 1]
    BY <1>4, EmitIs
  <2>2. out.c = c => \A i \in 1..Len(out'.chunks) : out'.chunks[i] # Data
    <3> SUFFICES ASSUME out.c = c, NEW i \in 1..Len(out'.chunks) PROVE out'.chunks[i] # Data
      OBVIOUS
    <3>1. i + 1 \in 1..Len(out.chunks) /\ out'.chunks[i] = out.chunks[i + 1]
      BY <2>1
    <3> QED BY <1>1, <3>1
  <2> QED BY <1>1, <2>1, <2>2 DEF Done
<1>5. CASE TakeData
  <2>1. out.chunks # <<>> /\ out.chunks[1] = Data /\ out.chunks \in Seq(Chunks)
    BY <1>5, TakeDataIs
  <2>2. out.c # c
    <3>1. 1 \in 1..Len(out.chunks)
      BY <2>1
    <3> QED BY <1>1, <2>1, <3>1
  <2>3. CASE inbox # <<>> /\ inbox' = Tail(inbox) /\ out'.c = out.c /\ good' \in {good, good \ {out.c}}
    BY <1>1, <1>2, <2>2, <2>3 DEF Done
  <2>4. CASE inbox' = inbox /\ out'.c = out.c /\ good' = good \ {out.c}
    BY <1>1, <2>2, <2>4 DEF Done
  <2> QED BY <1>5, <2>3, <2>4, TakeDataIs
<1>6. CASE Elapse \/ UNCHANGED vars
  BY <1>1, <1>6 DEF Done, Elapse, modVars, vars
<1> QED BY <1>3, <1>4, <1>5, <1>6

LEMMA EarnedSame ==
    ASSUME NEW c, Earned(c), got'[c] = got[c], loose \subseteq loose', Done(c) => Done(c)'
    PROVE  Earned(c)'
BY DEF Earned

(* A module step leaves what is reported as it is. *)
EarnsOf(t) == EarnedOf(t) /\ StatusEarned(t) /\ Carried(t) /\ MuteOf(t) /\ rslt[t] # "true"
LEMMA EarnStill ==
    ASSUME NEW t \in Tasks, EarnsOf(t), \A c \in mine[t] : Earned(c) => Earned(c)',
           UNCHANGED <<rawResponse, retValue, cmds>>, last' = last \/ pc[t] # "return",
           pc'[t] = pc[t], call'[t] = call[t], step'[t] = step[t], rslt'[t] = rslt[t], mine'[t] = mine[t], disturbed[t] => disturbed'[t],
           Script(t)' = Script(t), Alone(t) => Current(t) = cmds /\ cmds \in mine[t]
    PROVE  EarnsOf(t)'
<1>1. Command(t)' = Command(t) /\ Current(t)' = Current(t)
  BY DEF Command, Current
<1>2. (GetsStatus(t)' <=> GetsStatus(t)) /\ (Won(t)' <=> Won(t)) /\ (Reports(t)' <=> Reports(t)) /\ (Alone(t)' => Alone(t))
  BY <1>1 DEF GetsStatus, Won, Reports, Alone
<1>3. EarnedOf(t)'
  BY <1>1, <1>2 DEF EarnsOf, EarnedOf
<1>4. StatusEarned(t)'
  <2>1. StatusGood' <=> StatusGood
    BY DEF StatusGood
  <2> QED BY <1>2, <2>1 DEF EarnsOf, StatusEarned
<1> QED BY <1>2, <1>3, <1>4 DEF EarnsOf, Carried, MuteOf

LEMMA AloneCurrent ==
    ASSUME Numbers, OwnInv, NEW t \in Tasks, Alone(t)
    PROVE  Current(t) = cmds /\ cmds \in mine[t]
<1>1. Current(t) = cmds
  BY DEF OwnInv, Latest
<1>2. mine[t] \in SUBSET (1..cmds) /\ cmds \in Nat /\ mine[t] # {}
  BY DEF Numbers, Alone
<1>3. Max(mine[t]) \in mine[t]
  BY <1>2, MaxGreatest
<1> QED BY <1>1, <1>2, <1>3 DEF Current

LEMMA EarnModule ==
    ASSUME LockInv, TextInv, OwnInv, Serve \/ Emit \/ TakeData \/ Elapse \/ UNCHANGED vars, NEW t \in Tasks, EarnsOf(t)
    PROVE  EarnsOf(t)'
<1>1. UNCHANGED <<pc, call, step, rslt, http, mine, cmds, loose, got, disturbed, rawResponse, retValue, last>>
  BY DEF Serve, Emit, TakeData, Elapse, ModFrame, vars, callVars, histVars, cmdVars
<1>2. \A c : Earned(c) => Earned(c)'
  BY <1>1, DoneModule, EarnedSame
<1>3. Script(t)' = Script(t)
  BY <1>1, SameScripts
<1> QED BY <1>1, <1>2, <1>3, AloneCurrent, EarnStill DEF TextInv

-----------------------------------------------------------------------------
(* The other tasks report what they did before. *)
LEMMA CallerRuns == ASSUME NEW t \in Tasks, Caller(t) PROVE OthersYield(t) /\ asserted = "none"
BY RunsAlone DEF Caller, Call, TryInvoke, TakeLock, SkipKnown, WaitForLock, InvokeReuseLock, ReuseLockAssert, AwaitAgain,
   Refused, ReadNothing, ReadResult, EnterDataMode, DataSent, DataTimeout, FileStreamed, PageStreamed, ReadAgain,
   AwaitReturns, EndCall, StreamAssert, Return

LEMMA EarnOther ==
    ASSUME LockInv, Numbers, OwnInv, NEW t \in Tasks, Caller(t), NEW u \in Tasks \ {t}, EarnsOf(u)
    PROVE  EarnsOf(u)'
<1>1. Stays(u) /\ pc[u] \in YieldPoints /\ pc[u] # "return"
  BY OthersStay, CallerRuns DEF OthersYield, YieldPoints
<1>2. CASE Alone(u)'
  <2>1. /\ Alone(u) /\ UNCHANGED <<rawResponse, out, inbox, good, loose, cmds, retValue>> /\ \A c \in mine[u] : got'[c] = got[c]
    BY <1>2, OtherStill
  <2>2. \A c \in mine[u] : Earned(c) => Earned(c)'
    BY <2>1, EarnedSame DEF Done
  <2> QED BY <1>1, <2>1, <2>2, AloneCurrent, EarnStill DEF Stays
<1>3. CASE ~Alone(u)'
  <2>1. EarnedOf(u)'
    BY <1>3 DEF Alone, EarnedOf
  <2>2. StatusEarned(u)'
    BY <1>3 DEF StatusEarned
  <2>3. ~Reports(u)'
    BY <1>1 DEF Stays, Reports
  <2>4. Carried(u)' /\ MuteOf(u)' /\ rslt'[u] # "true"
    BY <1>1, <2>3 DEF Stays, EarnsOf, Carried, MuteOf
  <2> QED BY <2>1, <2>2, <2>4 DEF EarnsOf
<1> QED BY <1>2, <1>3

-----------------------------------------------------------------------------
(* A call that goes on has what its commands so far were to do. *)
LEMMA NothingMine ==
    ASSUME OwnInv, NEW t \in Tasks, Beginning(t), mine'[t] = mine[t]
    PROVE  EarnedOf(t)' /\ StatusEarned(t)'
<1>1. mine'[t] = {}
  BY DEF OwnInv
<1> QED BY <1>1 DEF EarnedOf, StatusEarned, Alone

LEMMA GoesOnEarned ==
    ASSUME LockInv, OwnInv, NEW t \in Tasks, EarnsOf(t), pc[t] \in {"next", "lock"}, ~disturbed[t], call[t] \notin Careless \cup Mute,
           Command(t).k # "again"
    PROVE  \A c \in mine[t] : Earned(c)
<1>1. CASE step[t] = 1
  <2>1. mine[t] = {}
    BY <1>1 DEF OwnInv, Beginning
  <2> QED BY <2>1
<1>2. CASE step[t] # 1
  <2>1. pc[t] = "next"
    BY <1>2 DEF LockInv, StepsOf
  <2>2. Honest(call[t], Script(t)) /\ step[t] \in 1..Len(Script(t).cmds) /\ Len(Script(t).cmds) \in Nat /\ step[t] \in Nat /\ step[t] > 1
    <3>1. Honest(call[t], Script(t)) /\ step[t] \in 1..Len(Script(t).cmds) /\ Len(Script(t).cmds) \in Nat /\ step[t] \in Nat \ {0}
      BY <2>1, ScriptAt
    <3> QED BY <1>2, <3>1
  <2>3. ~Script(t).goesOn
    <3> SUFFICES ASSUME Script(t).goesOn PROVE FALSE
      OBVIOUS
    <3>1. call[t] = "file_write"
      BY <2>2 DEF Honest, Mute
    <3>2. Len(Script(t).cmds) = 2
      BY <2>2, <3>1 DEF Honest
    <3>3. step[t] = 2
      BY ONLY <2>2, <3>2
    <3> QED BY <2>2, <3>1, <3>3 DEF Honest, Command
  <2>4. rslt[t] = "success"
    BY <2>1, <2>2, <2>3 DEF EarnsOf, Carried
  <2>5. Won(t)
    BY <2>1, <2>4 DEF Won, GetsStatus
  <2> QED BY <2>5 DEF EarnsOf, EarnedOf
<1> QED BY <1>1, <1>2

LEMMA EarnSends ==
    ASSUME LockInv, TextInv, OwnInv, NEW t \in Tasks, Caller(t), Sending(t), EarnsOf(t)
    PROVE  EarnsOf(t)' /\ resultCode' # "true"
<1>1. /\ cmds' = cmds + 1 /\ inbox' = Append(inbox, [k |-> Command(t).k, c |-> cmds + 1]) /\ UNCHANGED <<out, good, got, loose, call, http, step, rslt>>
      /\ mine' = [mine EXCEPT ![t] = @ \cup {cmds + 1}] /\ pc'[t] = "read" /\ pc[t] \in {"next", "lock"} /\ resultCode' = "none"
      /\ Command(t).k # "again"
  BY SendingIs, SentKind, GoesTo DEF SendCommand, StartToRead, Reset
<1>2. disturbed[t] => disturbed'[t]
  BY SendingIs, ReadStarts DEF LockInv
<1>3. Current(t)' = cmds + 1 /\ mine'[t] = mine[t] \cup {cmds + 1} /\ mine[t] \subseteq 1..cmds /\ cmds \in Nat
  BY <1>1, NewCurrent DEF TextInv, Numbers
<1>4. ~Won(t)' /\ ~Reports(t)' /\ ~GetsStatus(t)'
  BY <1>1 DEF Won, Reports, GetsStatus
<1>5. EarnedOf(t)'
  <2> SUFFICES ASSUME ~disturbed[t], call[t] \notin Careless \cup Mute, NEW c \in mine[t] PROVE Earned(c)'
    BY <1>1, <1>2, <1>3, <1>4 DEF EarnedOf
  <2>1. Earned(c)
    BY <1>1, GoesOnEarned
  <2>2. Done(c) => Done(c)'
    <3>1. inbox \in Seq(Messages(cmds)) /\ Len(inbox) \in Nat
      BY DEF TextInv, Queued
    <3>2. \A i \in 1..Len(inbox') : (i \in 1..Len(inbox) /\ inbox'[i] = inbox[i]) \/ inbox'[i].c = cmds + 1
      BY <1>1, <3>1
    <3>3. c # cmds + 1
      BY <1>3
    <3> QED BY <1>1, <3>2, <3>3 DEF Done
  <2> QED BY <1>1, <2>1, <2>2, EarnedSame
<1>6. StatusEarned(t)' /\ Carried(t)' /\ MuteOf(t)' /\ rslt'[t] # "true"
  BY <1>1, <1>4 DEF StatusEarned, Carried, MuteOf, EarnsOf
<1> QED BY <1>1, <1>5, <1>6 DEF EarnsOf

-----------------------------------------------------------------------------
(* A call that waits reports nothing. *)
LEMMA EarnWaits ==
    ASSUME NEW t \in Tasks, EarnsOf(t), mine'[t] = mine[t], call'[t] = call[t], rslt'[t] = rslt[t], disturbed[t] => disturbed'[t],
           pc'[t] \in {"lock", "read", "data", "stream"}, \A c \in mine[t] : c # Current(t) /\ Earned(c) => Earned(c)'
    PROVE  EarnsOf(t)'
<1>1. ~Won(t)' /\ ~Reports(t)' /\ ~GetsStatus(t)' /\ pc'[t] # "next"
  BY DEF Won, Reports, GetsStatus
<1>2. Current(t)' = Current(t)
  BY DEF Current
<1>3. EarnedOf(t)'
  BY <1>1, <1>2 DEF EarnsOf, EarnedOf
<1> QED BY <1>1, <1>3 DEF EarnsOf, StatusEarned, Carried, MuteOf

LEMMA EarnedStill ==
    ASSUME UNCHANGED <<got, loose, good, out, inbox>>
    PROVE  \A c : Earned(c)' <=> Earned(c)
BY DEF Earned, Done

LEMMA EarnWaiting ==
    ASSUME LockInv, NEW t \in Tasks, EarnsOf(t), WaitForLock(t) \/ ReadAgain(t) \/ AwaitAgain(t)
    PROVE  EarnsOf(t)' /\ resultCode' \in {resultCode, "none"}
<1>1. /\ UNCHANGED <<got, loose, good, out, inbox, mine, call, rslt>> /\ pc'[t] \in {"lock", "read"} /\ (disturbed[t] => disturbed'[t])
      /\ resultCode' \in {resultCode, "none"}
  <2>1. CASE WaitForLock(t) \/ ReadAgain(t)
    <3>1. Still /\ UNCHANGED <<call, rslt, disturbed>>
      BY <2>1, IdlesStill DEF Idles, WaitForLock, ReadAgain, histVars
    <3>2. pc'[t] \in {"lock", "read"}
      BY <2>1, GoesTo DEF WaitForLock, ReadAgain
    <3> QED BY <3>1, <3>2 DEF Still
  <2>2. CASE AwaitAgain(t)
    <3>1. StartToRead(t) /\ OthersYield(t)
      BY <2>2, RunsAlone DEF AwaitAgain
    <3>2. pc'[t] = "read" /\ (disturbed[t] => disturbed'[t])
      BY <3>1, ReadStarts DEF LockInv, Types
    <3> QED BY <2>2, <3>2 DEF AwaitAgain, Reset, modVars
  <2> QED BY <2>1, <2>2
<1> QED BY <1>1, EarnedStill, EarnWaits

LEMMA MineGot ==
    ASSUME Numbers, OwnInv, NEW t \in Tasks
    PROVE  mine[t] \subseteq DOMAIN got /\ mine[t] \subseteq 1..cmds /\ cmds \in Nat
<1>1. mine[t] \subseteq 1..cmds /\ cmds \in Nat /\ cmds <= MaxCmds /\ DOMAIN got = Cmds
  BY DEF Numbers, OwnInv, Gotten
<1>2. 1..cmds \subseteq Cmds
  BY <1>1, ServicesAssumption DEF Cmds
<1> QED BY <1>1, <1>2

LEMMA EarnEnters ==
    ASSUME LockInv, TextInv, OwnInv, NEW t \in Tasks, EarnsOf(t), EnterDataMode(t)
    PROVE  EarnsOf(t)' /\ resultCode' = "none"
<1>1. /\ pc'[t] \in {"data", "stream"} /\ (inbox' = inbox \/ inbox' = Append(inbox, [k |-> "data", c |-> dataMode.c]))
      /\ got' = got \/ \E v : got' = [got EXCEPT ![Current(t)] = v]
      /\ UNCHANGED <<out, good, call, mine, disturbed, rslt, loose>>
  BY EnterIs
<1>2. \A c : Done(c) => Done(c)'
  <2>1. inbox \in Seq(Messages(cmds)) /\ Len(inbox) \in Nat
    BY DEF TextInv, Queued
  <2>2. \A i \in 1..Len(inbox') : (i \in 1..Len(inbox) /\ inbox'[i] = inbox[i]) \/ inbox'[i].k = "data"
    BY <1>1, <2>1
  <2> QED BY <1>1, <2>2 DEF Done
<1>3. \A c \in mine[t] : c # Current(t) => got'[c] = got[c]
  <2>1. mine[t] \subseteq DOMAIN got
    BY MineGot DEF TextInv
  <2> QED BY <1>1, <2>1
<1>4. \A c \in mine[t] : c # Current(t) /\ Earned(c) => Earned(c)'
  BY <1>1, <1>2, <1>3, EarnedSame
<1>5. resultCode' = "none"
  BY DEF EnterDataMode
<1> QED BY <1>1, <1>4, <1>5, EarnWaits

LEMMA EarnReturn ==
    ASSUME LockInv, Numbers, NEW t \in Tasks, Return(t)
    PROVE  EarnsOf(t)'
<1>1. mine'[t] = {} /\ pc'[t] = "idle" /\ rslt'[t] = "none"
  BY GoesTo DEF Return, Numbers, LockInv, Types
<1> QED BY <1>1 DEF EarnsOf, EarnedOf, StatusEarned, Alone, Carried, MuteOf, Reports

-----------------------------------------------------------------------------
(* Steps of the script. *)
LEMMA LtemGoesOn == ASSUME LockInv, NEW t \in Tasks, call[t] = "mdminfo_ltem" PROVE Script(t).goesOn
<1>1. Script(t) = Scripts["mdminfo_ltem"] /\ "mdminfo_ltem" \in Fixed
  BY ScriptIs DEF ScriptOf, Fixed
<1>2. Scripts["mdminfo_ltem"] = mdminfo_ltem
  BY <1>1 DEF Scripts
<1>3. mdminfo_ltem.goesOn
  BY DEF mdminfo_ltem, Sequence, Automatic
<1> QED BY <1>1, <1>2, <1>3

LEMMA EarnCall ==
    ASSUME LockInv, OwnInv, NEW t \in Tasks, EarnsOf(t), NEW n, Call(t, n)
    PROVE  EarnsOf(t)'
<1>1. pc[t] = "idle" /\ pc'[t] = "next" /\ UNCHANGED <<mine, step, rslt>>
  BY RunsAlone, GoesTo DEF Call
<1>2. step'[t] = 1
  BY <1>1 DEF LockInv, StepsOf
<1>3. EarnedOf(t)' /\ StatusEarned(t)'
  BY <1>1, NothingMine DEF Beginning
<1>4. Carried(t)' /\ MuteOf(t)'
  BY <1>1, <1>2 DEF Carried, MuteOf, Reports
<1> QED BY <1>1, <1>3, <1>4 DEF EarnsOf

LEMMA EarnKnown ==
    ASSUME LockInv, NEW t \in Tasks, EarnsOf(t), SkipKnown(t)
    PROVE  EarnsOf(t)'
<1>1. pc[t] \in {"next", "lock"} /\ UNCHANGED <<call, http, mine, rslt>> /\ Advance(t) /\ IsKnown(Command(t).k)
  BY RunsAlone DEF SkipKnown
<1>2. pc'[t] \in {"next", "end"} /\ (pc'[t] = "next" <=> step[t] < Len(Script(t).cmds)) /\ Script(t)' = Script(t)
  BY <1>1, AdvanceIs
<1>3. Command(t).k \in Texts \cup {"COPS"}
  BY <1>1 DEF IsKnown, LockInv, Types
<1>4. Honest(call[t], Script(t)) /\ step[t] \in 1..Len(Script(t).cmds) /\ Len(Script(t).cmds) \in Nat
  BY <1>1, ScriptAt
<1>5. call[t] \in Careless \cup Mute
  <2>1. Command(t).k \notin Earning
    BY <1>3 DEF Texts, Earning
  <2> QED BY <1>4, <2>1 DEF Honest, Command
<1>6. Script(t).goesOn \/ pc'[t] = "end"
  <2>1. Fit(call[t], Script(t))
    BY ScriptOfTask DEF LockInv
  <2>2. CASE Command(t).k \in Texts
    <3>1. call[t] = "mdminfo_ltem"
      BY <1>4, <2>1, <2>2 DEF Fit, Command
    <3> QED BY <3>1, LtemGoesOn
  <2>3. CASE Command(t).k = "COPS"
    <3>1. Len(Script(t).cmds) = 1
      BY <1>4, <2>1, <2>3 DEF Fit, Command
    <3>2. step[t] = 1
      BY ONLY <1>4, <3>1
    <3> QED BY <1>2, <3>1, <3>2
  <2> QED BY <1>3, <2>2, <2>3
<1>7. EarnedOf(t)' /\ StatusEarned(t)'
  BY <1>1, <1>5 DEF EarnedOf, StatusEarned, GetsStatus, Careless, Mute, Activating
<1>8. Carried(t)' /\ MuteOf(t)'
  BY <1>2, <1>6 DEF Carried, MuteOf, Reports
<1> QED BY <1>1, <1>7, <1>8 DEF EarnsOf

LEMMA EarnAsserts ==
    ASSUME LockInv, TextInv, OwnInv, NEW t \in Tasks, EarnsOf(t), ReuseLockAssert(t) \/ StreamAssert(t)
    PROVE  EarnsOf(t)'
<1>1. UNCHANGED <<pc, call, step, rslt, http, mine, cmds, loose, got, good, out, inbox, disturbed, rawResponse, retValue, last>>
  BY DEF ReuseLockAssert, StreamAssert, cmdVars, callVars, modVars, histVars
<1>2. Script(t)' = Script(t)
  BY <1>1, SameScripts
<1> QED BY <1>1, <1>2, EarnedStill, AloneCurrent, EarnStill DEF TextInv

LEMMA EarnRefused ==
    ASSUME LockInv, TextInv, OwnInv, NEW t \in Tasks, EarnsOf(t), Refused(t)
    PROVE  EarnsOf(t)'
<1>1. pc[t] \in {"next", "lock"} /\ UNCHANGED <<call, http, mine, got, loose, good, out, inbox, cmds>> /\ OthersYield(t)
  BY RefusedIs, IdlesStill DEF Idles, Still
<1>2. CASE parser' = Command(t).p /\ StartToRead(t) /\ pc'[t] = "read" /\ UNCHANGED <<step, rslt, last>>
  <2>1. disturbed[t] => disturbed'[t]
    BY <1>1, <1>2, ReadStarts DEF LockInv
  <2> QED BY <1>1, <1>2, <2>1, EarnedStill, EarnWaits
<1>3. CASE rslt' = [rslt EXCEPT ![t] = "success"] /\ Advance(t) /\ UNCHANGED <<parser, disturbed, last>>
  <2>1. pc'[t] \in {"next", "end"} /\ rslt'[t] = "success"
    BY <1>1, <1>3, AdvanceIs DEF LockInv, Types
  <2>2. Carried(t)' /\ MuteOf(t)' /\ rslt'[t] # "true"
    BY <2>1 DEF Carried, MuteOf, Reports
  <2>3. CASE step[t] = 1
    BY <1>1, <2>2, <2>3, NothingMine DEF EarnsOf, Beginning
  <2>4. CASE step[t] # 1
    <3>1. pc[t] = "next" /\ step[t] > 1
      BY <1>1, <2>4 DEF LockInv, StepsOf, Types
    <3>2. ~Script(t).manual
      BY <3>1, RunsAlone DEF Refused
    <3>3. ~Script(t).goesOn
      BY <3>2, ScriptAt DEF Honest
    <3>4. rslt[t] = "success" /\ Won(t)
      BY <3>1, <3>3 DEF EarnsOf, Carried, Won, GetsStatus
    <3>5. ~disturbed[t] /\ call[t] \notin Careless \cup Mute => \A c \in mine[t] : Earned(c)
      BY <3>4 DEF EarnsOf, EarnedOf
    <3>6. EarnedOf(t)'
      BY <1>1, <1>3, <3>5, EarnedStill DEF EarnedOf
    <3>7. StatusEarned(t)'
      <4> SUFFICES ASSUME Alone(t)', GetsStatus(t)' PROVE Earned(cmds)'
        BY DEF StatusEarned
      <4>1. Alone(t) /\ call[t] = "http_get"
        BY <1>1, <1>3 DEF Alone, GetsStatus
      <4>2. cmds \in mine[t]
        BY <4>1, AloneCurrent DEF TextInv
      <4>3. Earned(cmds)
        BY <3>5, <4>1, <4>2 DEF Alone, Careless, Mute, Activating
      <4>4. \A c : Earned(c)' <=> Earned(c)
        BY <1>1, EarnedStill
      <4> QED BY <1>1, <4>3, <4>4 DEF Earned, Done
    <3> QED BY <2>2, <3>6, <3>7 DEF EarnsOf
  <2> QED BY <2>3, <2>4
<1>4. CASE pc'[t] = "return" /\ last' = Script(t).refused /\ UNCHANGED <<parser, disturbed, step, rslt>>
  <2>1. Script(t).refused \notin Wins
    BY ScriptAt DEF Honest
  <2>2. ~Won(t)' /\ ~Reports(t)' /\ ~GetsStatus(t)' /\ Current(t)' = Current(t)
    BY <1>1, <1>4, <2>1 DEF Won, Reports, GetsStatus, Current
  <2>3. EarnedOf(t)'
    BY <1>1, <1>4, <2>2, EarnedStill DEF EarnsOf, EarnedOf
  <2> QED BY <1>4, <2>2, <2>3 DEF EarnsOf, StatusEarned, Carried, MuteOf
<1> QED BY <1>2, <1>3, <1>4, RefusedIs

-----------------------------------------------------------------------------
(* A result is taken, and reported. *)
LEMMA EarnAwaited ==
    ASSUME LockInv, TextInv, WhereInv, OwnInv, NEW t \in Tasks, EarnsOf(t), AwaitReturns(t), resultCode # "true"
    PROVE  EarnsOf(t)'
<1>1. /\ pc[t] = "yield" /\ rslt[t] # "unknown" /\ rslt' = [rslt EXCEPT ![t] = resultCode] /\ UNCHANGED <<call, http, disturbed, last>>
      /\ Still /\ (resultCode = "success" \/ Script(t).goesOn => Advance(t)) /\ (Advance(t) \/ pc'[t] = "end")
      /\ ~(resultCode = "success" \/ Script(t).goesOn) => pc'[t] = "end"
  <2>1. /\ pc[t] = "yield" /\ rslt[t] # "unknown" /\ rslt' = [rslt EXCEPT ![t] = resultCode] /\ UNCHANGED <<call, http, disturbed, last>>
        /\ (resultCode = "success" \/ Script(t).goesOn => Advance(t)) /\ (~(resultCode = "success" \/ Script(t).goesOn) => Goto(t, "end"))
    BY RunsAlone DEF AwaitReturns
  <2>2. ~(resultCode = "success" \/ Script(t).goesOn) => pc'[t] = "end"
    BY <2>1, GoesTo
  <2> QED BY <2>1, <2>2, IdlesStill DEF Idles
<1>2. /\ rslt'[t] = resultCode /\ pc'[t] \in {"next", "end"} /\ UNCHANGED <<got, loose, good, out, inbox, mine, cmds, rawResponse, retValue>>
      /\ Advance(t) => (pc'[t] = "next" <=> step[t] < Len(Script(t).cmds)) /\ Script(t)' = Script(t)
  <2>1. rslt'[t] = resultCode
    BY <1>1 DEF LockInv, Types
  <2>2. Advance(t) => pc'[t] \in {"next", "end"} /\ (pc'[t] = "next" <=> step[t] < Len(Script(t).cmds)) /\ Script(t)' = Script(t)
    BY <1>1, AdvanceIs
  <2> QED BY <1>1, <2>1, <2>2 DEF Still
<1>3. Honest(call[t], Script(t)) /\ step[t] \in 1..Len(Script(t).cmds) /\ Len(Script(t).cmds) \in Nat
  <2>1. step[t] <= Len(Script(t).cmds)
    BY <1>1 DEF WhereInv, WhereOf, Working
  <2> QED BY <2>1, ScriptAt
<1>4. Command(t).k \in GetKinds <=> call[t] = "http_get" /\ step[t] = Len(Script(t).cmds)
  BY <1>3 DEF Honest, Command
<1>5. \A c : Earned(c)' <=> Earned(c)
  BY <1>2, EarnedStill
<1>6. Current(t)' = Current(t) /\ ~Reports(t)'
  BY <1>2 DEF Current, Reports
<1>7. ~disturbed[t] => resultCode = rslt[t]
  BY <1>1 DEF LockInv, ToldOf
<1>8. resultCode = "success" => Advance(t) /\ (call[t] = "http_get" => (GetsStatus(t)' <=> GetsStatus(t)))
  <2> SUFFICES ASSUME resultCode = "success", call[t] = "http_get" PROVE GetsStatus(t)' <=> GetsStatus(t)
    BY <1>1
  <2>1. Advance(t)
    BY <1>1
  <2>2. pc'[t] = "end" <=> step[t] = Len(Script(t).cmds)
    BY <1>2, <1>3, <2>1
  <2> QED BY <1>1, <1>2, <1>4, <2>2 DEF GetsStatus
<1>9. EarnedOf(t)'
  <2> SUFFICES ASSUME ~disturbed[t], call[t] \notin Careless \cup Mute, NEW c \in mine[t], c # Current(t) \/ Won(t)' PROVE Earned(c)
    BY <1>1, <1>2, <1>5, <1>6 DEF EarnedOf
  <2>1. CASE c # Current(t)
    BY <2>1 DEF EarnsOf, EarnedOf
  <2>2. CASE Won(t)'
    <3>1. resultCode = "success" /\ rslt[t] = "success" /\ ~GetsStatus(t)'
      BY <1>2, <1>7, <2>2 DEF Won
    <3>2. ~GetsStatus(t)
      BY <1>8, <3>1 DEF GetsStatus
    <3>3. Won(t)
      BY <1>1, <3>1, <3>2 DEF Won
    <3> QED BY <3>3 DEF EarnsOf, EarnedOf
  <2> QED BY <2>1, <2>2
<1>10. StatusEarned(t)'
  <2> SUFFICES ASSUME Alone(t)', GetsStatus(t)', rslt'[t] = "success", StatusGood' PROVE Earned(cmds)'
    BY DEF StatusEarned
  <2>1. Alone(t) /\ rslt[t] = "success" /\ resultCode = "success" /\ StatusGood
    BY <1>1, <1>2, <1>7 DEF Alone, StatusGood
  <2>2. GetsStatus(t)
    BY <1>1, <1>8, <2>1 DEF GetsStatus
  <2>3. Earned(cmds)
    BY <2>1, <2>2 DEF EarnsOf, StatusEarned
  <2> QED BY <1>2, <2>3 DEF Earned, Done
<1>11. Carried(t)'
  <2> SUFFICES ASSUME pc'[t] = "next", ~Script(t)'.goesOn PROVE resultCode = "success"
    BY <1>2 DEF Carried
  <2>1. Advance(t) => Script(t)' = Script(t)
    BY <1>2
  <2> QED BY <1>1, <2>1
<1> QED BY <1>2, <1>6, <1>9, <1>10, <1>11 DEF EarnsOf, MuteOf

LEMMA EarnEnd ==
    ASSUME LockInv, TextInv, OwnInv, NEW t \in Tasks, EarnsOf(t), EndCall(t)
    PROVE  EarnsOf(t)'
<1>1. /\ pc[t] = "end" /\ pc'[t] = "return" /\ last' = Reported(t) /\ Still /\ UNCHANGED <<call, step, rslt, disturbed>>
  BY RunsAlone, GoesTo, IdlesStill DEF EndCall, Idles, Finish
<1>2. UNCHANGED <<got, loose, good, out, inbox, mine, cmds>>
  BY <1>1 DEF Still
<1>3. \A c : Earned(c)' <=> Earned(c)
  BY <1>2, EarnedStill
<1>4. Current(t)' = Current(t) /\ ~Won(t)' /\ ~GetsStatus(t)' /\ (Reports(t)' => Reported(t) \in Wins)
  BY <1>1, <1>2 DEF Current, Won, GetsStatus, Reports
<1>5. Honest(call[t], Script(t)) /\ rslt[t] # "true"
  BY ScriptAt DEF EarnsOf
<1>6. call[t] \notin Requests \cup Careless /\ rslt[t] # "success" => Reported(t) \notin Wins
  <2> SUFFICES ASSUME call[t] \notin Requests \cup Careless, rslt[t] # "success" PROVE Reported(t) \notin Wins
    OBVIOUS
  <2>1. Script(t).lost \notin Wins
    BY <1>5 DEF Honest
  <2>2. Reported(t) = rslt[t] \/ Reported(t) = Script(t).lost
    BY DEF Reported
  <2> QED BY <1>5, <2>1, <2>2 DEF Wins
<1>7. call[t] = "http_get" /\ Reported(t) \in Wins => rslt[t] = "success" /\ StatusGood
  <2> SUFFICES ASSUME call[t] = "http_get", ~(rslt[t] = "success" /\ StatusGood) PROVE Reported(t) \notin Wins
    OBVIOUS
  <2>1. Reported(t) = StatusOf(t)
    BY DEF Reported, Requests
  <2>2. CASE rslt[t] = "success" /\ retValue # 0
    <3>1. StatusOf(t) = "status"
      BY <2>2 DEF StatusOf, ErrorReported
    <3> QED BY <2>1, <3>1 DEF Wins
  <2>3. CASE rslt[t] = "success" /\ retValue = 0
    <3>1. StatusOf(t) = "status"
      BY <2>3 DEF StatusOf, StatusGood
    <3> QED BY <2>1, <3>1 DEF Wins
  <2>4. CASE rslt[t] # "success"
    <3>1. StatusOf(t) = rslt[t] \/ StatusOf(t) = "status"
      BY <2>4 DEF StatusOf
    <3> QED BY <1>5, <2>1, <2>4, <3>1 DEF Wins
  <2> QED BY <2>2, <2>3, <2>4
<1>8. EarnedOf(t)'
  <2> SUFFICES ASSUME ~disturbed[t], call[t] \notin Careless \cup Mute, NEW c \in mine[t], c # Current(t) \/ Reported(t) \in Wins PROVE Earned(c)
    BY <1>1, <1>2, <1>3, <1>4 DEF EarnedOf
  <2>1. CASE c # Current(t)
    BY <2>1 DEF EarnsOf, EarnedOf
  <2>2. CASE c = Current(t) /\ Reported(t) \in Wins /\ call[t] = "http_get"
    <3>1. Alone(t) /\ c = cmds
      BY <2>2, AloneCurrent DEF Alone, TextInv
    <3>2. GetsStatus(t) /\ rslt[t] = "success" /\ StatusGood
      BY <1>1, <1>7, <2>2 DEF GetsStatus
    <3> QED BY <3>1, <3>2 DEF EarnsOf, StatusEarned
  <2>3. CASE Reported(t) \in Wins /\ call[t] # "http_get"
    <3>1. call[t] \notin Requests \cup Careless
      BY <2>3 DEF Requests, Careless
    <3>2. Won(t)
      BY <1>1, <1>6, <2>3, <3>1 DEF Won, GetsStatus
    <3> QED BY <3>2 DEF EarnsOf, EarnedOf
  <2> QED BY <2>1, <2>2, <2>3
<1>9. MuteOf(t)'
  <2> SUFFICES ASSUME call[t] \in Mute, Reported(t) \in Wins PROVE FALSE
    BY <1>1, <1>4 DEF MuteOf
  <2>1. call[t] \notin Requests \cup Careless
    BY DEF Mute, Requests, Careless, Activating
  <2>2. rslt[t] = "success"
    BY <1>6, <2>1
  <2>3. Reported(t) = Script(t).won
    BY <2>1, <2>2 DEF Reported
  <2> QED BY <1>5, <2>3 DEF Honest
<1> QED BY <1>1, <1>4, <1>8, <1>9 DEF EarnsOf, StatusEarned, Carried

-----------------------------------------------------------------------------
(* What a success that is read says of the latest command. *)
LEMMA SeenLater ==
    ASSUME Received, Takes, UNCHANGED cmds, NEW L, Carries(rawResponse', L)
    PROVE  Seen(L)
<1>1. Seen(L)' => Seen(L)
  BY SeenTaken
<1>2. Seen(L)'
  BY DEF Seen, Carries
<1> QED BY <1>1, <1>2

LEMMA DoneIs ==
    ASSUME NEW k, Gets(k), out.c = cmds, cmds \in good, \A m \in 1..Len(out.chunks) : out.chunks[m] # Data
    PROVE  Done(cmds)
<1>1. \A i \in 1..Len(inbox) : inbox[i].k = "data"
  BY DEF Gets
<1> QED BY <1>1 DEF Done

LEMMA DoneSkipped ==
    ASSUME TextInv, OrderInv, NEW t \in Tasks, NEW r, NEW c, Skipped(t, r, c), Streams(t), Story(Kind(t))
    PROVE  c = cmds /\ Done(cmds)
<1> DEFINE k == Kind(t)
<1>1. dataMode.skip /\ Gets(k)
  BY DEF Skipped, Story
<1>2. CASE DataSent(t) /\ c = rxBffr[FeedEnd].c
  <2>1. pc[t] = "data" /\ Has(rxBffr, "OK")
    BY <1>2, RunsAlone DEF DataSent
  <2>2. c = cmds /\ cmds \in good /\ out.c = cmds /\ out.chunks = <<>>
    BY <1>1, <1>2, <2>1, FeedLine
  <2>3. \A m \in 1..Len(out.chunks) : out.chunks[m] # Data
    BY <2>2
  <2> QED BY <1>1, <2>2, <2>3, DoneIs
<1>3. CASE PageStreamed(t) /\ c = rxBffr[PageEnd].c /\ rxBffr[PageEnd + 1].v = 0
  <2>1. pc[t] = "stream" /\ Places(rxBffr, <<"QHTTPREAD", "tok", "eol">>) # {} /\ dataMode.h = "S__httpRxHndlr"
    BY <1>3, RunsAlone DEF PageStreamed
  <2>2. Kind(t) = "QHTTPREAD"
    BY <2>1 DEF Streams, Handler, HandlerOf
  <2>3. c = cmds /\ cmds \in good /\ out.c = cmds /\ out.chunks = <<>>
    BY <1>1, <1>3, <2>1, <2>2, PageLine
  <2>4. \A m \in 1..Len(out.chunks) : out.chunks[m] # Data
    BY <2>3
  <2> QED BY <1>1, <2>3, <2>4, DoneIs
<1> QED BY <1>2, <1>3 DEF Skipped

(* Which word of the answer a parser succeeds by. *)
LEMMA WitnessIs ==
    /\ Witness(ATCMD_okResponseParser) = "OK" /\ Witness(S__writeStatusParser) = "QFWRITE" /\ Witness(gnssLocCompleteParser) = "QGPSLOC"
    /\ Witness(S__ioValueParser) = "QCFG" /\ Witness(S__httpGetStatusParser) = "QHTTPGET"
<1>1. /\ ATCMD_okResponseParser.pre = "" /\ S__writeStatusParser.pre = "QFWRITE" /\ gnssLocCompleteParser.pre = "QGPSLOC"
      /\ S__ioValueParser.pre = "QCFG" /\ S__httpGetStatusParser.pre = "QHTTPGET"
  BY DEF ATCMD_okResponseParser, S__writeStatusParser, gnssLocCompleteParser, S__ioValueParser, S__httpGetStatusParser, Std
<1> QED BY <1>1 DEF Witness

LEMMA PledgeWitness ==
    ASSUME NEW k \in Earning, k \notin GetKinds, k # "QHTTPREAD"
    PROVE  Witness(ParserOf(k)) \in Pledges(IF k = "again" THEN "QFWRITE" ELSE k)
<1>1. CASE k \in {"plain", "list", "QFREAD", "QHTTPURL", "QFWRITE"}
  <2>1. ParserOf(k) = ATCMD_okResponseParser
    BY <1>1 DEF ParserOf, GetKinds
  <2>2. "OK" \in Pledges(k) /\ k # "again"
    BY <1>1 DEF Pledges
  <2> QED BY <2>1, <2>2, WitnessIs
<1>2. CASE k = "again"
  <2>1. ParserOf(k) = S__writeStatusParser
    BY <1>2 DEF ParserOf
  <2>2. "QFWRITE" \in Pledges("QFWRITE")
    BY DEF Pledges
  <2> QED BY <1>2, <2>1, <2>2, WitnessIs
<1>3. CASE k = "QGPSLOC"
  <2>1. ParserOf(k) = gnssLocCompleteParser
    BY <1>3 DEF ParserOf
  <2>2. "QGPSLOC" \in Pledges("QGPSLOC")
    BY DEF Pledges
  <2> QED BY <1>3, <2>1, <2>2, WitnessIs
<1>4. CASE k = "QCFG"
  <2>1. ParserOf(k) = S__ioValueParser
    BY <1>4 DEF ParserOf
  <2>2. "QCFG" \in Pledges("QCFG")
    BY DEF Pledges
  <2> QED BY <1>4, <2>1, <2>2, WitnessIs
<1> QED BY <1>1, <1>2, <1>3, <1>4 DEF Earning, GetKinds

LEMMA DoneParsed ==
    ASSUME LockInv, TextInv, TextInv', WhereInv, OrderInv, OrderInv', NEW t \in Tasks, Reads(t), Streams(t), Story(Kind(t)),
           parser = Command(t).p, Parsed("success", cmds), call[t] \notin Careless \cup Mute,
           Command(t).k \in GetKinds => StatusGood'
    PROVE  Done(cmds)
<1> DEFINE a == Command(t).k
           k == Kind(t)
<1>1. UNCHANGED <<cmds, out, good, inbox>> /\ Working(t) /\ Command(t)' = Command(t) /\ Takes /\ Received /\ parser' = parser
  BY ReadsLeave, ReadsTake DEF TextInv
<1>2. parser.pre # "QIACT"
  BY DEF Parsed
<1>3. Matches(Command(t), a) /\ Judges(parser) /\ parser = ParserOf(a)
  BY <1>1, <1>2, CommandFit DEF Matches
<1>4. a \in Earning
  <2>1. step[t] <= Len(Script(t).cmds)
    BY <1>1 DEF WhereInv, WhereOf
  <2>2. Honest(call[t], Script(t)) /\ step[t] \in 1..Len(Script(t).cmds)
    BY <2>1, ScriptAt
  <2> QED BY <2>2 DEF Honest, Command
<1>5. cmds # 0 /\ Carries(rawResponse', {Witness(parser)}) /\ Verdict(parser, rawResponse') = "success" /\ Seen({Witness(parser)}) /\ out.c = cmds
  <2>1. cmds # 0 /\ Carries(rawResponse', {Witness(parser)}) /\ Verdict(parser, rawResponse') = "success"
    BY <1>1, <1>3, FoundIs
  <2>2. Seen({Witness(parser)})
    BY <1>1, <2>1, SeenLater
  <2> QED BY <2>1, <2>2, NotSeen
<1>6. Gets(k) /\ Story(k)'
  <2>1. Story(Kind(t))'
    BY StoryReads
  <2> QED BY <2>1 DEF Story
<1>7. \A K : Witness(parser) \in K => Seen(K)
  BY <1>5 DEF Seen, Carries
<1> HIDE DEF a, k
<1>8. CASE a \notin GetKinds /\ a # "QHTTPREAD"
  <2>1. Witness(parser) \in Pledges(k)
    BY <1>3, <1>4, <1>8, PledgeWitness DEF a, k, Kind
  <2>2. Seen(Pledges(k))
    BY <1>7, <2>1
  <2>3. cmds \in good /\ \A m \in 1..Len(out.chunks) : out.chunks[m] # Data
    BY <1>5, <1>6, <2>2 DEF Gets
  <2> QED BY <1>5, <1>6, <2>3, DoneIs
<1>9. CASE a = "QHTTPREAD"
  <2>1. k = "QHTTPREAD" /\ parser = ATCMD_okResponseParser
    BY <1>3, <1>9 DEF a, k, Kind, ParserOf, GetKinds
  <2>2. Page'
    <3>1. Kind(t) = "QHTTPREAD"
      BY <2>1 DEF k
    <3> QED BY <3>1, PageReads
  <2>3. ~Carries(rawResponse', {"OK"})
    BY <1>1, <2>2 DEF Page, Carries
  <2> QED BY <1>5, <2>1, <2>3, WitnessIs
<1>10. CASE a \in GetKinds
  <2>1. k = a /\ parser = S__httpGetStatusParser
    BY <1>3, <1>10 DEF a, k, Kind, ParserOf, GetKinds
  <2>2. "QHTTPGET" \in Final(k) /\ k \in GetKinds
    BY <1>10, <2>1 DEF Final, GetKinds
  <2>3. Seen(Final(k))
    BY <1>7, <2>1, <2>2, WitnessIs
  <2>4. out.chunks = <<>>
    BY <1>5, <1>6, <2>3 DEF Gets
  <2>5. \A j \in 1..Len(rawResponse') : rawResponse'[j].c = cmds => Status(rawResponse', j, cmds \in good)
    <3>1. Kind(t)' = Kind(t)
      BY <1>1 DEF Kind
    <3>2. k' = k
      BY <3>1 DEF k
    <3>3. Gets(k)'
      BY <1>6 DEF Story
    <3> QED BY <1>1, <1>5, <2>2, <3>2, <3>3 DEF Gets
  <2>6. cmds \in good
    <3> DEFINE g == cmds \in good
               x == rawResponse'
    <3>1. (out.c \in Nat /\ rawResponse \in Seq(Pieces(1..out.c)))'
      BY TextNumbers, PTL
    <3>2. Sorted(x) /\ Whole(x)
      BY DEF OrderInv
    <3>3. StatusGood' /\ retValue' = ValueOf(S__httpGetStatusParser, x) /\ cmds = Decider(S__httpGetStatusParser, x)
          /\ Verdict(S__httpGetStatusParser, x) = "success"
      BY <1>5, <1>10, <2>1 DEF a, Parsed
    <3>4. ValueOf(S__httpGetStatusParser, x) = 0 /\ S__parseResponseForHttpStatus(x) = 200
      BY <3>3 DEF StatusGood
    <3>5. \A j \in 1..Len(x) : x[j].c = Decider(S__httpGetStatusParser, x) => Status(x, j, g)
      BY <2>5, <3>3
    <3>6. out'.c \in Nat /\ x \in Seq(Pieces(1..out'.c))
      BY <3>1
    <3> HIDE DEF g, x
    <3>7. g
      BY <3>2, <3>3, <3>4, <3>5, <3>6, StatusIs
    <3> QED BY <3>7 DEF g
  <2>7. \A m \in 1..Len(out.chunks) : out.chunks[m] # Data
    BY <2>4
  <2> QED BY <1>5, <1>6, <2>6, <2>7, DoneIs
<1> QED BY <1>8, <1>9, <1>10

-----------------------------------------------------------------------------
(* A success that is read: the command was carried out, or what ended its  *)
(* wait was left behind.                                                   *)
LEMMA ReadEarns ==
    ASSUME LockInv, TextInv, TextInv', WhereInv, OwnInv, OrderInv, OrderInv', TaleInv, TaleInv', NEW t \in Tasks, Reads(t), Alone(t),
           NEW c, Found(t, "success", c), call[t] \notin Careless \cup Mute, Command(t).k \in GetKinds => StatusGood'
    PROVE  Earned(cmds)'
<1>1. /\ UNCHANGED <<cmds, out, good, inbox, call, step, http, mine, disturbed, parser>> /\ Awaits(t) /\ Open(t) /\ Working(t)
      /\ asserted = "none" /\ Current(t)' = Current(t) /\ Command(t)' = Command(t)
  BY ReadsLeave
<1>2. /\ Current(t) = cmds /\ cmds \in mine[t] /\ Fresh(t) /\ parser = Command(t).p
      /\ Fair => Story(Kind(t)) /\ Streams(t)
  BY <1>1, AloneTale DEF TextInv
<1>3. cmds # 0 /\ DOMAIN got = Cmds /\ cmds \in Cmds
  <2>1. cmds \in 1..cmds /\ cmds \in Nat /\ cmds <= MaxCmds
    BY <1>2 DEF TextInv, Numbers, OwnInv, Gotten
  <2> QED BY <2>1, ServicesAssumption DEF Cmds, OwnInv, Gotten
<1>4. Conclude(t, "success", c) /\ pc'[t] = "yield"
  BY ConcludeGoes DEF Found
<1>5. /\ got' = [got EXCEPT ![cmds] = CASE @ \in loose -> @
                                        [] @ \notin loose /\ c # NoCmd -> c
                                        [] @ \notin loose /\ c = NoCmd /\ Current(t) \notin answered -> Missed
                                        [] OTHER -> @]
      /\ loose \subseteq loose'
  BY <1>2, <1>3, <1>4 DEF Conclude, NoCmd
<1>6. CASE ~Fair
  <2>1. got'[cmds] = got[cmds] /\ got[cmds] \in loose
    BY <1>3, <1>5, <1>6 DEF Fair
  <2>2. got[cmds] # cmds
    BY <1>1, <1>2, <2>1 DEF Fresh
  <2> QED BY <1>1, <1>5, <2>1, <2>2 DEF Earned
<1>7. CASE Fair
  <2>1. Story(Kind(t)) /\ Streams(t)
    BY <1>2, <1>7
  <2>2. CASE Skipped(t, "success", c)
    <3>1. c = cmds /\ Done(cmds)
      BY <2>1, <2>2, DoneSkipped
    <3>2. got'[cmds] = cmds
      BY <1>3, <1>5, <1>7, <3>1 DEF Fair, NoCmd
    <3> QED BY <1>1, <3>1, <3>2 DEF Earned, Done
  <2>3. CASE Parsed("success", c)
    <3>1. Judges(parser)
      BY <1>1, <1>2, <2>3, CommandFit DEF Parsed
    <3>2. c # 0 /\ Texted(rawResponse', c)
      BY <1>1, <2>3, <3>1, FoundIs
    <3>3. got'[cmds] = c
      BY <1>3, <1>5, <1>7, <3>2 DEF Fair, NoCmd
    <3>4. CASE c = cmds
      <4>1. Parsed("success", cmds)
        BY <2>3, <3>4
      <4>2. Done(cmds)
        BY <1>2, <2>1, <4>1, DoneParsed
      <4> QED BY <1>1, <3>3, <3>4, <4>2 DEF Earned, Done
    <3>5. CASE c # cmds
      <4>1. Alone(t)' /\ Follows(t)'
        BY <1>1, <1>4 DEF Alone, Follows, Awaits
      <4>2. Clear'
        BY <4>1 DEF TaleInv, Tales, TaleOf
      <4>3. c \in loose'
        BY <1>1, <3>2, <3>5, <4>2 DEF Clear, Texted
      <4> QED BY <1>1, <3>3, <3>5, <4>3 DEF Earned
    <3> QED BY <3>4, <3>5
  <2> QED BY <2>2, <2>3 DEF Found, Nothing
<1> QED BY <1>6, <1>7

LEMMA EarnReads ==
    ASSUME LockInv, TextInv, TextInv', WhereInv, OwnInv, OrderInv, OrderInv', TaleInv, TaleInv', NEW t \in Tasks, Reads(t),
           EarnsOf(t), resultCode # "true"
    PROVE  EarnsOf(t)' /\ resultCode' # "true"
<1>1. /\ UNCHANGED <<cmds, out, good, inbox, call, step, http, mine, disturbed, parser, last>> /\ Open(t) /\ Working(t)
      /\ asserted = "none" /\ Current(t)' = Current(t) /\ Command(t)' = Command(t)
      /\ pc[t] \in {"read", "data", "stream"}
  BY ReadsLeave, ReadsGo
<1>2. \A c : Done(c)' <=> Done(c)
  BY <1>1 DEF Done
<1>3. mine[t] \subseteq DOMAIN got
  BY MineGot DEF TextInv
<1>4. CASE Stopped
  <2>1. pc'[t] = pc[t] /\ rslt'[t] = rslt[t] /\ UNCHANGED <<got, loose>>
    BY <1>4 DEF Stopped
  <2>2. EarnedOf(t)'
    <3> SUFFICES ASSUME ~disturbed[t], call[t] \notin Careless \cup Mute, NEW c \in mine[t], c # Current(t) PROVE Earned(c)'
      BY <1>1, <2>1 DEF EarnedOf, Won, Reports
    <3>1. Earned(c)
      BY DEF EarnsOf, EarnedOf
    <3> QED BY <1>2, <2>1, <3>1 DEF Earned
  <2> QED BY <1>1, <1>4, <2>1, <2>2 DEF EarnsOf, StatusEarned, GetsStatus, Carried, MuteOf, Reports, Stopped
<1>5. ASSUME NEW r, NEW c, Found(t, r, c) PROVE EarnsOf(t)' /\ resultCode' # "true"
  <2>1. Conclude(t, r, c) /\ pc'[t] = "yield" /\ rslt'[t] = r
    BY <1>5, ConcludeGoes DEF Found
  <2>2. r # "true"
    BY <1>5 DEF Found, Nothing, Parsed, Skipped, ResultOf
  <2>3. resultCode' # "true"
    BY <2>1, <2>2 DEF Conclude, Recorded
  <2>4. loose \subseteq loose' /\ \A d \in mine[t] : d # Current(t) => got'[d] = got[d]
    BY <1>3, <2>1 DEF Conclude
  <2>5. ASSUME Alone(t), r = "success", call[t] \notin Careless \cup Mute, Command(t).k \in GetKinds => StatusGood' PROVE Earned(cmds)'
    BY <1>5, <2>5, ReadEarns
  <2>6. Command(t).k \in GetKinds <=> call[t] = "http_get" /\ step[t] = Len(Script(t).cmds)
    <3>1. step[t] <= Len(Script(t).cmds)
      BY <1>1 DEF WhereInv, WhereOf
    <3>2. Honest(call[t], Script(t)) /\ step[t] \in 1..Len(Script(t).cmds)
      BY <3>1, ScriptAt
    <3> QED BY <3>2 DEF Honest, Command
  <2>7. EarnedOf(t)'
    <3> SUFFICES ASSUME ~disturbed[t], call[t] \notin Careless \cup Mute, NEW d \in mine[t], d # Current(t) \/ Won(t)' PROVE Earned(d)'
      BY <1>1, <2>1 DEF EarnedOf, Reports
    <3>1. CASE d # Current(t)
      <4>1. Earned(d)
        BY <3>1 DEF EarnsOf, EarnedOf
      <4> QED BY <1>2, <2>4, <3>1, <4>1, EarnedSame
    <3>2. CASE d = Current(t) /\ Won(t)'
      <4>1. Alone(t)
        BY DEF Alone
      <4>2. d = cmds
        BY <3>2, <4>1, AloneCurrent DEF TextInv
      <4>3. r = "success" /\ ~GetsStatus(t)'
        BY <2>1, <3>2 DEF Won
      <4>4. Command(t).k \notin GetKinds
        BY <1>1, <2>1, <2>6, <4>3 DEF GetsStatus
      <4> QED BY <1>1, <2>5, <4>1, <4>2, <4>3, <4>4
    <3> QED BY <3>1, <3>2
  <2>8. StatusEarned(t)'
    <3> SUFFICES ASSUME Alone(t), GetsStatus(t)', r = "success", StatusGood' PROVE Earned(cmds)'
      BY <1>1, <2>1 DEF StatusEarned, Alone
    <3>1. call[t] = "http_get"
      BY <1>1 DEF GetsStatus
    <3>2. call[t] \notin Careless \cup Mute
      BY <3>1 DEF Careless, Mute, Activating
    <3> QED BY <2>5, <3>2
  <2> QED BY <2>1, <2>2, <2>3, <2>7, <2>8 DEF EarnsOf, Carried, MuteOf, Reports
<1> QED BY <1>4, <1>5, ReadsFind

-----------------------------------------------------------------------------
(* Every step keeps what is reported earned. *)
LEMMA EarnCaller ==
    ASSUME LockInv, TextInv, TextInv', WhereInv, OwnInv, OrderInv, OrderInv', TaleInv, TaleInv', EarnInv, NEW t \in Tasks, Caller(t)
    PROVE  EarnInv'
<1>1. resultCode # "true" /\ \A u \in Tasks : EarnsOf(u)
  BY DEF EarnInv, EarnsOf
<1>2. EarnsOf(t)' /\ resultCode' # "true"
  <2>1. CASE Idles(t)
    <3>1. resultCode' = resultCode
      BY <2>1, IdlesStill DEF Still
    <3>2. EarnsOf(t)'
      BY <1>1, <2>1, EarnCall, EarnKnown, EarnWaiting, EarnAsserts, EarnRefused, EarnAwaited, EarnEnd DEF Idles
    <3> QED BY <1>1, <3>1, <3>2
  <2>2. CASE Sending(t)
    BY <1>1, <2>2, EarnSends
  <2>3. CASE AwaitAgain(t)
    BY <1>1, <2>3, EarnWaiting
  <2>4. CASE Reads(t)
    BY <1>1, <2>4, EarnReads
  <2>5. CASE EnterDataMode(t)
    BY <1>1, <2>5, EarnEnters
  <2>6. CASE Return(t)
    <3>1. resultCode' = resultCode
      BY <2>6 DEF Return, cmdVars
    <3> QED BY <1>1, <2>6, <3>1, EarnReturn DEF TextInv
  <2> QED BY <2>1, <2>2, <2>3, <2>4, <2>5, <2>6, CallerKinds
<1>3. \A u \in Tasks \ {t} : EarnsOf(u)'
  BY <1>1, EarnOther DEF TextInv
<1> QED BY <1>2, <1>3 DEF EarnInv, EarnsOf

LEMMA EarnInit == Init => EarnInv
<1> SUFFICES ASSUME Init PROVE EarnInv
  OBVIOUS
<1>1. resultCode = "none" /\ \A t \in Tasks : pc[t] = "idle" /\ rslt[t] = "none" /\ mine[t] = {} /\ step[t] = 1
  BY DEF Init
<1> QED BY <1>1 DEF EarnInv, EarnedOf, StatusEarned, GetsStatus, Carried, MuteOf, Reports

LEMMA EarnStep ==
    LockInv /\ TextInv /\ TextInv' /\ WhereInv /\ OwnInv /\ OrderInv /\ OrderInv' /\ TaleInv /\ TaleInv' /\ EarnInv /\ [Next]_vars => EarnInv'
<1> SUFFICES ASSUME LockInv, TextInv, TextInv', WhereInv, OwnInv, OrderInv, OrderInv', TaleInv, TaleInv', EarnInv, [Next]_vars
             PROVE  EarnInv'
  OBVIOUS
<1>1. CASE \E t \in Tasks : Caller(t)
  BY <1>1, EarnCaller
<1>2. CASE Serve \/ Emit \/ TakeData \/ Elapse \/ UNCHANGED vars
  <2>1. \A t \in Tasks : EarnsOf(t)'
    BY <1>2, EarnModule DEF EarnInv, EarnsOf
  <2>2. resultCode' = resultCode
    BY <1>2 DEF Serve, Emit, TakeData, Elapse, ModFrame, vars, cmdVars
  <2> QED BY <2>1, <2>2 DEF EarnInv, EarnsOf
<1> QED BY <1>1, <1>2 DEF Next

LEMMA EarnAlways == Spec => []EarnInv
<1>1. LockInv /\ TextInv /\ TextInv' /\ WhereInv /\ OwnInv /\ OrderInv /\ OrderInv' /\ TaleInv /\ TaleInv' /\ EarnInv /\ [Next]_vars => EarnInv'
  BY EarnStep
<1> QED BY <1>1, EarnInit, LockAlways, TextAlways, WhereAlways, OwnAlways, OrderAlways, TaleAlways, PTL DEF Spec

(* Theorem.  A call of the API that reports success did what it was called *)
(* for: each command of it was carried out by the module and answered by   *)
(* the response that atcmd_awaitResult() took for its result, or that      *)
(* result came of what an earlier command had left in the ring buffer, one *)
(* that failed or timed out, was shared, or has a parser that is satisfied *)
(* before its response ends.  It holds for any tasks and calls, whatever   *)
(* the module answers, when it answers, and in which pieces; sckt_open(),  *)
(* http_post() and file_closeAll(), which look at no error, and calls      *)
(* whose lock was taken or released by another are left out.               *)
THEOREM SuccessesEarned == Spec => []SuccessIsEarned
<1>1. EarnInv => SuccessIsEarned
  <2> SUFFICES ASSUME EarnInv, NEW t \in Tasks, Returns(t, {"sckt_open", "http_post", "file_closeAll"}), last \in {"success", "true"}, NEW c \in mine[t]
               PROVE  IF got[c] = c THEN c \in good ELSE got[c] \in loose
    BY DEF SuccessIsEarned
  <2>1. Reports(t) /\ ~disturbed[t] /\ call[t] \notin Careless
    BY DEF Returns, Reports, Wins, Careless
  <2>2. call[t] \notin Mute
    BY <2>1 DEF EarnInv, MuteOf
  <2>3. Earned(c)
    BY <2>1, <2>2 DEF EarnInv, EarnedOf
  <2> QED BY <2>3 DEF Earned, Done
<1> QED BY <1>1, EarnAlways, PTL
==============================================================================
