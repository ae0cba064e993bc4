-------------------------------- MODULE Mqtt --------------------------------
(***************************************************************************)
(* The MQTT client of LTEmC (ltemc-mqtt.c) with the background event       *)
(* manager of ltemc.c: the calls an application makes, the commands they   *)
(* send through the AT command layer, and the handler that takes the       *)
(* module's unsolicited result codes (URC) out of the same receive buffer  *)
(* in which the answers to the commands arrive.                            *)
(*                                                                         *)
(* One application calls; characters arrive at any time.  What arrives is  *)
(* cut in pieces: a line, or a part of a message.  mqtt_publish() is in    *)
(* module AtCmd.                                                           *)
(***************************************************************************)
EXTENDS Naturals, Sequences, SequencesExt

CONSTANTS
    Calls,      \* functions the application calls, a subset of AllCalls
    Topics,     \* topic controls of the application
    Matching,   \* <<t, u>>: the name of t is taken for that of u, the topic received
    Slots,      \* mqtt__topicsCnt
    MaxCalls,   \* bound on the calls
    MaxMsgs,    \* bound on the messages the server sends
    MaxDrops    \* bound on the connections the server drops

AllCalls == {"mqtt_start", "mqtt_open", "mqtt_connect", "mqtt_subscribeTopic", "mqtt_cancelTopic",
             "mqtt_close", "mqtt_reset", "mqtt_fetchStatus"}

NoTopic == "none"

ASSUME MqttAssumption ==
    /\ NoTopic \notin Topics
    /\ Calls \subseteq AllCalls
    /\ Matching \subseteq Topics \X Topics /\ \A t \in Topics : <<t, t>> \in Matching
    /\ Slots \in 1..254
    /\ MaxCalls \in Nat /\ MaxMsgs \in Nat /\ MaxDrops \in Nat

VARIABLES
    state, topics,          \* mqttCtrl_t
    registered,             \* the control is in g_lqLTEM.streams
    rxBffr, rawResponse,    \* pieces received, and those popped for the command
    pc, todo, msgId,        \* the running call: what is left of it, message in hand
    link, subs,             \* module: its connection, the server's subscriptions
    order, wire,            \* module: commands to answer, pieces on their way
    calls, msgTopic, drops, \* bounds; topics of the messages sent so far
    delivered, cancelled, split, unnoticed, late   \* history

ctrlVars   == <<state, topics, registered>>
rxVars     == <<rxBffr, rawResponse>>
callVars   == <<pc, todo, msgId>>
moduleVars == <<link, subs, order, wire, msgTopic, drops>>
histVars   == <<delivered, cancelled, split, unnoticed, late>>
vars == <<ctrlVars, rxVars, callVars, moduleVars, calls, histVars>>

-----------------------------------------------------------------------------
(* Pieces, with their lengths in characters: the code looks at those.  A   *)
(* message is RECV (header up to the topic), DELIM, BODY, QUOTE and EOL.   *)
Length == [OK |-> 6, ERROR |-> 9, QMTOPEN |-> 17, QMTCONN |-> 19, QMTSUB |-> 19, QMTSTATE |-> 17,
           QMTCLOSE |-> 18, QMTSTAT |-> 17, RECV |-> 18, DELIM |-> 3, BODY |-> 12, QUOTE |-> 1, EOL |-> 2]
Kinds  == DOMAIN Length
Chars(s) == FoldLeft(LAMBDA n, p : n + Length[p.kind], 0, s)

Piece(k, n) == [kind |-> k, n |-> n]    \* n: message or result, 0 when it has none
Message(id) == <<Piece("RECV", id), Piece("DELIM", id), Piece("BODY", id),
                 Piece("QUOTE", id), Piece("EOL", id)>>

Has(s, k)   == \E i \in DOMAIN s : s[i].kind = k
FirstOf(s, K) == {i \in DOMAIN s : s[i].kind \in K /\ \A j \in 1..(i - 1) : s[j].kind \notin K}
After(s, i) == SubSeq(s, i + 1, Len(s))

Do(w, t) == [do |-> w, topic |-> t]
Simple(ws) == [i \in DOMAIN ws |-> Do(ws[i], NoTopic)]

Rank(l) == CASE l = "closed" -> 0 [] l = "open" -> 1 [] l = "connected" -> 2

(* Before its first call the application may have filled the table in any  *)
(* way that subscribe and cancel, not connected, leave it.                 *)
Tables == {f \in [1..Slots -> Topics \cup {NoTopic}] :
              \A i, j \in 1..Slots : f[i] = f[j] /\ f[i] # NoTopic => i = j}

Init ==
    /\ state = "closed" /\ topics \in Tables /\ registered = FALSE
    /\ rxBffr = <<>> /\ rawResponse = <<>>
    /\ pc = "idle" /\ todo = <<>> /\ msgId = 0
    /\ link = "closed" /\ subs = {} /\ order = <<>> /\ wire = <<>>
    /\ calls = 0 /\ msgTopic = <<>> /\ drops = 0
    /\ delivered = <<>> /\ cancelled = {} /\ split = FALSE /\ unnoticed = FALSE /\ late = FALSE

-----------------------------------------------------------------------------
(* S__findtopicIndx(): the slot of the topic, else the first empty one,    *)
(* else none.  Mutants: it stops at the first slot that would do; names    *)
(* are the same if the shorter one begins the other.                       *)
FirstSlots(T)    == {i \in 1..Slots : topics[i] \in T /\ \A j \in 1..(i - 1) : topics[j] \notin T}
TakenFor(t)      == {u \in Topics : <<u, t>> \in Matching}
SlotOrEmpty(t)   == FirstSlots({t, NoTopic})
SlotByPrefix(t)  == IF FirstSlots(TakenFor(t)) # {} THEN FirstSlots(TakenFor(t)) ELSE FirstSlots({NoTopic})
FindTopicIndx(t) == IF t \in Range(topics) THEN FirstSlots({t}) ELSE FirstSlots({NoTopic})

Enter(c) == c \in Calls /\ pc = "idle" /\ calls < MaxCalls /\ calls' = calls + 1

(* Begin the rest of a call. *)
Begin(work) == todo' = work /\ pc' = IF work = <<>> THEN "idle" ELSE "next"

(* Calls whose work depends on nothing but the call.  mqtt_reset() closes  *)
(* and starts again; its resetModem is not modelled.                       *)
Script(c) == CASE c = "mqtt_start"       -> <<"start">>
               [] c = "mqtt_open"        -> <<"open">>
               [] c = "mqtt_connect"     -> <<"connect">>
               [] c = "mqtt_close"       -> <<"close">>
               [] c = "mqtt_reset"       -> <<"close", "start">>
               [] c = "mqtt_fetchStatus" -> <<"STATE">>

Call(c) ==
    /\ Enter(c) /\ c \notin {"mqtt_subscribeTopic", "mqtt_cancelTopic"}
    /\ Begin(Simple(Script(c)))
    /\ UNCHANGED <<ctrlVars, rxVars, msgId, moduleVars, histVars>>

(* The server hears of it only if the state is connected. *)
SubscribeTopic(t) ==
    /\ Enter("mqtt_subscribeTopic")
    /\ LET found == FindTopicIndx(t)
       IN  /\ topics' = [i \in 1..Slots |-> IF i \in found THEN t ELSE topics[i]]
           /\ Begin(IF found # {} /\ state = "connected" THEN <<Do("SUB", t)>> ELSE <<>>)
           /\ cancelled' = IF found # {} THEN cancelled \ {t} ELSE cancelled
    /\ UNCHANGED <<state, registered, rxVars, msgId, moduleVars, delivered, split, unnoticed, late>>

(* The index of the slot is passed on as if it were the topic control, so  *)
(* that the topic named to the server is none of the application's.        *)
CancelTopic(t) ==
    /\ Enter("mqtt_cancelTopic")
    /\ LET found == FindTopicIndx(t)
       IN  /\ topics' = [i \in 1..Slots |-> IF i \in found THEN NoTopic ELSE topics[i]]
           /\ Begin(IF found # {} /\ state = "connected" THEN <<Do("UNS", NoTopic)>> ELSE <<>>)
    /\ cancelled' = cancelled \cup {t}
    /\ UNCHANGED <<state, registered, rxVars, msgId, moduleVars, delivered, split, unnoticed, late>>

-----------------------------------------------------------------------------
(* The body of a call, one stage at a time: a stage becomes the commands   *)
(* it needs in the state it finds.                                         *)

FirstTopic == {topics[i] : i \in FirstSlots(Topics)}

Expand(w) ==
    CASE w = "start"   -> {Simple(<<"open", "connect", "subscribe">>)}
      [] w = "open"    -> {Simple(IF state = "closed" THEN <<"CFG", "OPEN">> ELSE <<>>)}
      [] w = "connect" -> {Simple(IF state # "connected" THEN <<"CFG", "CONN">> ELSE <<>>)}
      [] w = "close"   -> {Simple(IF state # "closed" THEN <<"CLOSE">> ELSE <<>>)}
      [] w = "subscribe" -> IF FirstTopic = {} THEN {<<>>} ELSE {<<Do("SUB", t)>> : t \in FirstTopic}

Stages   == {"start", "open", "connect", "close", "subscribe"}
Commands == {"CFG", "OPEN", "CONN", "SUB", "UNS", "CLOSE", "STATE"}

(* mqtt_start() adds the stream first: ltem_addStream() asserts that it is *)
(* not there.  It is never deleted.                                        *)
Stage ==
    /\ pc = "next" /\ Head(todo).do \in Stages
    /\ Head(todo).do = "start" => ~registered
    /\ registered' = (registered \/ Head(todo).do = "start")
    /\ \E work \in Expand(Head(todo).do) : Begin(work \o Tail(todo))
    /\ UNCHANGED <<state, topics, rxVars, msgId, moduleVars, calls, histVars>>

AddStreamAssert ==
    /\ pc = "next" /\ Head(todo).do = "start" /\ registered
    /\ pc' = "halt"
    /\ UNCHANGED <<ctrlVars, rxVars, todo, msgId, moduleVars, calls, histVars>>

(* Answers to commands that were given up are still to come. *)
Late == \/ order # <<>>
        \/ \E k \in {"OK", "ERROR", "QMTOPEN", "QMTCONN", "QMTSTATE"} : Has(rxBffr \o wire, k)

(* atcmd_tryInvoke(): the response is cleared, the received text is not.   *)
Invoke ==
    /\ pc = "next" /\ Head(todo).do \in Commands
    /\ rawResponse' = <<>>
    /\ order' = Append(order, Head(todo))
    /\ pc' = "events"
    /\ late' = Late
    /\ UNCHANGED <<ctrlVars, rxBffr, todo, msgId, link, subs, wire, msgTopic, drops, calls,
                   delivered, cancelled, split, unnoticed>>

-----------------------------------------------------------------------------
(* ltem_eventMgr(): called by the application's loop, and by               *)
(* S__readResult() before it looks for an answer.  Only a stream that is   *)
(* registered is offered what was received.                                *)

Here == pc \in {"idle", "events"}
Resume == IF todo = <<>> THEN "idle" ELSE "read"

(* A URC in s went where the handler does not see it. *)
Miss(s) == unnoticed' = (unnoticed \/ Has(s, "QMTSTAT"))

HasUrc == /\ registered
          /\ \E i \in DOMAIN rxBffr : rxBffr[i].kind \notin {"OK", "ERROR", "DELIM", "BODY", "QUOTE", "EOL"}
          /\ Chars(rxBffr) >= 20

RecvAt == IF HasUrc THEN FirstOf(rxBffr, {"RECV"}) ELSE {}

(* +QMTSTAT is looked for in the first 20 characters, and not if there is  *)
(* a message in the buffer.                                                *)
StatAt == IF HasUrc /\ RecvAt = {}
          THEN {i \in FirstOf(rxBffr, {"QMTSTAT"}) : Chars(SubSeq(rxBffr, 1, i - 1)) <= 10}
          ELSE {}

NoEvent ==
    /\ pc = "events" /\ RecvAt = {} /\ StatAt = {}
    /\ pc' = Resume
    /\ UNCHANGED <<ctrlVars, rxVars, todo, msgId, moduleVars, calls, histVars>>

(* The table is searched in order for the topic received.  A slot that is  *)
(* empty is read through a NULL pointer: it does not match, or it does and *)
(* the call through it is lost.                                            *)
Received(i)   == msgTopic[rxBffr[i].n]
TopicFound(i) == FirstSlots(TakenFor(Received(i)))
NullSlot(i)   == \E j \in 1..Slots : /\ topics[j] = NoTopic
                                     /\ \A k \in TopicFound(i) : j < k

(* All text before the header of the message is gone; so is the header, if *)
(* it is complete, and the application is given the topic.                 *)
RecvHeader ==
    /\ Here
    /\ \E i \in RecvAt :
        /\ Miss(SubSeq(rxBffr, 1, i - 1))
        /\ \/ /\ i = Len(rxBffr)                     \* the delimiter is still to come
              /\ rxBffr' = After(rxBffr, i - 1)
              /\ pc' = Resume /\ UNCHANGED msgId
           \/ /\ i < Len(rxBffr) /\ TopicFound(i) # {}
              /\ rxBffr' = After(rxBffr, i + 1)
              /\ pc' = "msg" /\ msgId' = rxBffr[i].n
           \/ /\ i < Len(rxBffr) /\ (TopicFound(i) = {} \/ NullSlot(i))
              /\ rxBffr' = After(rxBffr, i + 1)
              /\ pc' = "halt" /\ msgId' = rxBffr[i].n
    /\ UNCHANGED <<ctrlVars, rawResponse, todo, moduleVars, calls, delivered, cancelled, split, late>>

(* Where the end of a message is in a block, if all of it is there.        *)
(* Mutant: it must be what the block ends with.                            *)
EomAsEnd(b) == {i \in 1..(Len(b) - 1) : b[i].kind = "QUOTE" /\ b[i + 1].kind = "EOL" /\ i + 1 = Len(b)}
EomAt(b)    == {i \in 1..(Len(b) - 1) : b[i].kind = "QUOTE" /\ b[i + 1].kind = "EOL"}
FirstEom(b) == {i \in EomAt(b) : \A j \in EomAt(b) : i <= j}

(* The body is handed on block by block, each a part of what has arrived;  *)
(* what follows the end of the message in its block goes with it.          *)
MsgBlock ==
    /\ pc = "msg" /\ rxBffr # <<>>
    /\ \E n \in 1..Len(rxBffr) :
        LET block == SubSeq(rxBffr, 1, n)
        IN  /\ rxBffr' = After(rxBffr, n)
            /\ Miss(block)
            /\ \/ \E i \in FirstEom(block) :
                     /\ delivered' = Append(delivered, [msg |-> msgId, end |-> block[i].n])
                     /\ pc' = Resume /\ msgId' = 0
                     /\ UNCHANGED split
               \/ /\ FirstEom(block) = {}
                  /\ split' = (split \/ block[n].kind = "QUOTE")
                  /\ UNCHANGED <<delivered, pc, msgId>>
    /\ UNCHANGED <<ctrlVars, rawResponse, todo, moduleVars, calls, cancelled, late>>

(* The status change.  The handler then looks for "+QMSTAT", which is not  *)
(* there, and parses what lies at a small address: the context it reads    *)
(* there is this stream's or the assertion that it is a stream's fails.    *)
(* The line end is left in the buffer.  Mutant: the state is not set.      *)
StatIgnored == state
StatState   == "closed"

StatEvent ==
    /\ Here
    /\ \E i \in StatAt : rxBffr' = <<Piece("EOL", 0)>> \o After(rxBffr, i)
    /\ \/ state' = StatState /\ pc' = Resume
       \/ pc' = "halt" /\ UNCHANGED state
    /\ UNCHANGED <<topics, registered, rawResponse, todo, msgId, moduleVars, calls, histVars>>

-----------------------------------------------------------------------------
(* The result of the command: S__readResult() with the parser of the       *)
(* command, and what its function does with the value.                     *)

(* A result that must come with a preamble is given up as soon as more     *)
(* was received than the preamble is long.                                 *)
Required(s, k, len) ==
    IF Has(s, k) THEN {s[i] : i \in FirstOf(s, {k})}
    ELSE IF Chars(s) >= len THEN {Piece("failed", 0)} ELSE {}

(* +QMTCONN begins the result of a connect and that of a query, which has  *)
(* one token less; the query waits for the OK after it, and never finds a  *)
(* result in an OK alone.                                                  *)
ConnPieces(s) == FirstOf(s, {"QMTCONN", "QMTSTATE"})

(* The piece that decides command w, if s has it: none is "pending".       *)
Parse(w, s) ==
    IF Has(s, "ERROR") THEN {Piece("failed", 0)} ELSE
    CASE w \in {"CFG", "UNS", "CLOSE"} -> {s[i] : i \in FirstOf(s, {"OK"})}
      [] w = "OPEN"  -> Required(s, "QMTOPEN", 10)
      [] w = "SUB"   -> Required(s, "QMTSUB", 9)
      [] w = "CONN"  -> IF ConnPieces(s) = {} THEN Required(s, "QMTCONN", 10)
                        ELSE {IF s[i].kind = "QMTCONN" THEN s[i] ELSE Piece("failed", 0) : i \in ConnPieces(s)}
      [] w = "STATE" -> {s[i] : i \in {j \in ConnPieces(s) : Has(After(s, j), "OK")}}

(* mqtt_open() and mqtt_fetchStatus() keep the state they learn; nothing   *)
(* else does.  Mutant: "initializing" is reported as mqttState_pending.    *)
StatusPending(n) == IF n = 3 THEN "connected" ELSE "pending"
Status(n)        == IF n = 3 THEN "connected" ELSE "open"
Learns(w, p) ==
    IF p = Piece("QMTOPEN", 0) /\ w = "OPEN" THEN "open"
    ELSE IF p.kind = "QMTSTATE" /\ w = "STATE" THEN Status(p.n) ELSE state

(* The rest of the call is done if the command succeeded with result 0, or *)
(* was the close of a reset.                                               *)
Goes(w, p) == w = "CLOSE" \/ (p.kind # "failed" /\ (w \in {"OPEN", "CONN"} => p.n = 0))

(* The command's time may be up.  Mutant: not once a response has begun.   *)
TimeoutOnSilence(s) == s = <<>>
TimeoutAllowed(s)   == TRUE

ReadResult ==
    /\ pc = "read"
    /\ rawResponse' = rawResponse \o rxBffr
    /\ rxBffr' = <<>>
    /\ LET w      == Head(todo).do
           parsed == IF rxBffr = <<>> THEN {} ELSE Parse(w, rawResponse')
       IN  \/ \E p \in parsed : /\ state' = Learns(w, p)
                                /\ Begin(IF Goes(w, p) THEN Tail(todo) ELSE <<>>)
           \/ /\ parsed = {} /\ TimeoutAllowed(rawResponse')
              /\ Begin(IF w = "CLOSE" THEN Tail(todo) ELSE <<>>)
              /\ UNCHANGED state
           \/ parsed = {} /\ pc' = "events" /\ UNCHANGED <<state, todo>>
    /\ unnoticed' = (unnoticed \/ Has(rxBffr, "QMTSTAT") \/ (late /\ state' # state))
    /\ UNCHANGED <<topics, registered, msgId, moduleVars, calls, delivered, cancelled, split, late>>

-----------------------------------------------------------------------------
(* The module and the server.                                              *)

Arrive ==
    /\ wire # <<>>
    /\ rxBffr' = Append(rxBffr, Head(wire))
    /\ wire' = Tail(wire)
    /\ UNCHANGED <<ctrlVars, rawResponse, callVars, link, subs, order, msgTopic, drops, calls, histVars>>

Emit(pieces) == wire' = pieces
Line(k, n)   == Emit(<<Piece(k, n)>>)
Links(l, s)  == link' = l /\ subs' = s

Ok(becomes)  == Line("OK", 0) /\ order' = becomes \o Tail(order)
Refuse       == Line("ERROR", 0) /\ order' = Tail(order) /\ UNCHANGED <<link, subs>>

(* The module works on one command at a time.  A later result is a stage   *)
(* of its own, and URCs may come between.                                  *)
Answer ==
    /\ order # <<>> /\ wire = <<>>
    /\ LET c        == Head(order)
           later(w) == <<[c EXCEPT !.do = w]>>
           done     == order' = Tail(order)
           same     == UNCHANGED <<link, subs>>
       IN  \/ c.do \in {"CFG", "UNS"} /\ same /\ Ok(<<>>)
           \/ c.do \in {"CFG", "OPEN", "CONN", "SUB", "UNS"} /\ Refuse
           \/ c.do = "OPEN" /\ same /\ Ok(later("opening"))
           \/ c.do = "opening" /\ link = "closed" /\ done /\ Links("open", {}) /\ Line("QMTOPEN", 0)
           \/ c.do = "opening" /\ link = "closed" /\ done /\ same /\ Line("QMTOPEN", 3)
           \/ c.do = "opening" /\ link # "closed" /\ done /\ same /\ Line("QMTOPEN", 2)
           \/ c.do = "CONN" /\ link = "open" /\ same /\ Ok(later("connecting"))
           \/ c.do = "connecting" /\ link = "open" /\ done /\ Links("connected", {}) /\ Line("QMTCONN", 0)
           \/ c.do = "connecting" /\ link = "open" /\ done /\ same /\ Line("QMTCONN", 5)
           \/ c.do = "SUB" /\ link = "connected" /\ same /\ Ok(later("subscribing"))
           \/ /\ c.do = "subscribing" /\ link = "connected" /\ done
              /\ Links(link, subs \cup {c.topic}) /\ Line("QMTSUB", 0)
           \/ c.do \in {"connecting", "subscribing"} /\ link = "closed" /\ done /\ same /\ Emit(<<>>)
           \/ c.do = "CLOSE" /\ link # "closed" /\ Links("closed", {}) /\ Ok(later("closing"))
           \/ c.do = "CLOSE" /\ link = "closed" /\ Refuse
           \/ c.do = "closing" /\ done /\ same /\ Line("QMTCLOSE", 0)
           \/ c.do = "STATE" /\ link = "closed" /\ same /\ Ok(<<>>)
           \/ /\ c.do = "STATE" /\ link # "closed" /\ done /\ same
              /\ Emit(<<Piece("QMTSTATE", IF link = "open" THEN 1 ELSE 3), Piece("OK", 0)>>)
       /\ unnoticed' = IF link = "closed" /\ link' # "closed" /\ Rank(state) <= Rank(link') THEN FALSE
                       ELSE unnoticed \/ c.do = "CLOSE"
    /\ UNCHANGED <<ctrlVars, rxVars, callVars, msgTopic, drops, calls, delivered, cancelled, split, late>>

(* The server sends a message on a topic subscribed to. *)
ServerSends(t) ==
    /\ wire = <<>> /\ link = "connected" /\ t \in subs /\ Len(msgTopic) < MaxMsgs
    /\ msgTopic' = Append(msgTopic, t)
    /\ Emit(Message(Len(msgTopic) + 1))
    /\ UNCHANGED <<ctrlVars, rxVars, callVars, link, subs, order, drops, calls, histVars>>

(* The connection is lost, and the module says so. *)
ServerDrops ==
    /\ wire = <<>> /\ link # "closed" /\ drops < MaxDrops
    /\ drops' = drops + 1
    /\ Links("closed", {})
    /\ Line("QMTSTAT", 0)
    /\ UNCHANGED <<ctrlVars, rxVars, callVars, order, msgTopic, calls, histVars>>

-----------------------------------------------------------------------------
Application == \/ \E c \in Calls : Call(c)
               \/ \E t \in Topics : SubscribeTopic(t) \/ CancelTopic(t)
Program == Stage \/ AddStreamAssert \/ Invoke \/ NoEvent \/ RecvHeader \/ MsgBlock \/ StatEvent \/ ReadResult
Server  == Answer \/ ServerDrops \/ \E t \in Topics : ServerSends(t)

Next == Application \/ Program \/ Arrive \/ Server

Spec == Init /\ [][Next]_vars

(* The processor runs the library, what the module sends arrives, and a    *)
(* command does not outlive its timeout.                                   *)
Fairness == /\ WF_vars(Program)
            /\ WF_vars(Arrive)
            /\ SF_vars(ReadResult /\ pc' # "events")

LiveSpec == Spec /\ Fairness

-----------------------------------------------------------------------------
Pieces == [kind : Kinds, n : 0..(MaxMsgs + 5)]
Works  == [do : Stages \cup Commands \cup {"opening", "connecting", "subscribing", "closing"},
           topic : Topics \cup {NoTopic}]

(* Every variable has its type: of the states of mqttState_t only three    *)
(* are ever set, and a message is in hand only while its body is being     *)
(* received (or its topic was not found).                                  *)
TypeOK ==
    /\ state \in {"closed", "open", "connected"} /\ link \in {"closed", "open", "connected"}
    /\ topics \in [1..Slots -> Topics \cup {NoTopic}] /\ registered \in BOOLEAN
    /\ rxBffr \in Seq(Pieces) /\ rawResponse \in Seq(Pieces) /\ wire \in Seq(Pieces)
    /\ pc \in {"idle", "next", "events", "read", "msg", "halt"}
    /\ todo \in Seq(Works) /\ order \in Seq(Works)
    /\ msgId \in 0..Len(msgTopic) /\ (pc = "msg" => msgId # 0) /\ (msgId # 0 => pc \in {"msg", "halt"})
    /\ subs \subseteq Topics /\ cancelled \subseteq Topics
    /\ calls \in 0..MaxCalls /\ drops \in 0..MaxDrops /\ msgTopic \in Seq(Topics)
    /\ delivered \in Seq([msg : 1..Len(msgTopic), end : 1..Len(msgTopic)]) /\ split \in BOOLEAN
    /\ unnoticed \in BOOLEAN /\ late \in BOOLEAN

(* The application is given each message at most once, in the order of     *)
(* the server, and what ends a message is its own end: however the handler *)
(* is entered while commands run, and whatever follows in the buffer.      *)
(* Only a message whose end was cut in two by a block takes in the next.   *)
EndsItself ==
    \A i \in 1..Len(delivered) :
        /\ delivered[i].end = delivered[i].msg \/ split
        /\ i > 1 => delivered[i - 1].end < delivered[i].msg

(* A topic is in the table at most once, after any calls of subscribe and  *)
(* cancel: a cancel of it stops its callback for good.                     *)
TopicOnce ==
    \A i, j \in 1..Slots : topics[i] = topics[j] /\ topics[i] # NoTopic => i = j

(* The server sends only what the table can place: every subscription of   *)
(* the server's is of a topic in the table, unless the application has     *)
(* cancelled it (the server never learns of that).  The assertion that the *)
(* topic of a message is found rests on this.                              *)
SubscribedIsKnown == subs \subseteq Range(topics) \cup cancelled

(* The state the application is told is not ahead of the module's, unless  *)
(* the news of the loss is under way, went where the handler does not look *)
(* (into a response or a message, or before one), or the application       *)
(* closed: mqtt_close() does not set the state.                            *)
StateNotAhead ==
    Rank(state) > Rank(link) => Has(wire, "QMTSTAT") \/ Has(rxBffr, "QMTSTAT") \/ unnoticed \/ pc = "halt"

(* "Disconnect and close a connection": when the module has answered a     *)
(* close, or a query, and its connection is closed, the state is closed as *)
(* well ("MQTT is idle, not active").                                      *)
ClosedIsRecorded ==
    [][/\ pc = "read" /\ pc' = "idle" /\ Head(todo).do \in {"CLOSE", "STATE"} /\ link = "closed"
       /\ ~late /\ Has(rawResponse', "OK") /\ ~Has(rawResponse', "QMTSTATE")
       => state' = "closed"]_vars

(* Every call returns, and so does the handler of a message: unless an     *)
(* assertion fails, or the end of a message was cut in two by a block.     *)
CallReturns == pc \notin {"idle", "halt"} ~> pc \in {"idle", "halt"} \/ split
=============================================================================
