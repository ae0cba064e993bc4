----------------------------- MODULE MqttProofs -----------------------------
(***************************************************************************)
(* Theorems about Mqtt: the types, the topic table and what the server     *)
(* knows of it, the messages the application is given, and the state it is *)
(* told, for every set of topics, number of slots and bounds.              *)
(***************************************************************************)
EXTENDS Mqtt, SequenceTheorems, WellFoundedInduction, TLAPS

-----------------------------------------------------------------------------
(* The topic table. *)
TableInv == topics \in [1..Slots -> Topics \cup {NoTopic}]

LEMMA FindFacts ==
    ASSUME TableInv, NEW t \in Topics
    PROVE  /\ FindTopicIndx(t) \subseteq 1..Slots
           /\ \A i, j \in FindTopicIndx(t) : i = j
           /\ \A i \in FindTopicIndx(t) :
                 \/ topics[i] = t
                 \/ topics[i] = NoTopic /\ \A j \in 1..Slots : topics[j] # t
<1>1. Slots \in Nat
  BY MqttAssumption
<1>2. ASSUME NEW T PROVE /\ FirstSlots(T) \subseteq 1..Slots
                         /\ \A i, j \in FirstSlots(T) : i = j
                         /\ \A i \in FirstSlots(T) : topics[i] \in T
  <2>1. FirstSlots(T) \subseteq 1..Slots /\ \A i \in FirstSlots(T) : topics[i] \in T
    BY DEF FirstSlots
  <2>2. ASSUME NEW i \in FirstSlots(T), NEW j \in FirstSlots(T), i < j PROVE FALSE
    <3>1. i \in 1..(j - 1)
      BY <1>1, <2>1, <2>2
    <3> QED BY <3>1, <2>1 DEF FirstSlots
  <2>3. ASSUME NEW i \in FirstSlots(T), NEW j \in FirstSlots(T) PROVE i = j
    <3>1. i \in Int /\ j \in Int
      BY <1>1, <2>1
    <3> QED BY <3>1, <2>2
  <2> QED BY <2>1, <2>3
<1>3. CASE t \in Range(topics)
  <2>1. FindTopicIndx(t) = FirstSlots({t})
    BY <1>3 DEF FindTopicIndx
  <2>2. /\ FirstSlots({t}) \subseteq 1..Slots
        /\ \A i, j \in FirstSlots({t}) : i = j
        /\ \A i \in FirstSlots({t}) : topics[i] \in {t}
    BY <1>2
  <2> QED BY <2>1, <2>2
<1>4. CASE t \notin Range(topics)
  <2>1. FindTopicIndx(t) = FirstSlots({NoTopic})
    BY <1>4 DEF FindTopicIndx
  <2>2. \A j \in 1..Slots : topics[j] # t
    BY <1>4 DEF Range, TableInv
  <2>3. /\ FirstSlots({NoTopic}) \subseteq 1..Slots
        /\ \A i, j \in FirstSlots({NoTopic}) : i = j
        /\ \A i \in FirstSlots({NoTopic}) : topics[i] \in {NoTopic}
    BY <1>2
  <2> QED BY <2>1, <2>2, <2>3
<1> QED BY <1>3, <1>4

LEMMA TableStep ==
    ASSUME TableInv, TopicOnce, [Next]_vars
    PROVE  TableInv' /\ TopicOnce'
<1>1. CASE UNCHANGED topics
  BY <1>1 DEF TableInv, TopicOnce
<1>2. ASSUME NEW t \in Topics, SubscribeTopic(t) PROVE TableInv' /\ TopicOnce'
  <2> DEFINE found == FindTopicIndx(t)
  <2>1. topics' = [i \in 1..Slots |-> IF i \in found THEN t ELSE topics[i]]
    BY <1>2 DEF SubscribeTopic
  <2>2. /\ \A i, j \in found : i = j
        /\ \A i \in found : topics[i] = t \/ (topics[i] = NoTopic /\ \A j \in 1..Slots : topics[j] # t)
    BY FindFacts
  <2> HIDE DEF found
  <2>3. TableInv'
    BY <2>1 DEF TableInv
  <2>4. ASSUME NEW i \in 1..Slots, NEW j \in 1..Slots, topics'[i] = topics'[j], topics'[i] # NoTopic
        PROVE  i = j
    BY <2>1, <2>2, <2>4 DEF TopicOnce
  <2> QED BY <2>3, <2>4 DEF TopicOnce
<1>3. ASSUME NEW t \in Topics, CancelTopic(t) PROVE TableInv' /\ TopicOnce'
  <2> DEFINE found == FindTopicIndx(t)
  <2>1. topics' = [i \in 1..Slots |-> IF i \in found THEN NoTopic ELSE topics[i]]
    BY <1>3 DEF CancelTopic
  <2> HIDE DEF found
  <2> QED BY <2>1 DEF TableInv, TopicOnce
<1>4. CASE Program
  BY <1>4, <1>1 DEF Program, Stage, AddStreamAssert, Invoke, NoEvent, RecvHeader, MsgBlock, StatEvent, ReadResult, ctrlVars
<1>5. CASE Arrive \/ Server
  BY <1>5, <1>1 DEF Arrive, Server, Answer, ServerDrops, ServerSends, ctrlVars
<1>6. CASE \E c \in Calls : Call(c)
  BY <1>6, <1>1 DEF Call, ctrlVars
<1>7. CASE UNCHANGED vars
  BY <1>7, <1>1 DEF vars, ctrlVars
<1> QED BY <1>2, <1>3, <1>4, <1>5, <1>6, <1>7 DEF Next, Application

LEMMA TableInit == Init => TableInv /\ TopicOnce
BY DEF Init, Tables, TableInv, TopicOnce

(* Theorem 1.  A topic is in the table at most once, after any calls of    *)
(* mqtt_subscribeTopic() and mqtt_cancelTopic(), for every number of slots *)
(* and topics: S__findtopicIndx() looks for the topic in the whole table   *)
(* before it takes an empty slot.                                          *)
THEOREM TopicsUnique == Spec => []TopicOnce
<1>1. Init => TableInv /\ TopicOnce
  BY TableInit
<1>2. (TableInv /\ TopicOnce) /\ [Next]_vars => (TableInv /\ TopicOnce)'
  BY TableStep
<1>3. QED BY <1>1, <1>2, PTL DEF Spec

-----------------------------------------------------------------------------
(* Sequences. *)
LEMMA KindsAre == Kinds = {"OK", "ERROR", "QMTOPEN", "QMTCONN", "QMTSUB", "QMTSTATE", "QMTCLOSE", "QMTSTAT",
                           "RECV", "DELIM", "BODY", "QUOTE", "EOL"}
BY DEF Kinds, Length

LEMMA AfterFacts ==
    ASSUME NEW S, NEW s \in Seq(S), NEW n \in 0..Len(s)
    PROVE  /\ After(s, n) \in Seq(S) /\ Len(After(s, n)) = Len(s) - n
           /\ \A i \in 1..(Len(s) - n) : After(s, n)[i] = s[i + n]
<1>1. CASE n = Len(s)
  <2>1. After(s, n) = <<>>
    BY <1>1 DEF After
  <2> QED BY <1>1, <2>1
<1>2. CASE n < Len(s)
  <2>1. n + 1 \in 1..Len(s) /\ Len(s) \in (n + 1)..Len(s)
    BY <1>2
  <2> QED BY <2>1 DEF After
<1> QED BY <1>1, <1>2

LEMMA PrefixFacts ==
    ASSUME NEW S, NEW s \in Seq(S), NEW n \in 0..Len(s)
    PROVE  /\ SubSeq(s, 1, n) \in Seq(S) /\ Len(SubSeq(s, 1, n)) = n
           /\ \A i \in 1..n : SubSeq(s, 1, n)[i] = s[i]
OBVIOUS

LEMMA JoinFacts ==
    ASSUME NEW S, NEW s \in Seq(S), NEW t \in Seq(S)
    PROVE  /\ s \o t \in Seq(S) /\ Len(s \o t) = Len(s) + Len(t)
           /\ \A i \in 1..Len(s) : (s \o t)[i] = s[i]
           /\ \A i \in 1..Len(t) : (s \o t)[i + Len(s)] = t[i]
<1>1. \A i \in 1..Len(t) : (i + Len(s)) \in 1..(Len(s) + Len(t)) /\ ~(i + Len(s) <= Len(s)) /\ (i + Len(s)) - Len(s) = i
  OBVIOUS
<1> QED BY <1>1, ConcatProperties

LEMMA LeadFacts ==
    ASSUME NEW S, NEW p \in S, NEW t \in Seq(S)
    PROVE  /\ <<p>> \o t \in Seq(S) /\ Len(<<p>> \o t) = 1 + Len(t) /\ (<<p>> \o t)[1] = p
           /\ \A i \in 1..Len(t) : (<<p>> \o t)[i + 1] = t[i]
<1>1. <<p>> \in Seq(S) /\ Len(<<p>>) = 1 /\ <<p>>[1] = p
  OBVIOUS
<1>2. /\ <<p>> \o t \in Seq(S) /\ Len(<<p>> \o t) = Len(<<p>>) + Len(t)
      /\ \A i \in 1..Len(<<p>>) : (<<p>> \o t)[i] = <<p>>[i]
      /\ \A i \in 1..Len(t) : (<<p>> \o t)[i + Len(<<p>>)] = t[i]
  BY <1>1, JoinFacts
<1> QED BY <1>1, <1>2

-----------------------------------------------------------------------------
(* What is on its way to the program: what was received, then the wire.    *)
(* Messages in it are whole, but for the front of the first; only an EOL   *)
(* follows a QUOTE; and their numbers grow.                                *)
Stream == rxBffr \o wire
Top    == Len(msgTopic)

RecvWhole(s) ==
    \A i \in 1..Len(s) : s[i].kind = "RECV" =>
        /\ i + 4 <= Len(s)
        /\ s[i + 1].kind = "DELIM" /\ s[i + 2].kind = "BODY"
        /\ s[i + 3].kind = "QUOTE" /\ s[i + 3].n = s[i].n
QuoteEnds(s) == \A i \in 1..Len(s) : s[i].kind = "QUOTE" => i + 1 <= Len(s) /\ s[i + 1].kind = "EOL"
Numbered(s, M) == \A i \in 1..Len(s) : s[i].kind \in {"RECV", "QUOTE"} => s[i].n \in 1..M
InTurn(s) ==
    \A i, j \in 1..Len(s) : i < j =>
        /\ s[i].kind \in {"RECV", "QUOTE"} /\ s[j].kind = "RECV" => s[i].n < s[j].n
        /\ s[i].kind = "QUOTE" /\ s[j].kind = "QUOTE" => s[i].n < s[j].n
        /\ s[i].kind = "RECV" /\ s[j].kind = "QUOTE" => s[i].n <= s[j].n
Whole(s, M) == RecvWhole(s) /\ QuoteEnds(s) /\ Numbered(s, M) /\ InTurn(s)

StreamInv == Whole(Stream, Top)

(* t is s without its first n pieces; after a piece of another kind; and   *)
(* with w after it.                                                        *)
Dropped(t, s, n) == Len(t) = Len(s) - n /\ \A i \in 1..Len(t) : t[i] = s[i + n]
LedBy(t, s, p)   == Len(t) = Len(s) + 1 /\ t[1] = p /\ \A i \in 1..Len(s) : t[i + 1] = s[i]
Extended(t, s, w) == /\ Len(t) = Len(s) + Len(w)
                     /\ \A i \in 1..Len(s) : t[i] = s[i]
                     /\ \A i \in 1..Len(w) : t[i + Len(s)] = w[i]

LEMMA WholeDropped ==
    ASSUME NEW s \in Seq(Pieces), NEW t \in Seq(Pieces), NEW n \in 0..Len(s), NEW M \in Nat,
           Dropped(t, s, n), Whole(s, M)
    PROVE  Whole(t, M)
<1>1. Len(t) \in Nat /\ Len(s) \in Nat /\ Len(t) = Len(s) - n /\ n \in Nat
  BY DEF Dropped
<1>2. \A i \in 1..Len(t) : i + n \in 1..Len(s) /\ t[i] = s[i + n]
  BY <1>1 DEF Dropped
<1>3. RecvWhole(t)
  <2> SUFFICES ASSUME NEW i \in 1..Len(t), t[i].kind = "RECV"
               PROVE  /\ i + 4 <= Len(t)
                      /\ t[i + 1].kind = "DELIM" /\ t[i + 2].kind = "BODY"
                      /\ t[i + 3].kind = "QUOTE" /\ t[i + 3].n = t[i].n
    BY DEF RecvWhole
  <2> DEFINE k == i + n
  <2>1. k \in 1..Len(s) /\ t[i] = s[k]
    BY <1>2
  <2>2. /\ k + 4 <= Len(s) /\ s[k + 1].kind = "DELIM" /\ s[k + 2].kind = "BODY"
        /\ s[k + 3].kind = "QUOTE" /\ s[k + 3].n = s[k].n
    BY <2>1 DEF Whole, RecvWhole
  <2> i \in Nat /\ k = i + n /\ k + 4 <= Len(s)
    BY <1>1, <2>2
  <2> HIDE DEF k
  <2>3. i + 4 <= Len(t) /\ i + 1 \in 1..Len(t) /\ i + 2 \in 1..Len(t) /\ i + 3 \in 1..Len(t)
    BY <1>1
  <2>4. (i + 1) + n = k + 1 /\ (i + 2) + n = k + 2 /\ (i + 3) + n = k + 3
    BY <1>1
  <2>5. t[i + 1] = s[k + 1] /\ t[i + 2] = s[k + 2] /\ t[i + 3] = s[k + 3]
    BY <1>2, <2>3, <2>4
  <2> QED BY <2>1, <2>2, <2>3, <2>5
<1>4. QuoteEnds(t)
  <2> SUFFICES ASSUME NEW i \in 1..Len(t), t[i].kind = "QUOTE" PROVE i + 1 <= Len(t) /\ t[i + 1].kind = "EOL"
    BY DEF QuoteEnds
  <2> DEFINE k == i + n
  <2>1. k \in 1..Len(s) /\ t[i] = s[k]
    BY <1>2
  <2>2. k + 1 <= Len(s) /\ s[k + 1].kind = "EOL"
    BY <2>1 DEF Whole, QuoteEnds
  <2>3. i + 1 <= Len(t) /\ i + 1 \in 1..Len(t) /\ (i + 1) + n = k + 1
    BY <1>1, <2>2
  <2>4. t[i + 1] = s[k + 1]
    BY <1>2, <2>3
  <2> QED BY <2>2, <2>3, <2>4
<1>5. Numbered(t, M)
  BY <1>2 DEF Whole, Numbered
<1>6. InTurn(t)
  <2> SUFFICES ASSUME NEW i \in 1..Len(t), NEW j \in 1..Len(t), i < j
               PROVE  /\ t[i].kind \in {"RECV", "QUOTE"} /\ t[j].kind = "RECV" => t[i].n < t[j].n
                      /\ t[i].kind = "QUOTE" /\ t[j].kind = "QUOTE" => t[i].n < t[j].n
                      /\ t[i].kind = "RECV" /\ t[j].kind = "QUOTE" => t[i].n <= t[j].n
    BY DEF InTurn
  <2> DEFINE k == i + n
             l == j + n
  <2>1. k \in 1..Len(s) /\ t[i] = s[k] /\ l \in 1..Len(s) /\ t[j] = s[l] /\ k < l
    BY <1>1, <1>2
  <2> HIDE DEF k, l
  <2> QED BY <2>1 DEF Whole, InTurn
<1> QED BY <1>3, <1>4, <1>5, <1>6 DEF Whole

LEMMA WholeLed ==
    ASSUME NEW s \in Seq(Pieces), NEW t \in Seq(Pieces), NEW p \in Pieces, p.kind \notin {"RECV", "QUOTE"},
           NEW M \in Nat, LedBy(t, s, p), Whole(s, M)
    PROVE  Whole(t, M)
<1>1. Len(t) \in Nat /\ Len(s) \in Nat /\ Len(t) = Len(s) + 1 /\ t[1] = p
  BY DEF LedBy
<1>2. \A k \in 1..Len(s) : k + 1 \in 1..Len(t) /\ t[k + 1] = s[k]
  BY <1>1 DEF LedBy
<1>3. ASSUME NEW i \in 1..Len(t), t[i].kind \in {"RECV", "QUOTE"}
      PROVE  i - 1 \in 1..Len(s) /\ t[i] = s[i - 1]
  <2>1. i # 1
    BY <1>1, <1>3
  <2>2. i - 1 \in 1..Len(s) /\ (i - 1) + 1 = i
    BY <1>1, <2>1
  <2> QED BY <1>2, <2>2
<1>4. RecvWhole(t)
  <2> SUFFICES ASSUME NEW i \in 1..Len(t), t[i].kind = "RECV"
               PROVE  /\ i + 4 <= Len(t)
                      /\ t[i + 1].kind = "DELIM" /\ t[i + 2].kind = "BODY"
                      /\ t[i + 3].kind = "QUOTE" /\ t[i + 3].n = t[i].n
    BY DEF RecvWhole
  <2> DEFINE k == i - 1
  <2>1. k \in 1..Len(s) /\ t[i] = s[k] /\ k \in Nat
    BY <1>3
  <2>2. /\ k + 4 <= Len(s) /\ s[k + 1].kind = "DELIM" /\ s[k + 2].kind = "BODY"
        /\ s[k + 3].kind = "QUOTE" /\ s[k + 3].n = s[k].n
    BY <2>1 DEF Whole, RecvWhole
  <2>3. i \in Nat /\ k + 1 = i /\ k + 4 <= Len(s) /\ k \in Nat /\ Len(s) \in Nat /\ Len(t) = Len(s) + 1
    BY <1>1, <2>1, <2>2
  <2> HIDE DEF k
  <2>4. k + 1 \in 1..Len(s) /\ k + 2 \in 1..Len(s) /\ k + 3 \in 1..Len(s) /\ i + 4 <= Len(t)
    BY <2>3
  <2>5. (k + 1) + 1 = i + 1 /\ (k + 2) + 1 = i + 2 /\ (k + 3) + 1 = i + 3
    BY <2>3
  <2>6. t[(k + 1) + 1] = s[k + 1] /\ t[(k + 2) + 1] = s[k + 2] /\ t[(k + 3) + 1] = s[k + 3]
    BY <1>2, <2>4
  <2>7. t[i + 1] = s[k + 1] /\ t[i + 2] = s[k + 2] /\ t[i + 3] = s[k + 3]
    BY <2>5, <2>6
  <2> QED BY <2>1, <2>2, <2>4, <2>7
<1>5. QuoteEnds(t)
  <2> SUFFICES ASSUME NEW i \in 1..Len(t), t[i].kind = "QUOTE" PROVE i + 1 <= Len(t) /\ t[i + 1].kind = "EOL"
    BY DEF QuoteEnds
  <2> DEFINE k == i - 1
  <2>1. k \in 1..Len(s) /\ t[i] = s[k] /\ k \in Nat
    BY <1>3
  <2>2. k + 1 <= Len(s) /\ s[k + 1].kind = "EOL"
    BY <2>1 DEF Whole, QuoteEnds
  <2>3. k + 1 \in 1..Len(s) /\ i + 1 <= Len(t) /\ (k + 1) + 1 = i + 1
    BY <1>1, <2>1, <2>2
  <2>4. t[i + 1] = s[k + 1]
    BY <1>2, <2>3
  <2> QED BY <2>2, <2>3, <2>4
<1>6. Numbered(t, M)
  BY <1>3 DEF Whole, Numbered
<1>7. InTurn(t)
  <2> SUFFICES ASSUME NEW i \in 1..Len(t), NEW j \in 1..Len(t), i < j,
                      t[i].kind \in {"RECV", "QUOTE"}, t[j].kind \in {"RECV", "QUOTE"}
               PROVE  /\ t[i].kind \in {"RECV", "QUOTE"} /\ t[j].kind = "RECV" => t[i].n < t[j].n
                      /\ t[i].kind = "QUOTE" /\ t[j].kind = "QUOTE" => t[i].n < t[j].n
                      /\ t[i].kind = "RECV" /\ t[j].kind = "QUOTE" => t[i].n <= t[j].n
    BY DEF InTurn
  <2> DEFINE k == i - 1
             l == j - 1
  <2>1. k \in 1..Len(s) /\ t[i] = s[k] /\ l \in 1..Len(s) /\ t[j] = s[l] /\ k < l
    BY <1>1, <1>3
  <2> HIDE DEF k, l
  <2> QED BY <2>1 DEF Whole, InTurn
<1> QED BY <1>4, <1>5, <1>6, <1>7 DEF Whole

LEMMA WholeExtended ==
    ASSUME NEW s \in Seq(Pieces), NEW t \in Seq(Pieces), NEW w \in Seq(Pieces), NEW M \in Nat,
           Extended(t, s, w), Whole(s, M),
           \/ \A i \in 1..Len(w) : w[i].kind \notin {"RECV", "QUOTE"}
           \/ w = Message(M + 1)
    PROVE  Whole(t, M) \/ (w = Message(M + 1) /\ Whole(t, M + 1))
<1> DEFINE N == IF w = Message(M + 1) THEN M + 1 ELSE M
<1>1. /\ Len(t) \in Nat /\ Len(s) \in Nat /\ Len(w) \in Nat /\ Len(t) = Len(s) + Len(w)
      /\ N \in Nat /\ M <= N
  BY DEF Extended
<1>2. \A i \in 1..Len(s) : i \in 1..Len(t) /\ t[i] = s[i]
  BY <1>1 DEF Extended
<1>3. ASSUME NEW i \in 1..Len(t), ~(i <= Len(s)) PROVE i - Len(s) \in 1..Len(w) /\ t[i] = w[i - Len(s)]
  <2>1. i - Len(s) \in 1..Len(w) /\ (i - Len(s)) + Len(s) = i
    BY <1>1, <1>3
  <2> QED BY <2>1 DEF Extended
<1>4. w = Message(M + 1) =>
        /\ Len(w) = 5 /\ w[1].kind = "RECV" /\ w[1].n = M + 1 /\ w[2].kind = "DELIM" /\ w[3].kind = "BODY"
        /\ w[4].kind = "QUOTE" /\ w[4].n = M + 1 /\ w[5].kind = "EOL"
        /\ \A i \in 1..5 : w[i].kind = "RECV" => i = 1
        /\ \A i \in 1..5 : w[i].kind = "QUOTE" => i = 4
  <2> SUFFICES ASSUME w = Message(M + 1)
               PROVE  /\ Len(w) = 5 /\ w[1].kind = "RECV" /\ w[1].n = M + 1 /\ w[2].kind = "DELIM" /\ w[3].kind = "BODY"
                      /\ w[4].kind = "QUOTE" /\ w[4].n = M + 1 /\ w[5].kind = "EOL"
                      /\ \A i \in 1..5 : w[i].kind = "RECV" => i = 1
                      /\ \A i \in 1..5 : w[i].kind = "QUOTE" => i = 4
    OBVIOUS
  <2>1. /\ Len(w) = 5 /\ w[1].kind = "RECV" /\ w[1].n = M + 1 /\ w[2].kind = "DELIM" /\ w[3].kind = "BODY"
        /\ w[4].kind = "QUOTE" /\ w[4].n = M + 1 /\ w[5].kind = "EOL"
    BY DEF Message, Piece
  <2>2. \A i \in 1..5 : i = 1 \/ i = 2 \/ i = 3 \/ i = 4 \/ i = 5
    OBVIOUS
  <2> QED BY <2>1, <2>2
<1> HIDE DEF N
<1>5. ASSUME NEW i \in 1..Len(t), ~(i <= Len(s)), t[i].kind \in {"RECV", "QUOTE"}
      PROVE  /\ w = Message(M + 1) /\ t[i].n = M + 1
             /\ t[i].kind = "RECV" => i = Len(s) + 1
             /\ t[i].kind = "QUOTE" => i = Len(s) + 4
  <2> DEFINE k == i - Len(s)
  <2>0. k \in 1..Len(w) /\ t[i] = w[k]
    BY <1>3, <1>5
  <2>1. k \in 1..Len(w) /\ t[i] = w[k] /\ i = k + Len(s)
    BY <1>1, <2>0
  <2> HIDE DEF k
  <2>2. w = Message(M + 1)
    BY <1>5, <2>1
  <2>3. (t[i].kind = "RECV" => k = 1) /\ (t[i].kind = "QUOTE" => k = 4)
    BY <1>4, <2>1, <2>2
  <2>4. t[i].n = M + 1
    <3>1. (k = 1 \/ k = 4) /\ w[1].n = M + 1 /\ w[4].n = M + 1
      BY <1>4, <1>5, <2>2, <2>3
    <3> QED BY <2>1, <3>1
  <2>5. (t[i].kind = "RECV" => i = Len(s) + 1) /\ (t[i].kind = "QUOTE" => i = Len(s) + 4)
    BY <1>1, <2>1, <2>3
  <2> QED BY <2>2, <2>4, <2>5
<1>6. RecvWhole(t)
  <2> SUFFICES ASSUME NEW i \in 1..Len(t), t[i].kind = "RECV"
               PROVE  /\ i + 4 <= Len(t)
                      /\ t[i + 1].kind = "DELIM" /\ t[i + 2].kind = "BODY"
                      /\ t[i + 3].kind = "QUOTE" /\ t[i + 3].n = t[i].n
    BY DEF RecvWhole
  <2>1. CASE i <= Len(s)
    <3>1. i \in 1..Len(s) /\ t[i] = s[i]
      BY <1>1, <1>2, <2>1
    <3>2. /\ i + 4 <= Len(s) /\ s[i + 1].kind = "DELIM" /\ s[i + 2].kind = "BODY"
          /\ s[i + 3].kind = "QUOTE" /\ s[i + 3].n = s[i].n
      BY <3>1 DEF Whole, RecvWhole
    <3>3. i + 1 \in 1..Len(s) /\ i + 2 \in 1..Len(s) /\ i + 3 \in 1..Len(s) /\ i + 4 <= Len(t)
      BY <1>1, <3>2
    <3> QED BY <1>2, <3>1, <3>2, <3>3
  <2>2. CASE ~(i <= Len(s))
    <3>1. w = Message(M + 1) /\ t[i].n = M + 1 /\ i = Len(s) + 1
      BY <1>5, <2>2
    <3>2. /\ i + 4 <= Len(t)
          /\ i + 1 = 2 + Len(s) /\ i + 2 = 3 + Len(s) /\ i + 3 = 4 + Len(s)
          /\ 2 \in 1..Len(w) /\ 3 \in 1..Len(w) /\ 4 \in 1..Len(w)
      BY <1>1, <1>4, <3>1
    <3>3. t[2 + Len(s)] = w[2] /\ t[3 + Len(s)] = w[3] /\ t[4 + Len(s)] = w[4]
      BY <3>2 DEF Extended
    <3> QED BY <1>4, <3>1, <3>2, <3>3
  <2> QED BY <2>1, <2>2
<1>7. QuoteEnds(t)
  <2> SUFFICES ASSUME NEW i \in 1..Len(t), t[i].kind = "QUOTE" PROVE i + 1 <= Len(t) /\ t[i + 1].kind = "EOL"
    BY DEF QuoteEnds
  <2>1. CASE i <= Len(s)
    <3>1. i \in 1..Len(s) /\ t[i] = s[i]
      BY <1>1, <1>2, <2>1
    <3>2. i + 1 <= Len(s) /\ s[i + 1].kind = "EOL"
      BY <3>1 DEF Whole, QuoteEnds
    <3>3. i + 1 \in 1..Len(s) /\ i + 1 <= Len(t)
      BY <1>1, <3>2
    <3> QED BY <1>2, <3>2, <3>3
  <2>2. CASE ~(i <= Len(s))
    <3>1. w = Message(M + 1) /\ i = Len(s) + 4
      BY <1>5, <2>2
    <3>2. i + 1 <= Len(t) /\ i + 1 = 5 + Len(s) /\ 5 \in 1..Len(w)
      BY <1>1, <1>4, <3>1
    <3>3. t[5 + Len(s)] = w[5]
      BY <3>2 DEF Extended
    <3> QED BY <1>4, <3>1, <3>2, <3>3
  <2> QED BY <2>1, <2>2
<1>8. \A i \in 1..Len(t) : i <= Len(s) /\ t[i].kind \in {"RECV", "QUOTE"} => t[i].n \in 1..M /\ i \in 1..Len(s) /\ t[i] = s[i]
  BY <1>1, <1>2 DEF Whole, Numbered
<1>9. Numbered(t, N)
  <2> SUFFICES ASSUME NEW i \in 1..Len(t), t[i].kind \in {"RECV", "QUOTE"} PROVE t[i].n \in 1..N
    BY DEF Numbered
  <2>1. CASE i <= Len(s)
    BY <1>1, <1>8, <2>1
  <2>2. CASE ~(i <= Len(s))
    <3>1. w = Message(M + 1) /\ t[i].n = M + 1
      BY <1>5, <2>2
    <3>2. N = M + 1
      BY <3>1 DEF N
    <3>3. M + 1 \in 1..(M + 1)
      OBVIOUS
    <3> QED BY <3>1, <3>2, <3>3
  <2> QED BY <2>1, <2>2
<1>10. InTurn(t)
  <2> SUFFICES ASSUME NEW i \in 1..Len(t), NEW j \in 1..Len(t), i < j,
                      t[i].kind \in {"RECV", "QUOTE"}, t[j].kind \in {"RECV", "QUOTE"}
               PROVE  /\ t[i].kind \in {"RECV", "QUOTE"} /\ t[j].kind = "RECV" => t[i].n < t[j].n
                      /\ t[i].kind = "QUOTE" /\ t[j].kind = "QUOTE" => t[i].n < t[j].n
                      /\ t[i].kind = "RECV" /\ t[j].kind = "QUOTE" => t[i].n <= t[j].n
    BY DEF InTurn
  <2>1. CASE j <= Len(s)
    <3>1. Len(s) \in Nat
      BY <1>1
    <3>2. i \in 1..Len(s) /\ j \in 1..Len(s)
      BY <2>1, <3>1
    <3>3. t[i] = s[i] /\ t[j] = s[j]
      BY <1>2, <3>2
    <3> QED BY <3>2, <3>3 DEF Whole, InTurn
  <2>2. CASE i <= Len(s) /\ ~(j <= Len(s))
    <3>1. t[i].n \in 1..M /\ t[j].n = M + 1
      BY <1>5, <1>8, <2>2
    <3> QED BY <3>1
  <2>3. CASE ~(i <= Len(s)) /\ ~(j <= Len(s))
    <3>1. /\ t[i].n = M + 1 /\ t[j].n = M + 1
          /\ (t[i].kind = "RECV" => i = Len(s) + 1) /\ (t[i].kind = "QUOTE" => i = Len(s) + 4)
      BY <1>5, <2>3
    <3>2. (t[j].kind = "RECV" => j = Len(s) + 1) /\ (t[j].kind = "QUOTE" => j = Len(s) + 4)
      BY <1>5, <2>3
    <3> QED BY <1>1, <3>1, <3>2
  <2>4. i <= Len(s) \/ ~(j <= Len(s))
    BY <1>1
  <2> QED BY <2>1, <2>2, <2>3, <2>4
<1> QED BY <1>6, <1>7, <1>9, <1>10 DEF Whole, N

-----------------------------------------------------------------------------
(* How the stream moves. *)
PiecesT == rxBffr \in Seq(Pieces) /\ wire \in Seq(Pieces)

LEMMA StreamFacts ==
    ASSUME PiecesT
    PROVE  /\ Stream \in Seq(Pieces) /\ Len(Stream) = Len(rxBffr) + Len(wire)
           /\ \A i \in 1..Len(rxBffr) : Stream[i] = rxBffr[i]
           /\ \A i \in 1..Len(wire) : Stream[i + Len(rxBffr)] = wire[i]
BY JoinFacts DEF Stream, PiecesT

LEMMA StreamTaken ==
    ASSUME PiecesT, NEW n \in 0..Len(rxBffr), rxBffr' = After(rxBffr, n), wire' = wire
    PROVE  PiecesT' /\ Dropped(Stream', Stream, n) /\ n \in 0..Len(Stream)
<1>1. /\ rxBffr' \in Seq(Pieces) /\ Len(rxBffr') = Len(rxBffr) - n
      /\ \A i \in 1..(Len(rxBffr) - n) : rxBffr'[i] = rxBffr[i + n]
  BY AfterFacts DEF PiecesT
<1>2. PiecesT'
  BY <1>1 DEF PiecesT
<1>3. /\ Stream' \in Seq(Pieces) /\ Len(Stream') = Len(rxBffr') + Len(wire')
      /\ \A i \in 1..Len(rxBffr') : Stream'[i] = rxBffr'[i]
      /\ \A i \in 1..Len(wire') : Stream'[i + Len(rxBffr')] = wire'[i]
  <2>1. Stream' = rxBffr' \o wire' /\ rxBffr' \in Seq(Pieces) /\ wire' \in Seq(Pieces)
    BY <1>2 DEF Stream, PiecesT
  <2> QED BY <2>1, JoinFacts
<1>4. /\ Len(rxBffr) \in Nat /\ Len(wire) \in Nat /\ Len(rxBffr') = Len(rxBffr) - n
      /\ Len(Stream) = Len(rxBffr) + Len(wire) /\ Len(Stream') = Len(Stream) - n
  BY <1>1, <1>3, StreamFacts DEF PiecesT
<1>5. ASSUME NEW i \in 1..Len(Stream') PROVE Stream'[i] = Stream[i + n]
  <2>1. CASE i <= Len(rxBffr')
    <3>1. i \in 1..Len(rxBffr') /\ i + n \in 1..Len(rxBffr)
      BY <1>4, <2>1
    <3>2. Stream'[i] = rxBffr'[i] /\ rxBffr'[i] = rxBffr[i + n] /\ Stream[i + n] = rxBffr[i + n]
      BY <1>1, <1>3, <1>4, <3>1, StreamFacts
    <3> QED BY <3>2
  <2>2. CASE ~(i <= Len(rxBffr'))
    <3> DEFINE k == i - Len(rxBffr')
    <3>1. k \in 1..Len(wire) /\ k \in 1..Len(wire') /\ k + Len(rxBffr') = i /\ k + Len(rxBffr) = i + n
      BY <1>3, <1>4, <2>2
    <3> HIDE DEF k
    <3>2. Stream'[i] = wire'[k] /\ Stream[i + n] = wire[k]
      BY <1>3, <3>1, StreamFacts
    <3> QED BY <3>2
  <2> QED BY <2>1, <2>2
<1> QED BY <1>2, <1>4, <1>5 DEF Dropped

(* The line end the status change leaves. *)
Eol == Piece("EOL", 0)

LEMMA EolFacts == Eol \in Pieces /\ Eol.kind = "EOL"
<1>1. MaxMsgs + 5 \in Nat
  BY MqttAssumption
<1> QED BY <1>1, KindsAre DEF Eol, Piece, Pieces

LEMMA StreamStat ==
    ASSUME PiecesT, NEW n \in 0..Len(rxBffr), rxBffr' = <<Eol>> \o After(rxBffr, n), wire' = wire
    PROVE  PiecesT' /\ Dropped(After(Stream, n), Stream, n) /\ After(Stream, n) \in Seq(Pieces)
           /\ LedBy(Stream', After(Stream, n), Eol) /\ n \in 0..Len(Stream)
<1> DEFINE a == After(rxBffr, n)
           b == After(Stream, n)
<1>1. /\ a \in Seq(Pieces) /\ Len(a) = Len(rxBffr) - n
      /\ \A i \in 1..(Len(rxBffr) - n) : a[i] = rxBffr[i + n]
  BY AfterFacts DEF PiecesT
<1>2. Len(rxBffr) \in Nat /\ Len(wire) \in Nat /\ n \in 0..Len(Stream) /\ Len(Stream) = Len(rxBffr) + Len(wire)
  BY StreamFacts DEF PiecesT
<1>3. /\ b \in Seq(Pieces) /\ Len(b) = Len(Stream) - n
      /\ \A i \in 1..(Len(Stream) - n) : b[i] = Stream[i + n]
  BY <1>2, StreamFacts, AfterFacts
<1> HIDE DEF a, b
<1>4. <<Eol>> \in Seq(Pieces) /\ Len(<<Eol>>) = 1 /\ <<Eol>>[1] = Eol
  BY EolFacts
<1>5. rxBffr' = <<Eol>> \o a
  BY DEF a
<1>6. /\ rxBffr' \in Seq(Pieces) /\ Len(rxBffr') = 1 + Len(a)
      /\ rxBffr'[1] = Eol /\ \A i \in 1..Len(a) : rxBffr'[i + 1] = a[i]
  <2>1. a \in Seq(Pieces) /\ Eol \in Pieces
    BY <1>1, EolFacts
  <2>2. /\ <<Eol>> \o a \in Seq(Pieces) /\ Len(<<Eol>> \o a) = 1 + Len(a) /\ (<<Eol>> \o a)[1] = Eol
        /\ \A i \in 1..Len(a) : (<<Eol>> \o a)[i + 1] = a[i]
    BY ONLY <2>1, LeadFacts
  <2> QED BY <1>5, <2>2
<1>7. PiecesT'
  BY <1>6 DEF PiecesT
<1>8. /\ Stream' \in Seq(Pieces) /\ Len(Stream') = Len(rxBffr') + Len(wire')
      /\ \A i \in 1..Len(rxBffr') : Stream'[i] = rxBffr'[i]
      /\ \A i \in 1..Len(wire') : Stream'[i + Len(rxBffr')] = wire'[i]
  <2>1. Stream' = rxBffr' \o wire' /\ rxBffr' \in Seq(Pieces) /\ wire' \in Seq(Pieces)
    BY <1>7 DEF Stream, PiecesT
  <2> QED BY <2>1, JoinFacts
<1>9. Len(a) \in Nat /\ Len(a) = Len(rxBffr) - n /\ Len(Stream') = Len(b) + 1 /\ Len(rxBffr') = Len(a) + 1
  BY <1>1, <1>2, <1>3, <1>6, <1>8
<1>10. Stream'[1] = Eol
  BY <1>6, <1>8, <1>9
<1>11. ASSUME NEW i \in 1..Len(b) PROVE Stream'[i + 1] = b[i]
  <2>1. b[i] = Stream[i + n]
    BY <1>3
  <2>2. CASE i <= Len(a)
    <3>1. i \in 1..Len(a) /\ i + 1 \in 1..Len(rxBffr') /\ i + n \in 1..Len(rxBffr) /\ i \in 1..(Len(rxBffr) - n)
      BY <1>2, <1>9, <2>2
    <3>2. Stream'[i + 1] = rxBffr'[i + 1] /\ rxBffr'[i + 1] = a[i] /\ a[i] = rxBffr[i + n] /\ Stream[i + n] = rxBffr[i + n]
      BY <1>1, <1>6, <1>8, <3>1, StreamFacts
    <3> QED BY <2>1, <3>2
  <2>3. CASE ~(i <= Len(a))
    <3> DEFINE k == i - Len(a)
    <3>1. /\ k \in 1..Len(wire) /\ k \in 1..Len(wire')
          /\ k + Len(rxBffr') = i + 1 /\ k + Len(rxBffr) = i + n
      <4>1. Len(b) = Len(rxBffr) + Len(wire) - n /\ i \in Nat /\ i <= Len(b) /\ Len(wire') = Len(wire)
        BY <1>2, <1>3
      <4>2. k \in Int /\ k = i - Len(rxBffr) + n /\ k >= 1 /\ k <= Len(wire)
        BY <1>2, <1>9, <2>3, <4>1
      <4> HIDE DEF k
      <4> QED BY <1>2, <1>9, <4>1, <4>2
    <3> HIDE DEF k
    <3>2. Stream'[i + 1] = wire'[k] /\ Stream[i + n] = wire[k]
      BY <1>8, <3>1, StreamFacts
    <3> QED BY <2>1, <3>2
  <2> QED BY <2>2, <2>3
<1> QED BY <1>2, <1>3, <1>7, <1>9, <1>10, <1>11 DEF Dropped, LedBy, b

LEMMA StreamArrive ==
    ASSUME PiecesT, Arrive
    PROVE  PiecesT' /\ Stream' = Stream
<1>1. wire # <<>> /\ rxBffr' = Append(rxBffr, Head(wire)) /\ wire' = Tail(wire)
  BY DEF Arrive
<1>2. Head(wire) \in Pieces /\ wire' \in Seq(Pieces) /\ rxBffr' \in Seq(Pieces)
  BY <1>1 DEF PiecesT
<1>3. PiecesT'
  BY <1>2 DEF PiecesT
<1>4. /\ Len(wire) \in Nat \ {0} /\ Len(wire') = Len(wire) - 1 /\ \A i \in 1..(Len(wire) - 1) : wire'[i] = wire[i + 1]
      /\ Len(rxBffr) \in Nat /\ Len(rxBffr') = Len(rxBffr) + 1 /\ rxBffr'[Len(rxBffr) + 1] = wire[1]
      /\ \A i \in 1..Len(rxBffr) : rxBffr'[i] = rxBffr[i]
  BY <1>1 DEF PiecesT
<1>5. /\ Stream' \in Seq(Pieces) /\ Len(Stream') = Len(rxBffr') + Len(wire')
      /\ \A i \in 1..Len(rxBffr') : Stream'[i] = rxBffr'[i]
      /\ \A i \in 1..Len(wire') : Stream'[i + Len(rxBffr')] = wire'[i]
  <2>1. Stream' = rxBffr' \o wire' /\ rxBffr' \in Seq(Pieces) /\ wire' \in Seq(Pieces)
    BY <1>3 DEF Stream, PiecesT
  <2> QED BY <2>1, JoinFacts
<1>6. Stream \in Seq(Pieces) /\ Len(Stream) = Len(rxBffr) + Len(wire) /\ Len(Stream') = Len(Stream)
  <2>1. Stream \in Seq(Pieces) /\ Len(Stream) = Len(rxBffr) + Len(wire)
    BY StreamFacts
  <2>2. /\ Len(rxBffr) \in Nat /\ Len(wire) \in Nat /\ Len(rxBffr') = Len(rxBffr) + 1 /\ Len(wire') = Len(wire) - 1
        /\ Len(Stream') = Len(rxBffr') + Len(wire')
    BY <1>4, <1>5
  <2> QED BY <2>1, <2>2
<1>7. ASSUME NEW i \in 1..Len(Stream) PROVE Stream'[i] = Stream[i]
  <2>1. CASE i <= Len(rxBffr)
    <3>1. i \in 1..Len(rxBffr) /\ i \in 1..Len(rxBffr')
      BY <1>4, <2>1
    <3> QED BY <1>4, <1>5, <3>1, StreamFacts
  <2>2. CASE i = Len(rxBffr) + 1
    <3>1. i \in 1..Len(rxBffr') /\ 1 \in 1..Len(wire) /\ i = 1 + Len(rxBffr)
      BY <1>4, <2>2
    <3>2. Stream'[i] = rxBffr'[i] /\ Stream[1 + Len(rxBffr)] = wire[1]
      BY <1>5, <3>1, StreamFacts
    <3> QED BY <1>4, <2>2, <3>1, <3>2
  <2>3. CASE i > Len(rxBffr) + 1
    <3> DEFINE k == i - Len(rxBffr) - 1
    <3>1. /\ k \in 1..(Len(wire) - 1) /\ k \in 1..Len(wire') /\ k + 1 \in 1..Len(wire)
          /\ k + Len(rxBffr') = i /\ (k + 1) + Len(rxBffr) = i
      BY <1>4, <1>6, <2>3
    <3> HIDE DEF k
    <3>2. Stream'[i] = wire'[k] /\ Stream[i] = wire[k + 1] /\ wire'[k] = wire[k + 1]
      BY <1>4, <1>5, <3>1, StreamFacts
    <3> QED BY <3>2
  <2> QED BY <1>4, <2>1, <2>2, <2>3
<1>8. Stream' = Stream
  BY <1>5, <1>6, <1>7
<1> QED BY <1>3, <1>8

LEMMA StreamEmit ==
    ASSUME PiecesT, wire = <<>>, wire' \in Seq(Pieces), rxBffr' = rxBffr
    PROVE  PiecesT' /\ Stream \in Seq(Pieces) /\ Stream' \in Seq(Pieces) /\ Extended(Stream', Stream, wire')
<1>1. PiecesT'
  BY DEF PiecesT
<1>2. Stream = rxBffr \o wire /\ Stream' = rxBffr' \o wire'
  BY DEF Stream
<1>3. Stream = rxBffr
  BY <1>2 DEF PiecesT
<1>4. /\ Stream' \in Seq(Pieces) /\ Len(Stream') = Len(rxBffr) + Len(wire')
      /\ \A i \in 1..Len(rxBffr) : Stream'[i] = rxBffr[i]
      /\ \A i \in 1..Len(wire') : Stream'[i + Len(rxBffr)] = wire'[i]
  BY <1>2, JoinFacts DEF PiecesT
<1> QED BY <1>1, <1>3, <1>4 DEF PiecesT, Extended

-----------------------------------------------------------------------------
(* The types, in groups; what is left of a call is there when it runs, and *)
(* every subscription under way is of a topic the table has or had.        *)
LinkStates == {"closed", "open", "connected"}
Pcs   == {"idle", "next", "events", "read", "msg", "halt"}

CtrlT  == state \in LinkStates /\ link \in LinkStates /\ TableInv /\ registered \in BOOLEAN
HistT  == split \in BOOLEAN /\ unnoticed \in BOOLEAN /\ late \in BOOLEAN
RxT    == PiecesT /\ rawResponse \in Seq(Pieces)
CountT == calls \in 0..MaxCalls /\ drops \in 0..MaxDrops /\ msgTopic \in Seq(Topics) /\ Len(msgTopic) <= MaxMsgs
MsgT   == /\ msgId \in 0..Top /\ (pc = "msg" => msgId # 0) /\ (msgId # 0 => pc \in {"msg", "halt"})
          /\ delivered \in Seq([msg : 1..Top, end : 1..Top])

Known == Range(topics) \cup cancelled
Good  == {w \in Works : w.do \in {"SUB", "subscribing"} => w.topic \in Known \cap Topics}
SubInv == subs \subseteq Known \cap Topics /\ todo \in Seq(Good) /\ order \in Seq(Good) /\ cancelled \subseteq Topics

PcT == /\ pc \in Pcs
       /\ pc = "idle" => todo = <<>>
       /\ pc \in {"next", "events", "read"} => todo # <<>>
       /\ pc \in {"events", "read", "msg"} /\ todo # <<>> => Head(todo).do \in Commands

Base == CtrlT /\ HistT /\ RxT /\ CountT /\ MsgT /\ SubInv /\ PcT /\ StreamInv

LEMMA SeqGrows ==
    ASSUME NEW S, NEW T, S \subseteq T, NEW s \in Seq(S)
    PROVE  s \in Seq(T)
OBVIOUS

LEMMA BaseTyped == Base => TypeOK
<1> SUFFICES ASSUME Base PROVE TypeOK
  OBVIOUS
<1>1. Good \subseteq Works
  BY DEF Good
<1>2. todo \in Seq(Works) /\ order \in Seq(Works)
  BY <1>1, SeqGrows DEF Base, SubInv
<1>3. delivered \in Seq([msg : 1..Len(msgTopic), end : 1..Len(msgTopic)]) /\ msgId \in 0..Len(msgTopic)
  BY DEF Base, MsgT, Top
<1> QED BY <1>2, <1>3 DEF Base, CtrlT, HistT, RxT, CountT, MsgT, SubInv, PcT, PiecesT, TableInv, TypeOK, LinkStates, Pcs

LEMMA BaseInit == Init => Base
<1> SUFFICES ASSUME Init PROVE Base
  OBVIOUS
<1>1. /\ state = "closed" /\ topics \in Tables /\ registered = FALSE /\ link = "closed"
      /\ rxBffr = <<>> /\ rawResponse = <<>> /\ wire = <<>> /\ pc = "idle" /\ todo = <<>> /\ msgId = 0
      /\ subs = {} /\ order = <<>> /\ calls = 0 /\ msgTopic = <<>> /\ drops = 0
      /\ delivered = <<>> /\ cancelled = {} /\ split = FALSE /\ unnoticed = FALSE /\ late = FALSE
  BY DEF Init
<1>2. CtrlT /\ HistT
  BY <1>1, TableInit DEF CtrlT, HistT, LinkStates, Init
<1>3. RxT
  BY <1>1 DEF RxT, PiecesT
<1>4. CountT /\ MsgT
  BY <1>1, MqttAssumption DEF CountT, MsgT, Top
<1>5. SubInv
  BY <1>1 DEF SubInv
<1>6. PcT
  BY <1>1 DEF PcT, Pcs
<1>7. Len(Stream) = 0
  BY <1>1, <1>3, StreamFacts DEF RxT
<1>8. StreamInv
  BY <1>7 DEF StreamInv, Whole, RecvWhole, QuoteEnds, Numbered, InTurn
<1> QED BY <1>2, <1>3, <1>4, <1>5, <1>6, <1>8 DEF Base

(* What of Base an action keeps because it leaves its variables alone. *)
LEMMA CtrlSame == CtrlT /\ UNCHANGED <<state, link, topics, registered>> => CtrlT'
BY DEF CtrlT, TableInv
LEMMA HistSame == HistT /\ UNCHANGED <<split, unnoticed, late>> => HistT'
BY DEF HistT
LEMMA RxSame == RxT /\ UNCHANGED <<rxBffr, wire, rawResponse>> => RxT'
BY DEF RxT, PiecesT
LEMMA CountSame == CountT /\ UNCHANGED <<calls, drops, msgTopic>> => CountT'
BY DEF CountT
LEMMA StreamSame == StreamInv /\ UNCHANGED <<rxBffr, wire, msgTopic>> => StreamInv'
<1> SUFFICES ASSUME StreamInv, UNCHANGED <<rxBffr, wire, msgTopic>> PROVE StreamInv'
  OBVIOUS
<1>1. Stream' = Stream /\ Top' = Top
  BY DEF Stream, Top
<1> QED BY <1>1 DEF StreamInv

LEMMA KnownSame ==
    ASSUME UNCHANGED <<topics, cancelled>>
    PROVE  Known' = Known /\ Good' = Good
BY DEF Known, Good

LEMMA GoodDo ==
    ASSUME NEW w \in (Stages \cup Commands) \ {"SUB"}
    PROVE  Do(w, NoTopic) \in Good
BY DEF Do, Good, Works, Stages, Commands

LEMMA SimpleGood ==
    ASSUME NEW ws \in Seq((Stages \cup Commands) \ {"SUB"})
    PROVE  /\ Simple(ws) \in Seq(Good) /\ Len(Simple(ws)) = Len(ws)
           /\ \A i \in 1..Len(ws) : Simple(ws)[i] = Do(ws[i], NoTopic)
<1>1. \A i \in 1..Len(ws) : Do(ws[i], NoTopic) \in Good
  BY GoodDo
<1> QED BY <1>1 DEF Simple

LEMMA BeginWork ==
    ASSUME NEW work, Begin(work)
    PROVE  todo' = work /\ pc' = (IF todo' = <<>> THEN "idle" ELSE "next")
BY DEF Begin

LEMMA BeginPc ==
    ASSUME pc' = (IF todo' = <<>> THEN "idle" ELSE "next")
    PROVE  PcT'
BY DEF PcT, Pcs

-----------------------------------------------------------------------------
(* The calls of the application. *)
LEMMA EnterCounts ==
    ASSUME Base, NEW c, Enter(c), UNCHANGED <<drops, msgTopic, msgId, delivered>>, pc' # "msg"
    PROVE  CountT' /\ MsgT'
<1>1. calls' \in 0..MaxCalls
  BY MqttAssumption DEF Base, CountT, Enter
<1>2. CountT'
  BY <1>1 DEF Base, CountT
<1>3. pc = "idle" /\ msgId = 0
  BY DEF Base, MsgT, Enter
<1>4. Top' = Top
  BY DEF Top
<1>5. MsgT'
  BY <1>3, <1>4 DEF Base, MsgT
<1> QED BY <1>2, <1>5

LEMMA ScriptGood ==
    ASSUME NEW c \in AllCalls \ {"mqtt_subscribeTopic", "mqtt_cancelTopic"}
    PROVE  Simple(Script(c)) \in Seq(Good)
<1> DEFINE Ws == (Stages \cup Commands) \ {"SUB"}
<1>0. /\ "start" \in Ws /\ "open" \in Ws /\ "connect" \in Ws /\ "close" \in Ws /\ "STATE" \in Ws
      /\ c \in {"mqtt_start", "mqtt_open", "mqtt_connect", "mqtt_close", "mqtt_reset", "mqtt_fetchStatus"}
  BY DEF Stages, Commands, AllCalls
<1> HIDE DEF Ws
<1>a. /\ c = "mqtt_start" => Script(c) = <<"start">>
      /\ c = "mqtt_open" => Script(c) = <<"open">>
      /\ c = "mqtt_connect" => Script(c) = <<"connect">>
      /\ c = "mqtt_close" => Script(c) = <<"close">>
      /\ c = "mqtt_reset" => Script(c) = <<"close", "start">>
      /\ c = "mqtt_fetchStatus" => Script(c) = <<"STATE">>
  BY DEF Script
<1>1. Script(c) \in Seq((Stages \cup Commands) \ {"SUB"})
  <2>1. /\ <<"start">> \in Seq(Ws) /\ <<"open">> \in Seq(Ws) /\ <<"connect">> \in Seq(Ws)
        /\ <<"close">> \in Seq(Ws) /\ <<"close", "start">> \in Seq(Ws) /\ <<"STATE">> \in Seq(Ws)
    BY <1>0
  <2> QED BY <1>0, <1>a, <2>1 DEF Ws
<1> QED BY <1>1, SimpleGood

LEMMA CallKeeps == ASSUME Base, NEW c \in Calls, Call(c) PROVE Base'
<1>1. /\ Enter(c) /\ c \notin {"mqtt_subscribeTopic", "mqtt_cancelTopic"} /\ Begin(Simple(Script(c)))
      /\ UNCHANGED <<state, topics, registered, rxBffr, rawResponse, msgId, link, subs, order, wire, msgTopic,
                      drops, delivered, cancelled, split, unnoticed, late>>
  BY DEF Call, ctrlVars, rxVars, moduleVars, histVars
<1>2. todo' = Simple(Script(c)) /\ pc' = (IF todo' = <<>> THEN "idle" ELSE "next")
  BY <1>1, BeginWork
<1>3. Simple(Script(c)) \in Seq(Good) /\ Good' = Good /\ Known' = Known
  BY <1>1, ScriptGood, KnownSame, MqttAssumption
<1>4. SubInv'
  BY <1>1, <1>2, <1>3 DEF Base, SubInv
<1>5. CountT' /\ MsgT'
  BY <1>1, <1>2, EnterCounts
<1>6. PcT'
  BY <1>2, BeginPc
<1> QED BY <1>1, <1>4, <1>5, <1>6, CtrlSame, HistSame, RxSame, StreamSame DEF Base

LEMMA SubscribeKeeps == ASSUME Base, TopicOnce, NEW t \in Topics, SubscribeTopic(t) PROVE Base'
<1> DEFINE found == FindTopicIndx(t)
           work  == IF found # {} /\ state = "connected" THEN <<Do("SUB", t)>> ELSE <<>>
<1>1. /\ Enter("mqtt_subscribeTopic") /\ Begin(work)
      /\ topics' = [i \in 1..Slots |-> IF i \in found THEN t ELSE topics[i]]
      /\ cancelled' = IF found # {} THEN cancelled \ {t} ELSE cancelled
      /\ UNCHANGED <<state, registered, rxBffr, rawResponse, msgId, link, subs, order, wire, msgTopic,
                      drops, delivered, split, unnoticed, late>>
  BY DEF SubscribeTopic, rxVars, moduleVars
<1>2. TableInv
  BY DEF Base, CtrlT
<1>3. /\ found \subseteq 1..Slots
      /\ \A i \in found : topics[i] = t \/ topics[i] = NoTopic
  BY <1>2, FindFacts
<1> HIDE DEF found
<1>4. TableInv'
  BY <1>1, <1>2 DEF TableInv
<1>5. found # {} => t \in Range(topics')
  BY <1>1, <1>3 DEF Range
<1>6. ASSUME NEW u \in Range(topics), u # NoTopic PROVE u \in Range(topics')
  <2>1. PICK i \in 1..Slots : topics[i] = u
    BY <1>2, <1>6 DEF Range, TableInv
  <2>2. topics'[i] = u
    BY <1>1, <1>3, <1>6, <2>1
  <2> QED BY <1>1, <2>1, <2>2 DEF Range
<1>7. Known \cap Topics \subseteq Known' \cap Topics
  BY <1>1, <1>5, <1>6, MqttAssumption DEF Known
<1>8. Good \subseteq Good'
  BY <1>7 DEF Good
<1>9. work \in Seq(Good')
  <2>1. CASE found # {}
    <3>1. Do("SUB", t) \in Good'
      BY <1>5, <2>1 DEF Good, Known, Do, Works, Commands
    <3> QED BY <3>1
  <2>2. CASE found = {}
    BY <2>2
  <2> QED BY <2>1, <2>2
<1> HIDE DEF work
<1>10. todo' = work /\ pc' = (IF todo' = <<>> THEN "idle" ELSE "next")
  BY <1>1, BeginWork
<1>11. SubInv'
  <2>1. order' \in Seq(Good')
    BY <1>1, <1>8, SeqGrows DEF Base, SubInv
  <2>2. cancelled' \subseteq Topics
    BY <1>1 DEF Base, SubInv
  <2> QED BY <1>1, <1>7, <1>9, <1>10, <2>1, <2>2 DEF Base, SubInv
<1>12. CountT' /\ MsgT'
  BY <1>1, <1>10, EnterCounts
<1>13. PcT'
  BY <1>10, BeginPc
<1>14. CtrlT'
  BY <1>1, <1>4 DEF Base, CtrlT
<1> QED BY <1>1, <1>11, <1>12, <1>13, <1>14, HistSame, RxSame, StreamSame DEF Base

LEMMA CancelKeeps == ASSUME Base, NEW t \in Topics, CancelTopic(t) PROVE Base'
<1> DEFINE found == FindTopicIndx(t)
           work  == IF found # {} /\ state = "connected" THEN <<Do("UNS", NoTopic)>> ELSE <<>>
<1>1. /\ Enter("mqtt_cancelTopic") /\ Begin(work)
      /\ topics' = [i \in 1..Slots |-> IF i \in found THEN NoTopic ELSE topics[i]]
      /\ cancelled' = cancelled \cup {t}
      /\ UNCHANGED <<state, registered, rxBffr, rawResponse, msgId, link, subs, order, wire, msgTopic,
                      drops, delivered, split, unnoticed, late>>
  BY DEF CancelTopic, rxVars, moduleVars
<1>2. TableInv
  BY DEF Base, CtrlT
<1>3. /\ found \subseteq 1..Slots
      /\ \A i \in found : topics[i] = t \/ topics[i] = NoTopic
  BY <1>2, FindFacts
<1> HIDE DEF found
<1>4. TableInv'
  BY <1>1, <1>2 DEF TableInv
<1>5. ASSUME NEW u \in Range(topics), u # NoTopic, u # t PROVE u \in Range(topics')
  <2>1. PICK i \in 1..Slots : topics[i] = u
    BY <1>2, <1>5 DEF Range, TableInv
  <2>2. topics'[i] = u
    BY <1>1, <1>3, <1>5, <2>1
  <2> QED BY <1>1, <2>1, <2>2 DEF Range
<1>6. Known \cap Topics \subseteq Known' \cap Topics
  BY <1>1, <1>5, MqttAssumption DEF Known
<1>7. Good \subseteq Good'
  BY <1>6 DEF Good
<1>8. work \in Seq(Good)
  <2>1. Do("UNS", NoTopic) \in Good
    BY GoodDo DEF Commands
  <2> QED BY <2>1
<1> HIDE DEF work
<1>9. todo' = work /\ pc' = (IF todo' = <<>> THEN "idle" ELSE "next")
  BY <1>1, BeginWork
<1>10. SubInv'
  <2>1. order' \in Seq(Good') /\ todo' \in Seq(Good')
    BY <1>1, <1>7, <1>8, <1>9, SeqGrows DEF Base, SubInv
  <2>2. cancelled' \subseteq Topics
    BY <1>1 DEF Base, SubInv
  <2> QED BY <1>1, <1>6, <2>1, <2>2 DEF Base, SubInv
<1>11. CountT' /\ MsgT'
  BY <1>1, <1>9, EnterCounts
<1>12. PcT'
  BY <1>9, BeginPc
<1>13. CtrlT'
  BY <1>1, <1>4 DEF Base, CtrlT
<1> QED BY <1>1, <1>10, <1>11, <1>12, <1>13, HistSame, RxSame, StreamSame DEF Base

-----------------------------------------------------------------------------
(* The stages of a call, and its commands. *)
LEMMA ExpandGood ==
    ASSUME Base, NEW w \in Stages, NEW work \in Expand(w)
    PROVE  work \in Seq(Good)
<1> DEFINE Ws == (Stages \cup Commands) \ {"SUB"}
<1>1. /\ <<"open", "connect", "subscribe">> \in Seq(Ws) /\ <<"CFG", "OPEN">> \in Seq(Ws) /\ <<"CFG", "CONN">> \in Seq(Ws)
      /\ <<"CLOSE">> \in Seq(Ws) /\ <<>> \in Seq(Ws)
  BY DEF Stages, Commands
<1>2. CASE w = "start"
  BY <1>1, <1>2, SimpleGood DEF Expand
<1>3. CASE w = "open"
  BY <1>1, <1>3, SimpleGood DEF Expand
<1>4. CASE w = "connect"
  BY <1>1, <1>4, SimpleGood DEF Expand
<1>5. CASE w = "close"
  BY <1>1, <1>5, SimpleGood DEF Expand
<1>6. CASE w = "subscribe"
  <2>1. \/ work = <<>>
        \/ \E t \in FirstTopic : work = <<Do("SUB", t)>>
    BY <1>6 DEF Expand
  <2>2. ASSUME NEW t \in FirstTopic PROVE <<Do("SUB", t)>> \in Seq(Good)
    <3>1. PICK i \in 1..Slots : topics[i] = t /\ topics[i] \in Topics
      BY <2>2 DEF FirstTopic, FirstSlots
    <3>2. t \in Range(topics) /\ t \in Topics
      BY <3>1 DEF Base, CtrlT, TableInv, Range
    <3>3. Do("SUB", t) \in Good
      BY <3>2 DEF Good, Known, Do, Works, Commands
    <3> QED BY <3>3
  <2>3. <<>> \in Seq(Good)
    OBVIOUS
  <2>4. CASE work = <<>>
    BY <2>3, <2>4
  <2>5. CASE \E t \in FirstTopic : work = <<Do("SUB", t)>>
    <3>1. PICK t \in FirstTopic : work = <<Do("SUB", t)>>
      BY <2>5
    <3>2. <<Do("SUB", t)>> \in Seq(Good)
      BY <2>2
    <3> QED BY ONLY <3>1, <3>2
  <2> QED BY <2>1, <2>4, <2>5
<1> QED BY <1>2, <1>3, <1>4, <1>5, <1>6 DEF Stages

LEMMA TodoFacts ==
    ASSUME Base, todo # <<>>
    PROVE  Head(todo) \in Good /\ Tail(todo) \in Seq(Good)
BY DEF Base, SubInv

LEMMA StageKeeps == ASSUME Base, Stage PROVE Base'
<1>1. /\ pc = "next" /\ Head(todo).do \in Stages
      /\ registered' = (registered \/ Head(todo).do = "start")
      /\ UNCHANGED <<state, topics, rxBffr, rawResponse, msgId, link, subs, order, wire, msgTopic,
                      drops, calls, delivered, cancelled, split, unnoticed, late>>
  BY DEF Stage, rxVars, moduleVars, histVars
<1>2. PICK work \in Expand(Head(todo).do) : Begin(work \o Tail(todo))
  BY DEF Stage
<1>3. todo # <<>>
  BY <1>1 DEF Base, PcT
<1>4. work \o Tail(todo) \in Seq(Good)
  <2>1. work \in Seq(Good) /\ Tail(todo) \in Seq(Good)
    BY <1>1, <1>2, <1>3, ExpandGood, TodoFacts
  <2> QED BY <2>1
<1>5. todo' \in Seq(Good) /\ pc' = (IF todo' = <<>> THEN "idle" ELSE "next")
  <2> DEFINE rest == work \o Tail(todo)
  <2>1. Begin(rest) /\ rest \in Seq(Good)
    BY <1>2, <1>4
  <2> HIDE DEF rest
  <2> QED BY <2>1, BeginWork
<1>6. SubInv'
  BY <1>1, <1>5, KnownSame DEF Base, SubInv
<1>7. registered' \in BOOLEAN
  BY <1>1
<1>8. CtrlT'
  BY <1>1, <1>7 DEF Base, CtrlT, TableInv
<1>9. MsgT'
  <2>1. msgId = 0 /\ Top' = Top
    BY <1>1 DEF Base, MsgT, Top
  <2> QED BY <1>1, <1>5, <2>1 DEF Base, MsgT
<1>10. PcT'
  BY <1>5, BeginPc
<1> QED BY <1>1, <1>6, <1>8, <1>9, <1>10, HistSame, RxSame, CountSame, StreamSame DEF Base

LEMMA AddStreamKeeps == ASSUME Base, AddStreamAssert PROVE Base'
<1>1. /\ pc = "next" /\ pc' = "halt"
      /\ UNCHANGED <<state, topics, registered, rxBffr, rawResponse, todo, msgId, link, subs, order, wire, msgTopic,
                      drops, calls, delivered, cancelled, split, unnoticed, late>>
  BY DEF AddStreamAssert, ctrlVars, rxVars, moduleVars, histVars
<1>2. SubInv'
  BY <1>1, KnownSame DEF Base, SubInv
<1>3. MsgT' /\ PcT'
  BY <1>1 DEF Base, MsgT, Top, PcT, Pcs
<1> QED BY <1>1, <1>2, <1>3, CtrlSame, HistSame, RxSame, CountSame, StreamSame DEF Base

LEMMA InvokeKeeps == ASSUME Base, Invoke PROVE Base'
<1>1. /\ pc = "next" /\ Head(todo).do \in Commands /\ pc' = "events"
      /\ rawResponse' = <<>> /\ order' = Append(order, Head(todo)) /\ late' = Late
      /\ UNCHANGED <<state, topics, registered, rxBffr, todo, msgId, link, subs, wire, msgTopic,
                      drops, calls, delivered, cancelled, split, unnoticed>>
  BY DEF Invoke, ctrlVars
<1>2. todo # <<>>
  BY <1>1 DEF Base, PcT
<1>3. order' \in Seq(Good)
  BY <1>1, <1>2, TodoFacts DEF Base, SubInv
<1>4. SubInv'
  BY <1>1, <1>3, KnownSame DEF Base, SubInv
<1>5. MsgT' /\ PcT'
  BY <1>1, <1>2 DEF Base, MsgT, Top, PcT, Pcs
<1>6. RxT'
  BY <1>1 DEF Base, RxT, PiecesT
<1>7. late' \in BOOLEAN
  BY <1>1 DEF Late
<1>8. HistT'
  BY <1>1, <1>7 DEF Base, HistT
<1> QED BY <1>1, <1>4, <1>5, <1>6, <1>8, CtrlSame, CountSame, StreamSame DEF Base

LEMMA NoEventKeeps == ASSUME Base, NoEvent PROVE Base'
<1>1. /\ pc = "events" /\ pc' = Resume
      /\ UNCHANGED <<state, topics, registered, rxBffr, rawResponse, todo, msgId, link, subs, order, wire, msgTopic,
                      drops, calls, delivered, cancelled, split, unnoticed, late>>
  BY DEF NoEvent, ctrlVars, rxVars, moduleVars, histVars
<1>2. SubInv'
  BY <1>1, KnownSame DEF Base, SubInv
<1>3. MsgT' /\ PcT'
  BY <1>1 DEF Base, MsgT, Top, PcT, Pcs, Resume
<1> QED BY <1>1, <1>2, <1>3, CtrlSame, HistSame, RxSame, CountSame, StreamSame DEF Base

-----------------------------------------------------------------------------
(* The handler of URCs. *)
LEMMA StreamAt ==
    ASSUME Base, NEW i \in 1..Len(rxBffr)
    PROVE  i \in 1..Len(Stream) /\ Stream[i] = rxBffr[i] /\ rxBffr[i] \in Pieces /\ i \in Nat
<1>1. PiecesT
  BY DEF Base, RxT
<1>2. Len(rxBffr) \in Nat /\ Len(wire) \in Nat /\ rxBffr[i] \in Pieces
  BY <1>1 DEF PiecesT
<1> QED BY <1>1, <1>2, StreamFacts

LEMMA FirstOfFacts ==
    ASSUME NEW s \in Seq(Pieces), NEW K, NEW i \in FirstOf(s, K)
    PROVE  i \in 1..Len(s) /\ s[i].kind \in K /\ \A j \in 1..(i - 1) : s[j].kind \notin K
BY DEF FirstOf

LEMMA RecvAtFacts ==
    ASSUME Base, NEW i \in RecvAt
    PROVE  i \in 1..Len(rxBffr) /\ rxBffr[i].kind = "RECV"
<1>1. i \in FirstOf(rxBffr, {"RECV"}) /\ rxBffr \in Seq(Pieces)
  BY DEF RecvAt, Base, RxT, PiecesT
<1> QED BY <1>1, FirstOfFacts

LEMMA StatAtFacts ==
    ASSUME Base, NEW i \in StatAt
    PROVE  i \in 1..Len(rxBffr) /\ rxBffr[i].kind = "QMTSTAT"
<1>1. i \in FirstOf(rxBffr, {"QMTSTAT"}) /\ rxBffr \in Seq(Pieces)
  BY DEF StatAt, Base, RxT, PiecesT
<1> QED BY <1>1, FirstOfFacts

LEMMA RecvMoves ==
    ASSUME Base, RecvHeader
    PROVE  /\ pc \in {"idle", "events"}
           /\ UNCHANGED <<state, topics, registered, rawResponse, todo, link, subs, order, wire, msgTopic, drops,
                           calls, delivered, cancelled, split, late>>
           /\ \E i \in 1..Len(rxBffr) :
                 /\ rxBffr[i].kind = "RECV" /\ Miss(SubSeq(rxBffr, 1, i - 1))
                 /\ \/ rxBffr' = After(rxBffr, i - 1) /\ pc' = Resume /\ msgId' = msgId
                    \/ i < Len(rxBffr) /\ rxBffr' = After(rxBffr, i + 1) /\ pc' \in {"msg", "halt"} /\ msgId' = rxBffr[i].n
<1>1. /\ Here
      /\ UNCHANGED <<state, topics, registered, rawResponse, todo, link, subs, order, wire, msgTopic, drops,
                      calls, delivered, cancelled, split, late>>
  BY DEF RecvHeader, ctrlVars, moduleVars
<1>2. PICK i \in RecvAt :
        /\ Miss(SubSeq(rxBffr, 1, i - 1))
        /\ \/ rxBffr' = After(rxBffr, i - 1) /\ pc' = Resume /\ msgId' = msgId
           \/ i < Len(rxBffr) /\ rxBffr' = After(rxBffr, i + 1) /\ pc' \in {"msg", "halt"} /\ msgId' = rxBffr[i].n
  BY DEF RecvHeader
<1>3. i \in 1..Len(rxBffr) /\ rxBffr[i].kind = "RECV"
  BY <1>2, RecvAtFacts
<1> QED BY <1>1, <1>2, <1>3 DEF Here

LEMMA MissTypes ==
    ASSUME Base, NEW s, Miss(s), UNCHANGED <<split, late>>
    PROVE  HistT'
<1>1. unnoticed' \in BOOLEAN
  BY DEF Miss
<1> QED BY <1>1 DEF Base, HistT

LEMMA TakenKeeps ==
    ASSUME Base, NEW n \in 0..Len(rxBffr), rxBffr' = After(rxBffr, n), UNCHANGED <<wire, msgTopic>>
    PROVE  PiecesT' /\ StreamInv' /\ Dropped(Stream', Stream, n) /\ n \in 0..Len(Stream)
           /\ Stream \in Seq(Pieces) /\ Stream' \in Seq(Pieces) /\ Top' = Top /\ Top \in Nat
<1>1. PiecesT /\ Whole(Stream, Top)
  BY DEF Base, RxT, StreamInv
<1>2. PiecesT' /\ Dropped(Stream', Stream, n) /\ n \in 0..Len(Stream)
  BY <1>1, StreamTaken
<1>3. Stream \in Seq(Pieces)
  BY <1>1, StreamFacts
<1>4. Stream' \in Seq(Pieces)
  BY <1>2 DEF PiecesT, Stream
<1>5. Top' = Top /\ Top \in Nat
  BY DEF Base, CountT, Top
<1>6. Whole(Stream', Top)
  BY <1>1, <1>2, <1>3, <1>4, <1>5, WholeDropped
<1> QED BY <1>2, <1>3, <1>4, <1>5, <1>6 DEF StreamInv

LEMMA RecvKeeps == ASSUME Base, RecvHeader PROVE Base'
<1>1. /\ pc \in {"idle", "events"}
      /\ UNCHANGED <<state, topics, registered, rawResponse, todo, link, subs, order, wire, msgTopic, drops,
                      calls, delivered, cancelled, split, late>>
  BY RecvMoves
<1>2. PICK i \in 1..Len(rxBffr) :
        /\ rxBffr[i].kind = "RECV" /\ Miss(SubSeq(rxBffr, 1, i - 1))
        /\ \/ rxBffr' = After(rxBffr, i - 1) /\ pc' = Resume /\ msgId' = msgId
           \/ i < Len(rxBffr) /\ rxBffr' = After(rxBffr, i + 1) /\ pc' \in {"msg", "halt"} /\ msgId' = rxBffr[i].n
  BY RecvMoves
<1>3. rxBffr[i].n \in 1..Top
  <2>1. i \in 1..Len(Stream) /\ Stream[i] = rxBffr[i]
    BY StreamAt
  <2> QED BY <1>2, <2>1 DEF Base, StreamInv, Whole, Numbered
<1>4. PICK n \in 0..Len(rxBffr) : rxBffr' = After(rxBffr, n)
  <2>1. i - 1 \in 0..Len(rxBffr) /\ (i < Len(rxBffr) => i + 1 \in 0..Len(rxBffr))
    BY DEF Base, RxT, PiecesT
  <2> QED BY <1>2, <2>1
<1>5. PiecesT' /\ StreamInv'
  BY <1>1, <1>4, TakenKeeps
<1>6. SubInv'
  BY <1>1, KnownSame DEF Base, SubInv
<1>7. HistT'
  BY <1>1, <1>2, MissTypes
<1>8. MsgT'
  <2>1. Top' = Top /\ Top \in Nat /\ msgId = 0
    BY <1>1 DEF Base, MsgT, CountT, Top
  <2> QED BY <1>1, <1>2, <1>3, <2>1 DEF Base, MsgT, Resume
<1>9. PcT'
  BY <1>1, <1>2 DEF Base, PcT, Pcs, Resume
<1>10. RxT'
  BY <1>1, <1>5 DEF Base, RxT
<1> QED BY <1>1, <1>5, <1>6, <1>7, <1>8, <1>9, <1>10, CtrlSame, CountSame DEF Base

LEMMA BlockMoves ==
    ASSUME Base, MsgBlock
    PROVE  /\ pc = "msg"
           /\ UNCHANGED <<state, topics, registered, rawResponse, todo, link, subs, order, wire, msgTopic, drops,
                           calls, cancelled, late>>
           /\ \E n \in 1..Len(rxBffr) :
                 /\ rxBffr' = After(rxBffr, n) /\ Miss(SubSeq(rxBffr, 1, n))
                 /\ \/ \E i \in FirstEom(SubSeq(rxBffr, 1, n)) :
                          /\ i \in 1..(n - 1) /\ rxBffr[i].kind = "QUOTE"
                          /\ delivered' = Append(delivered, [msg |-> msgId, end |-> rxBffr[i].n])
                          /\ pc' = Resume /\ msgId' = 0 /\ split' = split
                    \/ /\ FirstEom(SubSeq(rxBffr, 1, n)) = {}
                       /\ split' = (split \/ rxBffr[n].kind = "QUOTE")
                       /\ UNCHANGED <<delivered, pc, msgId>>
<1>1. /\ pc = "msg"
      /\ UNCHANGED <<state, topics, registered, rawResponse, todo, link, subs, order, wire, msgTopic, drops,
                      calls, cancelled, late>>
  BY DEF MsgBlock, ctrlVars, moduleVars
<1>2. PICK n \in 1..Len(rxBffr) :
        /\ rxBffr' = After(rxBffr, n) /\ Miss(SubSeq(rxBffr, 1, n))
        /\ \/ \E i \in FirstEom(SubSeq(rxBffr, 1, n)) :
                 /\ delivered' = Append(delivered, [msg |-> msgId, end |-> SubSeq(rxBffr, 1, n)[i].n])
                 /\ pc' = Resume /\ msgId' = 0 /\ split' = split
           \/ /\ FirstEom(SubSeq(rxBffr, 1, n)) = {}
              /\ split' = (split \/ SubSeq(rxBffr, 1, n)[n].kind = "QUOTE")
              /\ UNCHANGED <<delivered, pc, msgId>>
  BY DEF MsgBlock
<1> DEFINE block == SubSeq(rxBffr, 1, n)
<1>3. Len(block) = n /\ \A i \in 1..n : block[i] = rxBffr[i]
  BY PrefixFacts DEF Base, RxT, PiecesT
<1> HIDE DEF block
<1>4. \A i \in FirstEom(block) : i \in 1..(n - 1) /\ block[i].kind = "QUOTE"
  BY <1>3 DEF FirstEom, EomAt
<1>5. \A i \in FirstEom(block) : i \in 1..(n - 1) /\ rxBffr[i].kind = "QUOTE" /\ block[i] = rxBffr[i]
  BY <1>3, <1>4
<1>6. block[n] = rxBffr[n]
  BY <1>3
<1>7. CASE \E i \in FirstEom(block) :
                 /\ delivered' = Append(delivered, [msg |-> msgId, end |-> block[i].n])
                 /\ pc' = Resume /\ msgId' = 0 /\ split' = split
  <2>1. PICK i \in FirstEom(block) :
                 /\ delivered' = Append(delivered, [msg |-> msgId, end |-> block[i].n])
                 /\ pc' = Resume /\ msgId' = 0 /\ split' = split
    BY <1>7
  <2>2. i \in 1..(n - 1) /\ rxBffr[i].kind = "QUOTE" /\ block[i] = rxBffr[i]
    BY <1>5
  <2> QED BY <1>1, <1>2, <2>1, <2>2 DEF block
<1>8. CASE /\ FirstEom(block) = {}
           /\ split' = (split \/ block[n].kind = "QUOTE")
           /\ UNCHANGED <<delivered, pc, msgId>>
  BY <1>1, <1>2, <1>6, <1>8 DEF block
<1> QED BY <1>2, <1>7, <1>8 DEF block

LEMMA BlockKeeps == ASSUME Base, MsgBlock PROVE Base'
<1>1. /\ pc = "msg"
      /\ UNCHANGED <<state, topics, registered, rawResponse, todo, link, subs, order, wire, msgTopic, drops,
                      calls, cancelled, late>>
  BY BlockMoves
<1>2. PICK n \in 1..Len(rxBffr) :
        /\ rxBffr' = After(rxBffr, n) /\ Miss(SubSeq(rxBffr, 1, n))
        /\ \/ \E i \in FirstEom(SubSeq(rxBffr, 1, n)) :
                 /\ i \in 1..(n - 1) /\ rxBffr[i].kind = "QUOTE"
                 /\ delivered' = Append(delivered, [msg |-> msgId, end |-> rxBffr[i].n])
                 /\ pc' = Resume /\ msgId' = 0 /\ split' = split
           \/ /\ FirstEom(SubSeq(rxBffr, 1, n)) = {}
              /\ split' = (split \/ rxBffr[n].kind = "QUOTE")
              /\ UNCHANGED <<delivered, pc, msgId>>
  BY BlockMoves
<1>3. n \in 0..Len(rxBffr)
  OBVIOUS
<1>4. PiecesT' /\ StreamInv' /\ Top' = Top /\ Top \in Nat
  BY <1>1, <1>2, <1>3, TakenKeeps
<1>5. SubInv'
  BY <1>1, KnownSame DEF Base, SubInv
<1>6. RxT'
  BY <1>1, <1>4 DEF Base, RxT
<1>7. unnoticed' \in BOOLEAN /\ split' \in BOOLEAN
  BY <1>2 DEF Miss, Base, HistT
<1>8. HistT'
  BY <1>1, <1>7 DEF Base, HistT
<1>9. MsgT' /\ PcT'
  <2>1. CASE UNCHANGED <<delivered, pc, msgId>>
    BY <1>1, <1>4, <2>1 DEF Base, MsgT, PcT
  <2>2. CASE \E i \in 1..(n - 1) : /\ rxBffr[i].kind = "QUOTE"
                                   /\ delivered' = Append(delivered, [msg |-> msgId, end |-> rxBffr[i].n])
                                   /\ pc' = Resume /\ msgId' = 0
    <3>1. PICK i \in 1..(n - 1) : /\ rxBffr[i].kind = "QUOTE"
                                  /\ delivered' = Append(delivered, [msg |-> msgId, end |-> rxBffr[i].n])
                                  /\ pc' = Resume /\ msgId' = 0
      BY <2>2
    <3>2. i \in 1..Len(rxBffr)
      BY DEF Base, RxT, PiecesT
    <3>3. rxBffr[i].n \in 1..Top
      BY <3>1, <3>2, StreamAt DEF Base, StreamInv, Whole, Numbered
    <3>4. msgId \in 1..Top
      BY <1>1, <1>4 DEF Base, MsgT
    <3>5. [msg |-> msgId, end |-> rxBffr[i].n] \in [msg : 1..Top, end : 1..Top]
      BY <3>3, <3>4
    <3>6. delivered' \in Seq([msg : 1..Top, end : 1..Top])
      BY <3>1, <3>5 DEF Base, MsgT
    <3>7. MsgT'
      BY <1>4, <3>1, <3>6 DEF MsgT, Resume
    <3>8. PcT'
      BY <1>1, <3>1 DEF Base, PcT, Pcs, Resume
    <3> QED BY <3>7, <3>8
  <2> QED BY <1>2, <2>1, <2>2
<1> QED BY <1>1, <1>4, <1>5, <1>6, <1>8, <1>9, CtrlSame, CountSame DEF Base

LEMMA StatMoves ==
    ASSUME Base, StatEvent
    PROVE  /\ pc \in {"idle", "events"}
           /\ UNCHANGED <<topics, registered, rawResponse, todo, msgId, link, subs, order, wire, msgTopic, drops,
                           calls, delivered, cancelled, split, unnoticed, late>>
           /\ \E i \in 1..Len(rxBffr) : rxBffr[i].kind = "QMTSTAT" /\ rxBffr' = <<Eol>> \o After(rxBffr, i)
           /\ (state' = "closed" /\ pc' = Resume) \/ (pc' = "halt" /\ state' = state)
<1>1. /\ Here
      /\ (state' = StatState /\ pc' = Resume) \/ (pc' = "halt" /\ state' = state)
      /\ UNCHANGED <<topics, registered, rawResponse, todo, msgId, link, subs, order, wire, msgTopic, drops,
                      calls, delivered, cancelled, split, unnoticed, late>>
  BY DEF StatEvent, moduleVars, histVars
<1>2. PICK i \in StatAt : rxBffr' = <<Eol>> \o After(rxBffr, i)
  BY DEF StatEvent, Eol
<1>3. i \in 1..Len(rxBffr) /\ rxBffr[i].kind = "QMTSTAT"
  BY <1>2, StatAtFacts
<1> QED BY <1>1, <1>2, <1>3 DEF Here, StatState

LEMMA StatStream ==
    ASSUME Base, NEW i \in 1..Len(rxBffr), rxBffr' = <<Eol>> \o After(rxBffr, i), UNCHANGED <<wire, msgTopic>>
    PROVE  /\ PiecesT' /\ StreamInv' /\ Stream \in Seq(Pieces) /\ Stream' \in Seq(Pieces) /\ After(Stream, i) \in Seq(Pieces)
           /\ Dropped(After(Stream, i), Stream, i) /\ LedBy(Stream', After(Stream, i), Eol)
           /\ i \in 0..Len(Stream)
<1>1. PiecesT /\ Whole(Stream, Top) /\ i \in 0..Len(rxBffr)
  BY DEF Base, RxT, StreamInv
<1>2. /\ PiecesT' /\ Dropped(After(Stream, i), Stream, i) /\ After(Stream, i) \in Seq(Pieces)
      /\ LedBy(Stream', After(Stream, i), Eol) /\ i \in 0..Len(Stream)
  BY <1>1, StreamStat
<1>3. Stream \in Seq(Pieces)
  BY <1>1, StreamFacts
<1>4. Stream' \in Seq(Pieces)
  BY <1>2 DEF PiecesT, Stream
<1>5. Top' = Top /\ Top \in Nat
  BY DEF Base, CountT, Top
<1>6. Whole(After(Stream, i), Top)
  BY <1>1, <1>2, <1>3, <1>5, WholeDropped
<1>7. Whole(Stream', Top)
  BY <1>2, <1>4, <1>5, <1>6, EolFacts, WholeLed
<1> QED BY <1>2, <1>3, <1>4, <1>5, <1>7 DEF StreamInv

LEMMA StatKeeps == ASSUME Base, StatEvent PROVE Base'
<1>1. /\ pc \in {"idle", "events"}
      /\ UNCHANGED <<topics, registered, rawResponse, todo, msgId, link, subs, order, wire, msgTopic, drops,
                      calls, delivered, cancelled, split, unnoticed, late>>
      /\ (state' = "closed" /\ pc' = Resume) \/ (pc' = "halt" /\ state' = state)
  BY StatMoves
<1>2. PICK i \in 1..Len(rxBffr) : rxBffr' = <<Eol>> \o After(rxBffr, i)
  BY StatMoves
<1>3. PiecesT' /\ StreamInv'
  BY <1>1, <1>2, StatStream
<1>4. SubInv'
  BY <1>1, KnownSame DEF Base, SubInv
<1>5. CtrlT'
  BY <1>1 DEF Base, CtrlT, TableInv, LinkStates
<1>6. MsgT' /\ PcT'
  BY <1>1 DEF Base, MsgT, Top, PcT, Pcs, Resume
<1>7. RxT'
  BY <1>1, <1>3 DEF Base, RxT
<1> QED BY <1>1, <1>3, <1>4, <1>5, <1>6, <1>7, HistSame, CountSame DEF Base

-----------------------------------------------------------------------------
(* The result of a command. *)
LEMMA ReadMoves ==
    ASSUME Base, ReadResult
    PROVE  LET parsed == IF rxBffr = <<>> THEN {} ELSE Parse(Head(todo).do, rawResponse') IN
           /\ pc = "read" /\ todo # <<>> /\ rawResponse' = rawResponse \o rxBffr /\ rxBffr' = <<>>
           /\ UNCHANGED <<topics, registered, msgId, link, subs, order, wire, msgTopic, drops,
                           calls, delivered, cancelled, split, late>>
           /\ unnoticed' = (unnoticed \/ Has(rxBffr, "QMTSTAT") \/ (late /\ state' # state))
           /\ \/ \E p \in parsed : state' = Learns(Head(todo).do, p)
              \/ state' = state
           /\ \/ todo' \in {Tail(todo), <<>>} /\ pc' = (IF todo' = <<>> THEN "idle" ELSE "next")
              \/ parsed = {} /\ pc' = "events" /\ todo' = todo
<1> DEFINE parsed == IF rxBffr = <<>> THEN {} ELSE Parse(Head(todo).do, rawResponse')
<1>1. /\ pc = "read" /\ rawResponse' = rawResponse \o rxBffr /\ rxBffr' = <<>>
      /\ UNCHANGED <<topics, registered, msgId, link, subs, order, wire, msgTopic, drops,
                      calls, delivered, cancelled, split, late>>
      /\ unnoticed' = (unnoticed \/ Has(rxBffr, "QMTSTAT") \/ (late /\ state' # state))
  BY DEF ReadResult, moduleVars
<1>2. todo # <<>>
  BY <1>1 DEF Base, PcT
<1>3. \/ \E p \in parsed : /\ state' = Learns(Head(todo).do, p)
                           /\ Begin(IF Goes(Head(todo).do, p) THEN Tail(todo) ELSE <<>>)
      \/ Begin(IF Head(todo).do = "CLOSE" THEN Tail(todo) ELSE <<>>) /\ state' = state
      \/ parsed = {} /\ pc' = "events" /\ state' = state /\ todo' = todo
  BY DEF ReadResult
<1> HIDE DEF parsed
<1>4. ASSUME NEW b \in BOOLEAN, Begin(IF b THEN Tail(todo) ELSE <<>>)
      PROVE  todo' \in {Tail(todo), <<>>} /\ pc' = (IF todo' = <<>> THEN "idle" ELSE "next")
  BY <1>4 DEF Begin
<1>5. /\ \/ \E p \in parsed : state' = Learns(Head(todo).do, p)
         \/ state' = state
      /\ \/ todo' \in {Tail(todo), <<>>} /\ pc' = (IF todo' = <<>> THEN "idle" ELSE "next")
         \/ parsed = {} /\ pc' = "events" /\ todo' = todo
  <2>1. CASE \E p \in parsed : /\ state' = Learns(Head(todo).do, p)
                               /\ Begin(IF Goes(Head(todo).do, p) THEN Tail(todo) ELSE <<>>)
    <3>1. PICK p \in parsed : /\ state' = Learns(Head(todo).do, p)
                              /\ Begin(IF Goes(Head(todo).do, p) THEN Tail(todo) ELSE <<>>)
      BY <2>1
    <3>2. Goes(Head(todo).do, p) \in BOOLEAN
      BY DEF Goes
    <3>3. todo' \in {Tail(todo), <<>>} /\ pc' = (IF todo' = <<>> THEN "idle" ELSE "next")
      BY <1>4, <3>1, <3>2
    <3> QED BY <3>1, <3>3
  <2>2. CASE Begin(IF Head(todo).do = "CLOSE" THEN Tail(todo) ELSE <<>>) /\ state' = state
    <3>1. (Head(todo).do = "CLOSE") \in BOOLEAN
      OBVIOUS
    <3>2. todo' \in {Tail(todo), <<>>} /\ pc' = (IF todo' = <<>> THEN "idle" ELSE "next")
      BY <1>4, <2>2, <3>1
    <3> QED BY <2>2, <3>2
  <2>3. CASE parsed = {} /\ pc' = "events" /\ state' = state /\ todo' = todo
    BY <2>3
  <2> QED BY <1>3, <2>1, <2>2, <2>3
<1> QED BY <1>1, <1>2, <1>5 DEF parsed

LEMMA LearnsFacts == ASSUME Base, NEW w, NEW p PROVE Learns(w, p) \in LinkStates
BY DEF Learns, Status, LinkStates, Base, CtrlT

LEMMA AllTaken ==
    ASSUME Base, rxBffr' = <<>>
    PROVE  Len(rxBffr) \in 0..Len(rxBffr) /\ rxBffr' = After(rxBffr, Len(rxBffr))
BY DEF Base, RxT, PiecesT, After

LEMMA ReadKeeps == ASSUME Base, ReadResult PROVE Base'
<1>1. /\ pc = "read" /\ todo # <<>> /\ rawResponse' = rawResponse \o rxBffr /\ rxBffr' = <<>>
      /\ UNCHANGED <<topics, registered, msgId, link, subs, order, wire, msgTopic, drops,
                      calls, delivered, cancelled, split, late>>
      /\ unnoticed' = (unnoticed \/ Has(rxBffr, "QMTSTAT") \/ (late /\ state' # state))
      /\ (\E p : state' = Learns(Head(todo).do, p)) \/ state' = state
      /\ \/ todo' \in {Tail(todo), <<>>} /\ pc' = (IF todo' = <<>> THEN "idle" ELSE "next")
         \/ pc' = "events" /\ todo' = todo
  BY ReadMoves
<1>2. state' \in LinkStates
  BY <1>1, LearnsFacts DEF Base, CtrlT
<1>3. CtrlT'
  BY <1>1, <1>2 DEF Base, CtrlT, TableInv
<1>4. HistT'
  <2>1. unnoticed' \in BOOLEAN
    BY <1>1
  <2> QED BY <1>1, <2>1 DEF Base, HistT
<1>5. PiecesT' /\ StreamInv'
  BY <1>1, AllTaken, TakenKeeps
<1>6. RxT'
  <2>1. rawResponse' \in Seq(Pieces)
    BY <1>1 DEF Base, RxT, PiecesT
  <2> QED BY <1>5, <2>1 DEF RxT
<1>7. SubInv'
  <2>1. todo' \in Seq(Good)
    <3>1. Tail(todo) \in Seq(Good) /\ <<>> \in Seq(Good) /\ todo \in Seq(Good)
      BY <1>1, TodoFacts DEF Base, SubInv
    <3> QED BY ONLY <1>1, <3>1
  <2> QED BY <1>1, <2>1, KnownSame DEF Base, SubInv
<1>8. MsgT'
  <2>1. msgId = 0 /\ Top' = Top
    BY <1>1 DEF Base, MsgT, Top
  <2>2. pc' # "msg"
    BY <1>1
  <2> QED BY <1>1, <2>1, <2>2 DEF Base, MsgT
<1>9. PcT'
  <2>1. CASE todo' \in {Tail(todo), <<>>} /\ pc' = (IF todo' = <<>> THEN "idle" ELSE "next")
    BY <2>1, BeginPc
  <2>2. CASE pc' = "events" /\ todo' = todo
    BY <1>1, <2>2 DEF Base, PcT, Pcs
  <2> QED BY <1>1, <2>1, <2>2
<1> QED BY <1>1, <1>3, <1>4, <1>5, <1>6, <1>7, <1>8, <1>9, CountSame DEF Base

-----------------------------------------------------------------------------
(* The module and the server. *)
LEMMA ArriveKeeps == ASSUME Base, Arrive PROVE Base'
<1>1. UNCHANGED <<state, topics, registered, rawResponse, pc, todo, msgId, link, subs, order, msgTopic, drops,
                  calls, delivered, cancelled, split, unnoticed, late>>
  BY DEF Arrive, ctrlVars, callVars, histVars
<1>2. PiecesT' /\ Stream' = Stream
  BY StreamArrive DEF Base, RxT
<1>3. Top' = Top
  BY <1>1 DEF Top
<1>4. StreamInv'
  BY <1>2, <1>3 DEF Base, StreamInv
<1>5. SubInv'
  BY <1>1, KnownSame DEF Base, SubInv
<1>6. MsgT' /\ PcT'
  BY <1>1, <1>3 DEF Base, MsgT, PcT
<1>7. RxT'
  BY <1>1, <1>2 DEF Base, RxT
<1> QED BY <1>1, <1>4, <1>5, <1>6, <1>7, CtrlSame, HistSame, CountSame DEF Base

LEMMA LineFacts ==
    ASSUME NEW k \in Kinds, NEW n \in 0..5
    PROVE  /\ Piece(k, n) \in Pieces /\ Piece(k, n).kind = k /\ Piece(k, n).n = n
           /\ <<Piece(k, n)>> \in Seq(Pieces) /\ Len(<<Piece(k, n)>>) = 1 /\ <<Piece(k, n)>>[1] = Piece(k, n)
<1>1. n \in 0..(MaxMsgs + 5)
  BY MqttAssumption
<1>2. Piece(k, n) \in Pieces /\ Piece(k, n).kind = k /\ Piece(k, n).n = n
  BY <1>1 DEF Piece, Pieces
<1> QED BY <1>2

(* What the module may send as its own words. *)
Own == {w \in Seq(Pieces) : \A i \in 1..Len(w) : w[i].kind \notin {"RECV", "QUOTE"}}

LEMMA OwnLine == ASSUME NEW k \in Kinds \ {"RECV", "QUOTE"}, NEW n \in 0..5 PROVE <<Piece(k, n)>> \in Own
BY LineFacts DEF Own

LEMMA OwnKeeps ==
    ASSUME Base, wire = <<>>, wire' \in Own, UNCHANGED <<rxBffr, msgTopic>>
    PROVE  PiecesT' /\ StreamInv' /\ Stream \in Seq(Pieces) /\ Stream' \in Seq(Pieces) /\ Extended(Stream', Stream, wire')
<1>1. PiecesT /\ Whole(Stream, Top) /\ wire' \in Seq(Pieces)
  BY DEF Base, RxT, StreamInv, Own
<1>2. PiecesT' /\ Stream \in Seq(Pieces) /\ Stream' \in Seq(Pieces) /\ Extended(Stream', Stream, wire')
  BY <1>1, StreamEmit
<1>3. Top' = Top /\ Top \in Nat
  BY DEF Base, CountT, Top
<1>4. wire' # Message(Top + 1)
  <2>1. SUFFICES ASSUME wire' = Message(Top + 1) PROVE FALSE
    OBVIOUS
  <2>2. 1 \in 1..Len(wire') /\ wire'[1].kind = "RECV"
    BY <2>1 DEF Message, Piece
  <2> QED BY <2>2 DEF Own
<1>5. Whole(Stream', Top)
  BY <1>1, <1>2, <1>3, <1>4, WholeExtended DEF Own
<1> QED BY <1>2, <1>3, <1>5 DEF StreamInv

LEMMA AnswerMoves ==
    ASSUME Base, Answer
    PROVE  /\ order # <<>> /\ wire = <<>> /\ wire' \in Own
           /\ UNCHANGED <<state, topics, registered, rxBffr, rawResponse, pc, todo, msgId, msgTopic, drops,
                           calls, delivered, cancelled, split, late>>
           /\ order' \in Seq(Good) /\ link' \in LinkStates /\ subs' \subseteq Known \cap Topics /\ unnoticed' \in BOOLEAN
<1> DEFINE c == Head(order)
           later(w) == <<[c EXCEPT !.do = w]>>
           done == order' = Tail(order)
           same == link' = link /\ subs' = subs
<1>1. /\ order # <<>> /\ wire = <<>>
      /\ UNCHANGED <<state, topics, registered, rxBffr, rawResponse, pc, todo, msgId, msgTopic, drops,
                      calls, delivered, cancelled, split, late>>
      /\ unnoticed' = IF link = "closed" /\ link' # "closed" /\ Rank(state) <= Rank(link') THEN FALSE
                      ELSE unnoticed \/ c.do = "CLOSE"
  BY DEF Answer, ctrlVars, rxVars, callVars
<1>2. c \in Good /\ Tail(order) \in Seq(Good)
  BY <1>1 DEF Base, SubInv
<1>3. \/ c.do \in {"CFG", "UNS"} /\ same /\ Ok(<<>>)
      \/ c.do \in {"CFG", "OPEN", "CONN", "SUB", "UNS"} /\ Refuse
      \/ c.do = "OPEN" /\ same /\ Ok(later("opening"))
      \/ c.do = "opening" /\ link = "closed" /\ done /\ Links("open", {}) /\ Line("QMTOPEN", 0)
      \/ c.do = "opening" /\ link = "closed" /\ done /\ same /\ Line("QMTOPEN", 3)
      \/ c.do = "opening" /\ link # "closed" /\ done /\ same /\ Line("QMTOPEN", 2)
      \/ c.do = "CONN" /\ link = "open" /\ same /\ Ok(later("connecting"))
      \/ c.do = "connecting" /\ link = "open" /\ done /\ Links("connected", {}) /\ Line("QMTCONN", 0)
      \/ c.do = "connecting" /\ link = "open" /\ done /\ same /\ Line("QMTCONN", 5)
      \/ c.do = "SUB" /\ link = "connected" /\ same /\ Ok(later("subscribing"))
      \/ /\ c.do = "subscribing" /\ link = "connected" /\ done
         /\ Links(link, subs \cup {c.topic}) /\ Line("QMTSUB", 0)
      \/ c.do \in {"connecting", "subscribing"} /\ link = "closed" /\ done /\ same /\ Emit(<<>>)
      \/ c.do = "CLOSE" /\ link # "closed" /\ Links("closed", {}) /\ Ok(later("closing"))
      \/ c.do = "CLOSE" /\ link = "closed" /\ Refuse
      \/ c.do = "closing" /\ done /\ same /\ Line("QMTCLOSE", 0)
      \/ c.do = "STATE" /\ link = "closed" /\ same /\ Ok(<<>>)
      \/ /\ c.do = "STATE" /\ link # "closed" /\ done /\ same
         /\ Emit(<<Piece("QMTSTATE", IF link = "open" THEN 1 ELSE 3), Piece("OK", 0)>>)
  BY DEF Answer
<1>4. /\ \/ wire' = <<>>
         \/ \E k \in {"OK", "ERROR", "QMTOPEN", "QMTCONN", "QMTSUB", "QMTCLOSE"}, n \in {0, 2, 3, 5} : wire' = <<Piece(k, n)>>
         \/ \E n \in {1, 3} : wire' = <<Piece("QMTSTATE", n), Piece("OK", 0)>>
      /\ \/ order' = Tail(order) \/ order' = <<>> \o Tail(order)
         \/ \E w \in {"opening", "connecting", "closing"} : order' = later(w) \o Tail(order)
         \/ c.do = "SUB" /\ order' = later("subscribing") \o Tail(order)
      /\ \/ same
         \/ link' \in {"closed", "open", "connected"} /\ subs' = {}
         \/ c.do = "subscribing" /\ link' = link /\ subs' = subs \cup {c.topic}
  <2> HIDE DEF c, later
  <2> QED BY <1>3 DEF Ok, Refuse, Line, Emit, Links
<1>5. wire' \in Own
  <2>1. <<>> \in Own
    BY DEF Own
  <2>2. ASSUME NEW k \in {"OK", "ERROR", "QMTOPEN", "QMTCONN", "QMTSUB", "QMTCLOSE"}, NEW n \in {0, 2, 3, 5}
        PROVE  <<Piece(k, n)>> \in Own
    <3>1. k \in Kinds \ {"RECV", "QUOTE"} /\ n \in 0..5
      BY KindsAre
    <3> QED BY <3>1, OwnLine
  <2>3. ASSUME NEW n \in {1, 3} PROVE <<Piece("QMTSTATE", n), Piece("OK", 0)>> \in Own
    <3> DEFINE w == <<Piece("QMTSTATE", n), Piece("OK", 0)>>
    <3>1. /\ Piece("QMTSTATE", n) \in Pieces /\ Piece("QMTSTATE", n).kind = "QMTSTATE"
          /\ Piece("OK", 0) \in Pieces /\ Piece("OK", 0).kind = "OK"
      BY KindsAre, LineFacts
    <3>2. w \in Seq(Pieces) /\ Len(w) = 2 /\ w[1].kind = "QMTSTATE" /\ w[2].kind = "OK"
      BY <3>1
    <3> QED BY <3>2 DEF Own
  <2> QED BY <1>4, <2>1, <2>2, <2>3
<1>6. \A w \in {"opening", "connecting", "closing"} : [c EXCEPT !.do = w] \in Good
  BY <1>2 DEF Good, Works
<1>7. c.do = "SUB" => [c EXCEPT !.do = "subscribing"] \in Good
  BY <1>2 DEF Good, Works
<1>8. order' \in Seq(Good)
  <2>1. \A x \in Good : <<x>> \o Tail(order) \in Seq(Good)
    BY <1>2
  <2>2. <<>> \o Tail(order) \in Seq(Good)
    BY <1>2
  <2> QED BY <1>2, <1>4, <1>6, <1>7, <2>1, <2>2
<1>9. link' \in LinkStates /\ subs' \subseteq Known \cap Topics
  <2>1. c.do = "subscribing" => c.topic \in Known \cap Topics
    BY <1>2 DEF Good
  <2> HIDE DEF c
  <2> QED BY <1>4, <2>1 DEF Base, CtrlT, SubInv, LinkStates
<1>10. unnoticed' \in BOOLEAN
  BY <1>1 DEF Base, HistT
<1> QED BY <1>1, <1>5, <1>8, <1>9, <1>10

LEMMA AnswerKeeps == ASSUME Base, Answer PROVE Base'
<1>1. /\ order # <<>> /\ wire = <<>> /\ wire' \in Own
      /\ UNCHANGED <<state, topics, registered, rxBffr, rawResponse, pc, todo, msgId, msgTopic, drops,
                      calls, delivered, cancelled, split, late>>
      /\ order' \in Seq(Good) /\ link' \in LinkStates /\ subs' \subseteq Known \cap Topics /\ unnoticed' \in BOOLEAN
  BY AnswerMoves
<1>2. PiecesT' /\ StreamInv'
  BY <1>1, OwnKeeps
<1>3. SubInv'
  BY <1>1, KnownSame DEF Base, SubInv
<1>4. CtrlT' /\ HistT'
  BY <1>1 DEF Base, CtrlT, HistT, TableInv
<1>5. MsgT' /\ PcT'
  BY <1>1 DEF Base, MsgT, PcT, Top
<1>6. RxT'
  BY <1>1, <1>2 DEF Base, RxT
<1> QED BY <1>1, <1>2, <1>3, <1>4, <1>5, <1>6, CountSame DEF Base

LEMMA DropsKeeps == ASSUME Base, ServerDrops PROVE Base'
<1>1. /\ wire = <<>> /\ drops < MaxDrops /\ drops' = drops + 1 /\ link' = "closed" /\ subs' = {}
      /\ wire' = <<Piece("QMTSTAT", 0)>>
      /\ UNCHANGED <<state, topics, registered, rxBffr, rawResponse, pc, todo, msgId, order, msgTopic,
                      calls, delivered, cancelled, split, unnoticed, late>>
  BY DEF ServerDrops, Links, Line, Emit, ctrlVars, rxVars, callVars, histVars
<1>2. wire' \in Own
  <2>1. "QMTSTAT" \in Kinds \ {"RECV", "QUOTE"} /\ 0 \in 0..5
    BY KindsAre
  <2>2. <<Piece("QMTSTAT", 0)>> \in Own
    BY <2>1, OwnLine
  <2> QED BY <1>1, <2>2
<1>3. PiecesT' /\ StreamInv'
  BY <1>1, <1>2, OwnKeeps
<1>4. SubInv'
  BY <1>1, KnownSame DEF Base, SubInv
<1>5. CtrlT'
  BY <1>1 DEF Base, CtrlT, TableInv, LinkStates
<1>6. MsgT' /\ PcT'
  BY <1>1 DEF Base, MsgT, PcT, Top
<1>7. RxT'
  BY <1>1, <1>3 DEF Base, RxT
<1>8. CountT'
  BY <1>1, MqttAssumption DEF Base, CountT
<1> QED BY <1>1, <1>3, <1>4, <1>5, <1>6, <1>7, <1>8, HistSame DEF Base

LEMMA MessageFacts ==
    ASSUME NEW id \in 0..(MaxMsgs + 5)
    PROVE  Message(id) \in Seq(Pieces) /\ Len(Message(id)) = 5
<1>1. \A k \in {"RECV", "DELIM", "BODY", "QUOTE", "EOL"} : Piece(k, id) \in Pieces
  BY KindsAre DEF Piece, Pieces
<1> QED BY <1>1 DEF Message

LEMMA SendMoves ==
    ASSUME Base, NEW t \in Topics, ServerSends(t)
    PROVE  /\ wire = <<>> /\ wire' = Message(Top + 1) /\ Top' = Top + 1 /\ Top \in Nat
           /\ UNCHANGED <<state, topics, registered, rxBffr, rawResponse, pc, todo, msgId, link, subs, order,
                           drops, calls, delivered, cancelled, split, unnoticed, late>>
           /\ CountT' /\ PiecesT' /\ StreamInv'
           /\ Stream \in Seq(Pieces) /\ Stream' \in Seq(Pieces) /\ Extended(Stream', Stream, wire')
<1>1. /\ wire = <<>> /\ Len(msgTopic) < MaxMsgs /\ msgTopic' = Append(msgTopic, t)
      /\ wire' = Message(Len(msgTopic) + 1)
      /\ UNCHANGED <<state, topics, registered, rxBffr, rawResponse, pc, todo, msgId, link, subs, order,
                      drops, calls, delivered, cancelled, split, unnoticed, late>>
  BY DEF ServerSends, Emit, ctrlVars, rxVars, callVars, histVars
<1>2. /\ Top \in Nat /\ Len(msgTopic') = Top + 1 /\ msgTopic' \in Seq(Topics) /\ Top + 1 <= MaxMsgs
  BY <1>1, MqttAssumption DEF Base, CountT, Top
<1>3. wire' = Message(Top + 1) /\ Top' = Top + 1
  BY <1>1, <1>2 DEF Top
<1>4. CountT'
  BY <1>1, <1>2 DEF Base, CountT
<1>5. wire' \in Seq(Pieces)
  <2>1. Top + 1 \in 0..(MaxMsgs + 5)
    BY <1>2, MqttAssumption
  <2> QED BY <1>3, <2>1, MessageFacts
<1>6. PiecesT /\ Whole(Stream, Top)
  BY DEF Base, RxT, StreamInv
<1>7. PiecesT' /\ Stream \in Seq(Pieces) /\ Stream' \in Seq(Pieces) /\ Extended(Stream', Stream, wire')
  BY <1>1, <1>5, <1>6, StreamEmit
<1>8. Whole(Stream', Top) \/ Whole(Stream', Top + 1)
  BY <1>2, <1>3, <1>5, <1>6, <1>7, WholeExtended
<1>9. Whole(Stream', Top) => Whole(Stream', Top + 1)
  BY <1>2 DEF Whole, Numbered
<1> QED BY <1>1, <1>2, <1>3, <1>4, <1>7, <1>8, <1>9 DEF StreamInv

LEMMA SendKeeps == ASSUME Base, NEW t \in Topics, ServerSends(t) PROVE Base'
<1>1. /\ Top' = Top + 1 /\ Top \in Nat
      /\ UNCHANGED <<state, topics, registered, rxBffr, rawResponse, pc, todo, msgId, link, subs, order,
                      drops, calls, delivered, cancelled, split, unnoticed, late>>
      /\ CountT' /\ PiecesT' /\ StreamInv'
  BY SendMoves
<1>2. SubInv'
  BY <1>1, KnownSame DEF Base, SubInv
<1>3. MsgT'
  <2>1. [msg : 1..Top, end : 1..Top] \subseteq [msg : 1..Top', end : 1..Top']
    BY <1>1
  <2>2. delivered' \in Seq([msg : 1..Top', end : 1..Top'])
    <3> DEFINE S == [msg : 1..Top, end : 1..Top]
               T == [msg : 1..Top', end : 1..Top']
    <3>1. S \subseteq T /\ delivered \in Seq(S)
      BY <2>1 DEF Base, MsgT
    <3> HIDE DEF S, T
    <3>2. delivered \in Seq(T)
      BY <3>1, SeqGrows
    <3> QED BY <1>1, <3>2 DEF T
  <2> QED BY <1>1, <2>2 DEF Base, MsgT
<1>4. PcT'
  BY <1>1 DEF Base, PcT
<1>5. RxT'
  BY <1>1 DEF Base, RxT
<1> QED BY <1>1, <1>2, <1>3, <1>4, <1>5, CtrlSame, HistSame DEF Base

LEMMA StutterKeeps == ASSUME Base, UNCHANGED vars PROVE Base'
<1>1. UNCHANGED <<state, topics, registered, rxBffr, rawResponse, pc, todo, msgId, link, subs, order, wire, msgTopic,
                  drops, calls, delivered, cancelled, split, unnoticed, late>>
  BY DEF vars, ctrlVars, rxVars, callVars, moduleVars, histVars
<1>2. SubInv'
  BY <1>1, KnownSame DEF Base, SubInv
<1>3. MsgT' /\ PcT'
  BY <1>1 DEF Base, MsgT, PcT, Top
<1> QED BY <1>1, <1>2, <1>3, CtrlSame, HistSame, RxSame, CountSame, StreamSame DEF Base

LEMMA BaseInductive == ASSUME Base, TopicOnce, [Next]_vars PROVE Base'
BY CallKeeps, SubscribeKeeps, CancelKeeps, StageKeeps, AddStreamKeeps, InvokeKeeps, NoEventKeeps, RecvKeeps,
   BlockKeeps, StatKeeps, ReadKeeps, ArriveKeeps, AnswerKeeps, DropsKeeps, SendKeeps, StutterKeeps
   DEF Next, Application, Program, Server

(* Theorem 2.  Every variable has its type, for every instance: the state  *)
(* is one of three, a message in hand is one the server has sent, and the  *)
(* handler's header is always of a message with a topic.                   *)
THEOREM Typed == Spec => []TypeOK
<1>1. Init => Base /\ TableInv /\ TopicOnce
  BY BaseInit, TableInit
<1>2. (Base /\ TableInv /\ TopicOnce) /\ [Next]_vars => (Base /\ TableInv /\ TopicOnce)'
  BY BaseInductive, TableStep
<1>3. Base => TypeOK
  BY BaseTyped
<1>4. QED BY <1>1, <1>2, <1>3, PTL DEF Spec

(* Theorem 3.  Every subscription of the server's is of a topic in the     *)
(* table, or of one the application has cancelled since it was last put    *)
(* there: also of a subscription that is still to be answered while the    *)
(* application goes on, and when the table was full.                       *)
THEOREM ServerKnowsTable == Spec => []SubscribedIsKnown
<1>1. Init => Base /\ TableInv /\ TopicOnce
  BY BaseInit, TableInit
<1>2. (Base /\ TableInv /\ TopicOnce) /\ [Next]_vars => (Base /\ TableInv /\ TopicOnce)'
  BY BaseInductive, TableStep
<1>3. Base => SubscribedIsKnown
  BY DEF Base, SubInv, Known, SubscribedIsKnown
<1>4. QED BY <1>1, <1>2, <1>3, PTL DEF Spec

-----------------------------------------------------------------------------
(* The messages.  What was delivered last ended before any message whose   *)
(* header is still to come; the message in hand is older than those, and   *)
(* its own end is still to come, unless a block has cut that in two.       *)
LastEnd == IF delivered = <<>> THEN 0 ELSE delivered[Len(delivered)].end

Later(s, e)   == \A i \in 1..Len(s) : s[i].kind = "RECV" => e < s[i].n
InHand(s, id) == \A i \in 1..Len(s) : /\ s[i].kind = "RECV" => id < s[i].n
                                      /\ s[i].kind = "QUOTE" => id <= s[i].n
EndHere(s, id) == \E q \in 1..Len(s) : s[q].kind = "QUOTE" /\ s[q].n = id

EndInv == /\ LastEnd <= Top /\ Later(Stream, LastEnd)
          /\ pc = "msg" => /\ LastEnd < msgId /\ InHand(Stream, msgId)
                           /\ ~split => EndHere(Stream, msgId)
          /\ EndsItself

LEMMA LastEndFacts == ASSUME Base PROVE LastEnd \in 0..Top /\ Top \in Nat
<1>1. Top \in Nat
  BY DEF Base, CountT, Top
<1>2. CASE delivered = <<>>
  BY <1>1, <1>2 DEF LastEnd
<1>3. CASE delivered # <<>>
  <2>1. Len(delivered) \in 1..Len(delivered)
    BY <1>3 DEF Base, MsgT
  <2> DEFINE S == [msg : 1..Top, end : 1..Top]
  <2>2. delivered \in Seq(S)
    BY DEF Base, MsgT
  <2> HIDE DEF S
  <2>3. delivered[Len(delivered)] \in S
    BY <2>1, <2>2
  <2> QED BY <1>1, <1>3, <2>3 DEF LastEnd, S
<1> QED BY <1>1, <1>2, <1>3

LEMMA DropEnds ==
    ASSUME NEW s, NEW t, NEW n \in Nat, Len(s) \in Nat, Dropped(t, s, n), NEW e
    PROVE  (Later(s, e) => Later(t, e)) /\ (InHand(s, e) => InHand(t, e))
<1>1. Len(t) = Len(s) - n /\ \A i \in 1..Len(t) : t[i] = s[i + n] /\ i + n \in 1..Len(s)
  BY DEF Dropped
<1> QED BY <1>1 DEF Later, InHand

LEMMA LedEnds ==
    ASSUME NEW s, NEW t, NEW p, p.kind \notin {"RECV", "QUOTE"}, Len(s) \in Nat, LedBy(t, s, p), NEW e
    PROVE  (Later(s, e) => Later(t, e)) /\ (InHand(s, e) => InHand(t, e))
<1>1. /\ Len(t) = Len(s) + 1 /\ t[1] = p
      /\ \A i \in 1..Len(s) : t[i + 1] = s[i]
  BY DEF LedBy
<1>2. ASSUME NEW i \in 1..Len(t), i # 1 PROVE i - 1 \in 1..Len(s) /\ t[i] = s[i - 1]
  <2>1. i - 1 \in 1..Len(s) /\ (i - 1) + 1 = i
    BY <1>1, <1>2
  <2> QED BY <1>1, <2>1
<1> QED BY <1>1, <1>2 DEF Later, InHand

LEMMA ExtendEnds ==
    ASSUME NEW s, NEW t, NEW w, Len(s) \in Nat, Len(w) \in Nat, Extended(t, s, w), NEW e \in Nat,
           \A i \in 1..Len(w) : w[i].kind \in {"RECV", "QUOTE"} => w[i].n \in Nat /\ e < w[i].n
    PROVE  /\ Later(s, e) => Later(t, e)
           /\ InHand(s, e) => InHand(t, e)
           /\ EndHere(s, e) => EndHere(t, e)
<1>1. Len(t) = Len(s) + Len(w)
  BY DEF Extended
<1>2. ASSUME NEW i \in 1..Len(t)
      PROVE  \/ i \in 1..Len(s) /\ t[i] = s[i]
             \/ t[i].kind \in {"RECV", "QUOTE"} => t[i].n \in Nat /\ e < t[i].n
  <2>1. CASE i <= Len(s)
    BY <1>1, <2>1 DEF Extended
  <2>2. CASE ~(i <= Len(s))
    <3> DEFINE k == i - Len(s)
    <3>1. k \in 1..Len(w) /\ k + Len(s) = i
      BY <1>1, <2>2
    <3> HIDE DEF k
    <3>2. t[i] = w[k]
      BY <3>1 DEF Extended
    <3> QED BY <3>1, <3>2
  <2> QED BY <2>1, <2>2
<1>3. Later(s, e) => Later(t, e)
  <2> SUFFICES ASSUME Later(s, e), NEW i \in 1..Len(t), t[i].kind = "RECV" PROVE e < t[i].n
    BY DEF Later
  <2> QED BY <1>2 DEF Later
<1>4. InHand(s, e) => InHand(t, e)
  <2> SUFFICES ASSUME InHand(s, e), NEW i \in 1..Len(t)
               PROVE  (t[i].kind = "RECV" => e < t[i].n) /\ (t[i].kind = "QUOTE" => e <= t[i].n)
    BY DEF InHand
  <2>1. CASE i \in 1..Len(s) /\ t[i] = s[i]
    BY <2>1 DEF InHand
  <2>2. CASE t[i].kind \in {"RECV", "QUOTE"} => t[i].n \in Nat /\ e < t[i].n
    <3>1. t[i].n \in Nat /\ e < t[i].n => e <= t[i].n
      OBVIOUS
    <3> QED BY <2>2, <3>1
  <2> QED BY <1>2, <2>1, <2>2
<1>5. EndHere(s, e) => EndHere(t, e)
  <2> SUFFICES ASSUME NEW q \in 1..Len(s), s[q].kind = "QUOTE", s[q].n = e PROVE EndHere(t, e)
    BY DEF EndHere
  <2>1. q \in 1..Len(t) /\ t[q] = s[q]
    BY <1>1 DEF Extended
  <2> QED BY <2>1 DEF EndHere
<1> QED BY <1>3, <1>4, <1>5

(* An action that delivers nothing, and takes no message in hand. *)
LEMMA EndKept ==
    ASSUME Base, EndInv, UNCHANGED <<delivered, split>>, Top' \in Nat, Top <= Top', Later(Stream', LastEnd),
           \/ pc' # "msg"
           \/ /\ pc = "msg" /\ msgId' = msgId /\ InHand(Stream', msgId)
              /\ EndHere(Stream, msgId) => EndHere(Stream', msgId)
    PROVE  EndInv'
<1>1. LastEnd' = LastEnd
  BY DEF LastEnd
<1>2. LastEnd \in 0..Top /\ Top \in Nat
  BY LastEndFacts
<1>3. EndsItself'
  BY DEF EndInv, EndsItself
<1>4. LastEnd' <= Top' /\ Later(Stream', LastEnd')
  BY <1>1, <1>2 DEF EndInv
<1>5. pc' = "msg" => LastEnd' < msgId' /\ InHand(Stream', msgId') /\ (~split' => EndHere(Stream', msgId'))
  BY <1>1 DEF EndInv
<1> QED BY <1>3, <1>4, <1>5 DEF EndInv

LEMMA EndSame ==
    ASSUME Base, EndInv, UNCHANGED <<rxBffr, wire, msgTopic, msgId, delivered, split>>, pc' = "msg" => pc = "msg"
    PROVE  EndInv'
<1>1. Stream' = Stream /\ Top' = Top /\ Top \in Nat
  BY LastEndFacts DEF Stream, Top
<1>2. pc = "msg" => InHand(Stream, msgId)
  BY DEF EndInv
<1> QED BY <1>1, <1>2, EndKept DEF EndInv

LEMMA RecvEnds == ASSUME Base, EndInv, RecvHeader PROVE EndInv'
<1>1. UNCHANGED <<wire, msgTopic, delivered, split>>
  BY RecvMoves
<1>2. PICK i \in 1..Len(rxBffr) :
        /\ rxBffr[i].kind = "RECV"
        /\ \/ rxBffr' = After(rxBffr, i - 1) /\ pc' = Resume
           \/ i < Len(rxBffr) /\ rxBffr' = After(rxBffr, i + 1) /\ pc' \in {"msg", "halt"} /\ msgId' = rxBffr[i].n
  BY RecvMoves
<1>3. i \in 1..Len(Stream) /\ Stream[i] = rxBffr[i] /\ i \in Nat /\ Len(rxBffr) \in Nat /\ Len(Stream) \in Nat
  BY StreamAt, StreamFacts DEF Base, RxT, PiecesT
<1>4. Later(Stream, LastEnd)
  BY DEF EndInv
<1>5. CASE rxBffr' = After(rxBffr, i - 1) /\ pc' = Resume
  <2>1. i - 1 \in 0..Len(rxBffr) /\ i - 1 \in Nat
    BY <1>3
  <2>2. Dropped(Stream', Stream, i - 1) /\ Top' = Top /\ Top \in Nat
    BY <1>1, <1>5, <2>1, TakenKeeps
  <2>3. Later(Stream', LastEnd)
    BY <1>3, <1>4, <2>1, <2>2, DropEnds
  <2>4. pc' # "msg"
    BY <1>5 DEF Resume
  <2> QED BY <1>1, <2>2, <2>3, <2>4, EndKept
<1>6. CASE i < Len(rxBffr) /\ rxBffr' = After(rxBffr, i + 1) /\ pc' \in {"msg", "halt"} /\ msgId' = rxBffr[i].n
  <2> DEFINE n == i + 1
             id == rxBffr[i].n
  <2>1. n \in 0..Len(rxBffr) /\ n \in Nat /\ n = i + 1
    BY <1>3, <1>6
  <2>2. rxBffr' = After(rxBffr, n) /\ msgId' = id /\ id = Stream[i].n /\ Stream[i].kind = "RECV"
    BY <1>2, <1>3, <1>6
  <2> HIDE DEF n, id
  <2>3. Dropped(Stream', Stream, n) /\ Top' = Top /\ Top \in Nat
    BY <1>1, <2>1, <2>2, TakenKeeps
  <2>4. Later(Stream', LastEnd)
    BY <1>3, <1>4, <2>1, <2>3, DropEnds
  <2>5. Whole(Stream, Top)
    BY DEF Base, StreamInv
  <2>6. id \in 1..Top /\ LastEnd < id
    BY <1>3, <1>4, <2>2, <2>5 DEF Whole, Numbered, Later
  <2>7. /\ i + 3 <= Len(Stream) /\ Stream[i + 3].kind = "QUOTE" /\ Stream[i + 3].n = id
    <3>1. i + 4 <= Len(Stream) /\ Stream[i + 3].kind = "QUOTE" /\ Stream[i + 3].n = Stream[i].n
      BY <1>3, <2>2, <2>5 DEF Whole, RecvWhole
    <3> QED BY <1>3, <2>2, <3>1
  <2>8. Len(Stream') = Len(Stream) - n /\ \A j \in 1..Len(Stream') : Stream'[j] = Stream[j + n]
    BY <2>3 DEF Dropped
  <2>9. EndHere(Stream', id)
    <3>1. 2 \in 1..Len(Stream') /\ 2 + n = i + 3
      BY <1>3, <2>1, <2>7, <2>8
    <3>2. Stream'[2] = Stream[i + 3]
      BY <2>8, <3>1
    <3> QED BY <2>7, <3>1, <3>2 DEF EndHere
  <2>10. InHand(Stream', id)
    <3> SUFFICES ASSUME NEW j \in 1..Len(Stream')
                 PROVE  /\ Stream'[j].kind = "RECV" => id < Stream'[j].n
                        /\ Stream'[j].kind = "QUOTE" => id <= Stream'[j].n
      BY DEF InHand
    <3>1. j + n \in 1..Len(Stream) /\ i < j + n
      BY <1>3, <2>1, <2>8
    <3> DEFINE k == j + n
    <3>2. k \in 1..Len(Stream) /\ i < k /\ Stream'[j] = Stream[k]
      BY <2>8, <3>1
    <3> HIDE DEF k
    <3> QED BY <1>3, <2>2, <2>5, <3>2 DEF Whole, InTurn
  <2>11. LastEnd' = LastEnd /\ EndsItself'
    BY <1>1 DEF LastEnd, EndInv, EndsItself
  <2>12. LastEnd' <= Top' /\ Later(Stream', LastEnd')
    BY <2>3, <2>4, <2>11 DEF EndInv
  <2>13. LastEnd' < msgId' /\ InHand(Stream', msgId') /\ EndHere(Stream', msgId')
    BY <2>2, <2>6, <2>9, <2>10, <2>11
  <2> QED BY <2>11, <2>12, <2>13 DEF EndInv
<1> QED BY <1>2, <1>5, <1>6

LEMMA BlockEnds == ASSUME Base, EndInv, MsgBlock PROVE EndInv'
<1>1. pc = "msg" /\ UNCHANGED <<wire, msgTopic>>
  BY BlockMoves
<1>2. PICK n \in 1..Len(rxBffr) :
        /\ rxBffr' = After(rxBffr, n)
        /\ \/ \E i \in FirstEom(SubSeq(rxBffr, 1, n)) :
                 /\ i \in 1..(n - 1) /\ rxBffr[i].kind = "QUOTE"
                 /\ delivered' = Append(delivered, [msg |-> msgId, end |-> rxBffr[i].n])
                 /\ pc' = Resume /\ split' = split
           \/ /\ FirstEom(SubSeq(rxBffr, 1, n)) = {}
              /\ split' = (split \/ rxBffr[n].kind = "QUOTE")
              /\ UNCHANGED <<delivered, pc, msgId>>
  BY BlockMoves
<1> DEFINE block == SubSeq(rxBffr, 1, n)
<1>3. Len(block) = n /\ \A i \in 1..n : block[i] = rxBffr[i]
  BY PrefixFacts DEF Base, RxT, PiecesT
<1> HIDE DEF block
<1>4. n \in 0..Len(rxBffr) /\ n \in Nat /\ Len(rxBffr) \in Nat /\ Len(Stream) \in Nat /\ Len(rxBffr) <= Len(Stream)
  BY StreamFacts DEF Base, RxT, PiecesT
<1>5. Dropped(Stream', Stream, n) /\ Top' = Top /\ Top \in Nat /\ Stream' \in Seq(Pieces)
  BY <1>1, <1>2, <1>4, TakenKeeps
<1>6. Later(Stream', LastEnd) /\ InHand(Stream', msgId)
  BY <1>1, <1>4, <1>5, DropEnds DEF EndInv
<1>7. Whole(Stream, Top)
  BY DEF Base, StreamInv
<1>8. \A i \in 1..n : i \in 1..Len(Stream) /\ Stream[i] = rxBffr[i] /\ block[i] = Stream[i]
  <2>1. \A i \in 1..n : i \in 1..Len(rxBffr)
    BY <1>4
  <2> QED BY <1>3, <2>1, StreamAt
<1>9. msgId \in 1..Top /\ LastEnd < msgId /\ InHand(Stream, msgId)
  BY <1>1, <1>5 DEF Base, MsgT, EndInv
<1>10. ASSUME NEW q \in 1..Len(Stream), Stream[q].kind = "QUOTE", Stream[q].n = msgId, q < n
       PROVE  q \in FirstEom(block)
  <2>1. q + 1 <= Len(Stream) /\ Stream[q + 1].kind = "EOL"
    BY <1>7, <1>10 DEF Whole, QuoteEnds
  <2>2. q \in 1..n /\ q + 1 \in 1..n
    BY <1>4, <1>10
  <2>3. q \in EomAt(block)
    <3>1. block[q].kind = "QUOTE" /\ block[q + 1].kind = "EOL" /\ q \in 1..(n - 1)
      BY <1>4, <1>8, <1>10, <2>1, <2>2
    <3> QED BY <1>3, <3>1 DEF EomAt
  <2>4. ASSUME NEW j \in EomAt(block) PROVE q <= j
    <3>1. j \in 1..n /\ block[j].kind = "QUOTE"
      BY <1>3, <1>4 DEF EomAt
    <3>2. j \in 1..Len(Stream) /\ Stream[j].kind = "QUOTE"
      BY <1>8, <3>1
    <3>3. msgId <= Stream[j].n /\ Stream[j].n \in 1..Top
      BY <1>7, <1>9, <3>2 DEF InHand, Whole, Numbered
    <3>4. j < q => Stream[j].n < Stream[q].n
      BY <1>7, <1>10, <3>2 DEF Whole, InTurn
    <3> QED BY <1>9, <1>10, <3>1, <3>3, <3>4
  <2> QED BY <2>3, <2>4 DEF FirstEom
<1>11. CASE /\ FirstEom(block) = {}
            /\ split' = (split \/ rxBffr[n].kind = "QUOTE")
            /\ UNCHANGED <<delivered, pc, msgId>>
  <2>1. LastEnd' = LastEnd /\ EndsItself'
    <3>1. LastEnd' = LastEnd
      BY <1>11 DEF LastEnd
    <3>2. \A i \in 1..Len(delivered) : /\ delivered[i].end = delivered[i].msg \/ split
                                       /\ i > 1 => delivered[i - 1].end < delivered[i].msg
      BY DEF EndInv, EndsItself
    <3>3. split => split'
      BY <1>11
    <3>4. EndsItself'
      <4> SUFFICES ASSUME NEW k \in 1..Len(delivered')
                   PROVE  /\ delivered'[k].end = delivered'[k].msg \/ split'
                          /\ k > 1 => delivered'[k - 1].end < delivered'[k].msg
        BY DEF EndsItself
      <4>1. delivered' = delivered
        BY <1>11
      <4>2. k \in 1..Len(delivered)
        BY <4>1
      <4>3. delivered[k].end = delivered[k].msg \/ split
        BY <3>2, <4>2, Zenon
      <4>4. k > 1 => delivered[k - 1].end < delivered[k].msg
        BY <3>2, <4>2, Zenon
      <4> QED BY <3>3, <4>1, <4>3, <4>4, Zenon
    <3> QED BY <3>1, <3>4
  <2>2. ASSUME ~split' PROVE EndHere(Stream', msgId')
    <3>1. ~split /\ rxBffr[n].kind # "QUOTE"
      BY <1>11, <2>2
    <3>2. PICK q \in 1..Len(Stream) : Stream[q].kind = "QUOTE" /\ Stream[q].n = msgId
      BY <1>1, <3>1 DEF EndInv, EndHere
    <3>3. ~(q < n)
      BY <1>10, <1>11, <3>2
    <3>4. q # n
      <4>1. n \in 1..n
        BY <1>2
      <4> QED BY <1>8, <3>1, <3>2, <4>1
    <3> DEFINE j == q - n
    <3>5. j \in 1..Len(Stream') /\ j + n = q
      BY <1>4, <1>5, <3>3, <3>4 DEF Dropped
    <3> HIDE DEF j
    <3>6. Stream'[j] = Stream[q]
      BY <1>5, <3>5 DEF Dropped
    <3> QED BY <1>11, <3>2, <3>5, <3>6 DEF EndHere
  <2>3. LastEnd' <= Top' /\ Later(Stream', LastEnd')
    BY <1>5, <1>6, <2>1 DEF EndInv
  <2>4. LastEnd' < msgId' /\ InHand(Stream', msgId')
    BY <1>6, <1>9, <1>11, <2>1
  <2> QED BY <2>1, <2>2, <2>3, <2>4 DEF EndInv
<1>12. ASSUME NEW i \in FirstEom(block), i \in 1..(n - 1), rxBffr[i].kind = "QUOTE",
              delivered' = Append(delivered, [msg |-> msgId, end |-> rxBffr[i].n]), pc' = Resume, split' = split
       PROVE  EndInv'
  <2> DEFINE e == rxBffr[i].n
  <2>1. i \in 1..n /\ i \in Nat /\ i < n
    BY <1>4, <1>12
  <2>2. i \in 1..Len(Stream) /\ Stream[i].kind = "QUOTE" /\ Stream[i].n = e
    BY <1>8, <1>12, <2>1
  <2> DEFINE d == [msg |-> msgId, end |-> e]
  <2>3. delivered' = Append(delivered, d) /\ d.msg = msgId /\ d.end = e
    BY <1>12
  <2> HIDE DEF e, d
  <2>4. e \in 1..Top /\ msgId <= e
    BY <1>7, <1>9, <2>2 DEF Whole, Numbered, InHand
  <2>5. ~split => e = msgId
    <3> SUFFICES ASSUME ~split PROVE e = msgId
      OBVIOUS
    <3>1. PICK q \in 1..Len(Stream) : Stream[q].kind = "QUOTE" /\ Stream[q].n = msgId
      BY <1>1 DEF EndInv, EndHere
    <3>2. ~(q < i)
      <4> SUFFICES ASSUME q < i PROVE FALSE
        OBVIOUS
      <4>1. q < n /\ q \in Nat
        BY <2>1
      <4>2. q \in FirstEom(block) /\ q \in EomAt(block)
        BY <1>10, <3>1, <4>1 DEF FirstEom
      <4>3. i <= q
        BY <1>12, <4>2 DEF FirstEom
      <4> QED BY <2>1, <4>1, <4>3
    <3>3. ~(i < q)
      <4> SUFFICES ASSUME i < q PROVE FALSE
        OBVIOUS
      <4>1. Stream[i].n < Stream[q].n
        BY <1>7, <2>2, <3>1 DEF Whole, InTurn
      <4> QED BY <1>9, <2>2, <2>4, <3>1, <4>1
    <3>4. i = q
      BY <2>1, <3>2, <3>3
    <3> QED BY <2>2, <3>1, <3>4
  <2>6. /\ Len(delivered) \in Nat /\ Len(delivered') = Len(delivered) + 1 /\ delivered'[Len(delivered) + 1] = d
        /\ \A k \in 1..Len(delivered) : delivered'[k] = delivered[k]
    <3> DEFINE S == [msg : 1..Top, end : 1..Top]
    <3>1. delivered \in Seq(S)
      BY DEF Base, MsgT
    <3> HIDE DEF S
    <3> QED BY <2>3, <3>1
  <2>7. LastEnd' = e
    <3>1. delivered' # <<>>
      BY <2>6
    <3> QED BY <2>3, <2>6, <3>1 DEF LastEnd
  <2>8. Later(Stream', e)
    <3> SUFFICES ASSUME NEW j \in 1..Len(Stream'), Stream'[j].kind = "RECV" PROVE e < Stream'[j].n
      BY DEF Later
    <3> DEFINE k == j + n
    <3>1. k \in 1..Len(Stream) /\ i < k /\ Stream'[j] = Stream[k]
      BY <1>4, <1>5, <2>1 DEF Dropped
    <3> HIDE DEF k
    <3> QED BY <1>7, <2>2, <3>1 DEF Whole, InTurn
  <2>9. EndsItself'
    <3> SUFFICES ASSUME NEW k \in 1..Len(delivered')
                 PROVE  /\ delivered'[k].end = delivered'[k].msg \/ split'
                        /\ k > 1 => delivered'[k - 1].end < delivered'[k].msg
      BY DEF EndsItself
    <3>1. CASE k \in 1..Len(delivered)
      <4>1. /\ delivered[k].end = delivered[k].msg \/ split
            /\ k > 1 => delivered[k - 1].end < delivered[k].msg
        BY <3>1 DEF EndInv, EndsItself
      <4>2. delivered'[k] = delivered[k] /\ (k > 1 => delivered'[k - 1] = delivered[k - 1])
        BY <2>6, <3>1
      <4> QED BY <1>12, <4>1, <4>2
    <3>2. CASE k = Len(delivered) + 1
      <4>1. delivered'[k].end = e /\ delivered'[k].msg = msgId
        BY <2>3, <2>6, <3>2
      <4>2. k > 1 => delivered'[k - 1].end = LastEnd
        <5> SUFFICES ASSUME k > 1 PROVE delivered'[k - 1].end = LastEnd
          OBVIOUS
        <5>1. k - 1 = Len(delivered) /\ Len(delivered) \in 1..Len(delivered) /\ delivered # <<>>
          BY <2>6, <3>2
        <5> QED BY <2>6, <5>1 DEF LastEnd
      <4>3. e = msgId \/ split'
        BY <1>12, <2>5
      <4> QED BY <1>9, <4>1, <4>2, <4>3
    <3> QED BY <2>6, <3>1, <3>2
  <2>10. pc' # "msg"
    BY <1>12 DEF Resume
  <2>11. LastEnd' <= Top' /\ Later(Stream', LastEnd')
    BY <1>5, <2>4, <2>7, <2>8
  <2> QED BY <2>9, <2>10, <2>11 DEF EndInv
<1> QED BY <1>2, <1>11, <1>12 DEF block

LEMMA StatEnds == ASSUME Base, EndInv, StatEvent PROVE EndInv'
<1>1. UNCHANGED <<wire, msgTopic, delivered, split>> /\ pc' # "msg"
  BY StatMoves DEF Resume
<1>2. PICK i \in 1..Len(rxBffr) : rxBffr' = <<Eol>> \o After(rxBffr, i)
  BY StatMoves
<1> DEFINE a == After(Stream, i)
<1>3. Dropped(a, Stream, i) /\ LedBy(Stream', a, Eol) /\ a \in Seq(Pieces) /\ Stream \in Seq(Pieces)
  BY <1>1, <1>2, StatStream
<1> HIDE DEF a
<1>4. i \in Nat /\ Len(Stream) \in Nat /\ Len(a) \in Nat /\ Eol.kind \notin {"RECV", "QUOTE"}
  BY <1>3, EolFacts
<1>5. Later(a, LastEnd)
  BY <1>3, <1>4, DropEnds DEF EndInv
<1>6. Later(Stream', LastEnd)
  BY <1>3, <1>4, <1>5, LedEnds
<1>7. Top' = Top /\ Top \in Nat
  BY <1>1, LastEndFacts DEF Top
<1> QED BY <1>1, <1>6, <1>7, EndKept

LEMMA ReadEnds == ASSUME Base, EndInv, ReadResult PROVE EndInv'
<1>1. UNCHANGED <<wire, msgTopic, delivered, split>> /\ pc' # "msg" /\ rxBffr' = <<>>
  BY ReadMoves
<1> DEFINE n == Len(rxBffr)
<1>2. n \in 0..Len(rxBffr) /\ n \in Nat /\ rxBffr' = After(rxBffr, n)
  BY <1>1, AllTaken DEF Base, RxT, PiecesT
<1> HIDE DEF n
<1>3. Dropped(Stream', Stream, n) /\ Top' = Top /\ Top \in Nat /\ Stream \in Seq(Pieces)
  BY <1>1, <1>2, TakenKeeps
<1>4. Later(Stream', LastEnd)
  BY <1>2, <1>3, DropEnds DEF EndInv
<1> QED BY <1>1, <1>3, <1>4, EndKept

LEMMA ArriveEnds == ASSUME Base, EndInv, Arrive PROVE EndInv'
<1>1. UNCHANGED <<msgTopic, pc, msgId, delivered, split>>
  BY DEF Arrive, callVars, histVars
<1>2. Stream' = Stream
  BY StreamArrive DEF Base, RxT
<1>3. Top' = Top /\ Top \in Nat
  BY <1>1, LastEndFacts DEF Top
<1>4. pc = "msg" => InHand(Stream, msgId)
  BY DEF EndInv
<1> QED BY <1>1, <1>2, <1>3, <1>4, EndKept DEF EndInv

LEMMA OwnEnds ==
    ASSUME Base, EndInv, wire = <<>>, wire' \in Own, UNCHANGED <<rxBffr, msgTopic, pc, msgId, delivered, split>>
    PROVE  EndInv'
<1>1. Stream \in Seq(Pieces) /\ Extended(Stream', Stream, wire')
  BY OwnKeeps
<1>2. /\ Len(Stream) \in Nat /\ Len(wire') \in Nat
      /\ \A i \in 1..Len(wire') : wire'[i].kind \notin {"RECV", "QUOTE"}
  BY <1>1 DEF Own
<1>3. ASSUME NEW e \in Nat
      PROVE  /\ Later(Stream, e) => Later(Stream', e)
             /\ InHand(Stream, e) => InHand(Stream', e)
             /\ EndHere(Stream, e) => EndHere(Stream', e)
  BY <1>1, <1>2, ExtendEnds
<1>4. LastEnd \in Nat /\ msgId \in Nat /\ Top \in Nat /\ Top' = Top
  BY LastEndFacts DEF Base, MsgT, Top
<1>5. Later(Stream', LastEnd) /\ (pc = "msg" => InHand(Stream', msgId)) /\ (EndHere(Stream, msgId) => EndHere(Stream', msgId))
  BY <1>3, <1>4 DEF EndInv
<1> QED BY <1>4, <1>5, EndKept

LEMMA SendEnds == ASSUME Base, EndInv, NEW t \in Topics, ServerSends(t) PROVE EndInv'
<1>1. /\ wire' = Message(Top + 1) /\ Top' = Top + 1 /\ Top \in Nat
      /\ UNCHANGED <<pc, msgId, delivered, split>>
      /\ Stream \in Seq(Pieces) /\ Stream' \in Seq(Pieces) /\ Extended(Stream', Stream, wire')
  BY SendMoves
<1>2. Len(wire') = 5 /\ \A i \in 1..Len(wire') : wire'[i].n = Top + 1
  <2>1. Len(wire') = 5 /\ wire'[1].n = Top + 1 /\ wire'[2].n = Top + 1 /\ wire'[3].n = Top + 1
        /\ wire'[4].n = Top + 1 /\ wire'[5].n = Top + 1
    BY <1>1 DEF Message, Piece
  <2>2. \A i \in 1..5 : i = 1 \/ i = 2 \/ i = 3 \/ i = 4 \/ i = 5
    OBVIOUS
  <2> QED BY <2>1, <2>2
<1>3. ASSUME NEW e \in 0..Top
      PROVE  /\ Later(Stream, e) => Later(Stream', e)
             /\ InHand(Stream, e) => InHand(Stream', e)
             /\ EndHere(Stream, e) => EndHere(Stream', e)
  <2>1. /\ \A i \in 1..Len(wire') : wire'[i].n \in Nat /\ e < wire'[i].n
        /\ e \in Nat /\ Len(Stream) \in Nat /\ Len(wire') \in Nat
    BY <1>1, <1>2
  <2> QED BY <1>1, <2>1, ExtendEnds
<1>4. LastEnd \in 0..Top /\ msgId \in 0..Top
  BY LastEndFacts DEF Base, MsgT
<1>5. Later(Stream', LastEnd) /\ (pc = "msg" => InHand(Stream', msgId)) /\ (EndHere(Stream, msgId) => EndHere(Stream', msgId))
  BY <1>3, <1>4 DEF EndInv
<1>6. Top' \in Nat /\ Top <= Top'
  BY <1>1
<1> QED BY <1>1, <1>5, <1>6, EndKept

LEMMA EndInductive == ASSUME Base, EndInv, [Next]_vars PROVE EndInv'
<1>1. ASSUME NEW c \in Calls, Call(c) PROVE EndInv'
  <2>1. UNCHANGED <<rxBffr, wire, msgTopic, msgId, delivered, split>> /\ pc' # "msg"
    BY <1>1 DEF Call, Begin, rxVars, moduleVars, histVars
  <2> QED BY <2>1, EndSame
<1>2. ASSUME NEW t \in Topics, SubscribeTopic(t) \/ CancelTopic(t) PROVE EndInv'
  <2>1. UNCHANGED <<rxBffr, wire, msgTopic, msgId, delivered, split>> /\ pc' # "msg"
    BY <1>2 DEF SubscribeTopic, CancelTopic, Begin, rxVars, moduleVars
  <2> QED BY <2>1, EndSame
<1>3. CASE Stage
  <2>1. UNCHANGED <<rxBffr, wire, msgTopic, msgId, delivered, split>> /\ pc' # "msg"
    BY <1>3 DEF Stage, Begin, rxVars, moduleVars, histVars
  <2> QED BY <2>1, EndSame
<1>4. CASE AddStreamAssert \/ Invoke \/ NoEvent
  <2>1. UNCHANGED <<rxBffr, wire, msgTopic, msgId, delivered, split>> /\ pc' # "msg"
    BY <1>4 DEF AddStreamAssert, Invoke, NoEvent, Resume, rxVars, moduleVars, histVars
  <2> QED BY <2>1, EndSame
<1>5. CASE Answer
  <2>1. wire = <<>> /\ wire' \in Own /\ UNCHANGED <<rxBffr, msgTopic, pc, msgId, delivered, split>>
    BY <1>5, AnswerMoves
  <2> QED BY <2>1, OwnEnds
<1>6. CASE ServerDrops
  <2>1. wire = <<>> /\ wire' = <<Piece("QMTSTAT", 0)>> /\ UNCHANGED <<rxBffr, msgTopic, pc, msgId, delivered, split>>
    BY <1>6 DEF ServerDrops, Line, Emit, rxVars, callVars, histVars
  <2>2. "QMTSTAT" \in Kinds \ {"RECV", "QUOTE"} /\ 0 \in 0..5
    BY KindsAre
  <2>3. <<Piece("QMTSTAT", 0)>> \in Own
    BY <2>2, OwnLine
  <2>4. wire' \in Own
    BY <2>1, <2>3
  <2> QED BY <2>1, <2>4, OwnEnds
<1>7. CASE UNCHANGED vars
  <2>1. UNCHANGED <<rxBffr, wire, msgTopic, msgId, delivered, split, pc>>
    BY <1>7 DEF vars, rxVars, callVars, moduleVars, histVars
  <2> QED BY <2>1, EndSame
<1> QED BY <1>1, <1>2, <1>3, <1>4, <1>5, <1>6, <1>7, RecvEnds, BlockEnds, StatEnds, ReadEnds, ArriveEnds, SendEnds
        DEF Next, Application, Program, Server

LEMMA EndInit == Init => EndInv
<1> SUFFICES ASSUME Init PROVE EndInv
  OBVIOUS
<1>1. delivered = <<>> /\ pc = "idle" /\ rxBffr = <<>> /\ wire = <<>> /\ msgTopic = <<>>
  BY DEF Init
<1>2. Len(Stream) = 0
  BY <1>1, BaseInit, StreamFacts DEF Base, RxT
<1>3. LastEnd = 0 /\ Top = 0
  BY <1>1 DEF LastEnd, Top
<1>4. EndsItself
  BY <1>1 DEF EndsItself
<1> QED BY <1>1, <1>2, <1>3, <1>4 DEF EndInv, Later

(* Theorem 4.  The application is given each message at most once and in   *)
(* the order of the server, and its own end ends it, unless a block of the *)
(* buffer has cut that end in two: for every number of messages, whatever  *)
(* commands run and whatever they take out of the same buffer.             *)
THEOREM MessagesEndThemselves == Spec => []EndsItself
<1>1. Init => Base /\ TableInv /\ TopicOnce /\ EndInv
  BY BaseInit, TableInit, EndInit
<1>2. (Base /\ TableInv /\ TopicOnce /\ EndInv) /\ [Next]_vars => (Base /\ TableInv /\ TopicOnce /\ EndInv)'
  BY BaseInductive, TableStep, EndInductive
<1>3. EndInv => EndsItself
  BY DEF EndInv
<1>4. QED BY <1>1, <1>2, <1>3, PTL DEF Spec

-----------------------------------------------------------------------------
(* The state the application is told.  What an open or a query learns is   *)
(* true of the module, or the news of its loss comes after it: as long as  *)
(* the command was not sent among answers to commands given up.            *)
Running == todo # <<>> /\ pc \in {"events", "read", "msg"}
Busy(w) == Running /\ ~late /\ Head(todo).do = w

Covered(s, k) == \E m \in 1..Len(s) : k < m /\ s[m].kind = "QMTSTAT"
Told(k)       == unnoticed \/ Covered(Stream, k)
NotAbove(n)   == Rank(Status(n)) <= Rank(link)

Ahead == Rank(state) > Rank(link) => Told(0) \/ pc = "halt"

Alone == /\ Busy("OPEN") => order = <<>> \/ (Len(order) = 1 /\ order[1].do \in {"OPEN", "opening"})
         /\ Busy("STATE") => order = <<>> \/ (Len(order) = 1 /\ order[1].do = "STATE")

Undecided ==
    /\ Busy("OPEN") => \A i \in 1..Len(rawResponse) : rawResponse[i].kind # "QMTOPEN"
    /\ Busy("STATE") => \A j, k \in 1..Len(rawResponse) :
                          j < k => ~(rawResponse[j].kind = "QMTSTATE" /\ rawResponse[k].kind = "OK")

OpenTrue ==
    Busy("OPEN") => \A k \in 1..Len(Stream) : Stream[k].kind = "QMTOPEN" /\ Stream[k].n = 0 =>
        order = <<>> /\ (link # "closed" \/ Told(k))

StateTrue ==
    Busy("STATE") =>
        /\ \A j \in 1..Len(rawResponse) : rawResponse[j].kind = "QMTSTATE" =>
              /\ order = <<>>
              /\ \A k \in 1..Len(Stream) : Stream[k].kind = "OK" => NotAbove(rawResponse[j].n) \/ Told(k)
        /\ \A j \in 1..Len(Stream) : Stream[j].kind = "QMTSTATE" =>
              /\ order = <<>>
              /\ \A k \in 1..Len(Stream) : j < k /\ Stream[k].kind = "OK" => NotAbove(Stream[j].n) \/ Told(k)

Aside == Alone /\ Undecided /\ OpenTrue /\ StateTrue

(* The stream moves, and no result piece comes nearer to its front than    *)
(* the news that were behind it.                                           *)
Results == {"QMTOPEN", "QMTSTATE", "OK"}
TracksBy(t, s, d) == \A k \in 1..Len(t) : t[k].kind \in Results =>
    k + d \in 1..Len(s) /\ t[k] = s[k + d] /\ (Covered(s, k + d) => Covered(t, k))
Tracks(t, s) == \E d \in Int : TracksBy(t, s, d)

LEMMA DroppedTracks ==
    ASSUME NEW s, NEW t, NEW n \in Nat, Len(s) \in Nat, Dropped(t, s, n)
    PROVE  /\ TracksBy(t, s, n) /\ Tracks(t, s)
           /\ \A k \in Nat : Covered(s, k) => Covered(t, 0) \/ \E m \in 1..n : m <= Len(s) /\ s[m].kind = "QMTSTAT"
<1>1. Len(t) = Len(s) - n /\ \A i \in 1..Len(t) : t[i] = s[i + n] /\ i + n \in 1..Len(s)
  BY DEF Dropped
<1>2. ASSUME NEW k \in Nat, NEW m \in 1..Len(s), k + n < m, s[m].kind = "QMTSTAT" PROVE Covered(t, k)
  <2> DEFINE l == m - n
  <2>1. l \in 1..Len(t) /\ l + n = m /\ k < l
    BY <1>1, <1>2
  <2> HIDE DEF l
  <2>2. t[l] = s[m]
    BY <1>1, <2>1
  <2> QED BY <1>2, <2>1, <2>2 DEF Covered
<1>3. \A k \in 1..Len(t) : Covered(s, k + n) => Covered(t, k)
  BY <1>2 DEF Covered
<1>4. TracksBy(t, s, n)
  BY <1>1, <1>3 DEF TracksBy
<1>5. ASSUME NEW k \in Nat, Covered(s, k)
      PROVE  Covered(t, 0) \/ \E m \in 1..n : m <= Len(s) /\ s[m].kind = "QMTSTAT"
  <2>1. PICK m \in 1..Len(s) : s[m].kind = "QMTSTAT"
    BY <1>5 DEF Covered
  <2>2. CASE n < m
    BY <1>2, <2>1, <2>2
  <2>3. CASE ~(n < m)
    BY <2>1, <2>3
  <2> QED BY <2>2, <2>3
<1> QED BY <1>4, <1>5 DEF Tracks

LEMMA LedTracks ==
    ASSUME NEW s, NEW a, NEW t, NEW p, NEW n \in Nat, Len(s) \in Nat, Dropped(a, s, n), n <= Len(s),
           LedBy(t, a, p), p.kind \notin Results
    PROVE  Tracks(t, s)
<1>1. /\ Len(a) = Len(s) - n /\ Len(t) = Len(a) + 1 /\ t[1] = p /\ Len(a) \in Nat
      /\ \A i \in 1..Len(a) : t[i + 1] = a[i] /\ a[i] = s[i + n] /\ i + n \in 1..Len(s)
  BY DEF Dropped, LedBy
<1>2. ASSUME NEW k \in 1..Len(t), t[k].kind \in Results
      PROVE  k + (n - 1) \in 1..Len(s) /\ t[k] = s[k + (n - 1)] /\ (Covered(s, k + (n - 1)) => Covered(t, k))
  <2> DEFINE i == k - 1
  <2>1. k # 1
    BY <1>1, <1>2
  <2>2. i \in 1..Len(a) /\ i + 1 = k /\ i + n = k + (n - 1) /\ i \in Nat
    BY <1>1, <2>1
  <2> HIDE DEF i
  <2>3. t[k] = s[i + n] /\ i + n \in 1..Len(s)
    BY <1>1, <2>2
  <2>4. ASSUME NEW m \in 1..Len(s), i + n < m, s[m].kind = "QMTSTAT" PROVE Covered(t, k)
    <3> DEFINE l == m - n
    <3>1. l \in 1..Len(a) /\ l + n = m /\ k < l + 1 /\ l + 1 \in 1..Len(t)
      BY <1>1, <2>2, <2>4
    <3> HIDE DEF l
    <3>2. t[l + 1] = s[m]
      BY <1>1, <3>1
    <3> QED BY <2>4, <3>1, <3>2 DEF Covered
  <2>5. Covered(s, i + n) => Covered(t, k)
    BY <2>4 DEF Covered
  <2> QED BY <2>2, <2>3, <2>5
<1>3. n - 1 \in Int /\ TracksBy(t, s, n - 1)
  BY <1>2 DEF TracksBy
<1> QED BY <1>3 DEF Tracks

LEMMA ExtendedTracks ==
    ASSUME NEW s, NEW t, NEW w, Len(s) \in Nat, Len(w) \in Nat, Extended(t, s, w)
    PROVE  /\ \A k \in Nat : Covered(s, k) => Covered(t, k)
           /\ (\A i \in 1..Len(w) : w[i].kind \notin Results) => Tracks(t, s)
           /\ \A k \in 1..Len(t) : \/ k \in 1..Len(s) /\ t[k] = s[k]
                                   \/ k - Len(s) \in 1..Len(w) /\ t[k] = w[k - Len(s)]
<1>1. /\ Len(t) = Len(s) + Len(w)
      /\ \A i \in 1..Len(s) : i \in 1..Len(t) /\ t[i] = s[i]
  BY DEF Extended
<1>2. \A k \in Nat : Covered(s, k) => Covered(t, k)
  BY <1>1 DEF Covered
<1>3. ASSUME NEW k \in 1..Len(t)
      PROVE  \/ k \in 1..Len(s) /\ t[k] = s[k]
             \/ k - Len(s) \in 1..Len(w) /\ t[k] = w[k - Len(s)]
  <2>1. CASE k <= Len(s)
    BY <1>1, <2>1
  <2>2. CASE ~(k <= Len(s))
    <3> DEFINE l == k - Len(s)
    <3>1. l \in 1..Len(w) /\ l + Len(s) = k
      BY <1>1, <2>2
    <3> HIDE DEF l
    <3>2. t[k] = w[l]
      BY <3>1 DEF Extended
    <3> QED BY <3>1, <3>2 DEF l
  <2> QED BY <2>1, <2>2
<1>4. ASSUME \A i \in 1..Len(w) : w[i].kind \notin Results PROVE Tracks(t, s)
  <2>1. ASSUME NEW k \in 1..Len(t), t[k].kind \in Results
        PROVE  k + 0 \in 1..Len(s) /\ t[k] = s[k + 0] /\ (Covered(s, k + 0) => Covered(t, k))
    <3>1. k \in 1..Len(s) /\ t[k] = s[k]
      BY <1>3, <1>4, <2>1
    <3>2. k + 0 = k /\ k \in Nat
      OBVIOUS
    <3> QED BY <1>2, <3>1, <3>2
  <2>2. 0 \in Int /\ TracksBy(t, s, 0)
    BY <2>1 DEF TracksBy
  <2> QED BY <2>2 DEF Tracks
<1> QED BY <1>2, <1>3, <1>4

LEMMA SameTracks ==
    ASSUME NEW s, Len(s) \in Nat
    PROVE  Tracks(s, s)
<1>1. ASSUME NEW k \in 1..Len(s) PROVE k + 0 = k
  OBVIOUS
<1>2. 0 \in Int /\ TracksBy(s, s, 0)
  BY <1>1 DEF TracksBy
<1> QED BY <1>2 DEF Tracks

-----------------------------------------------------------------------------
(* What the parsers of open and of the query decide on. *)
LEMMA LeastNatural ==
    ASSUME NEW S \in SUBSET Nat, S # {}
    PROVE  \E x \in S : \A y \in S : x <= y
<1>1. PICK x \in S : \A y \in S : ~(<<y, x>> \in OpToRel(<, Nat))
  BY NatLessThanWellFounded, WFMin
<1>2. \A y \in S : ~(y < x)
  BY <1>1 DEF OpToRel
<1> QED BY <1>2

LEMMA FirstExists ==
    ASSUME NEW s \in Seq(Pieces), NEW K, NEW i \in 1..Len(s), s[i].kind \in K
    PROVE  \E f \in FirstOf(s, K) : f \in 1..Len(s) /\ f <= i /\ s[f].kind \in K
<1> DEFINE S == {j \in 1..Len(s) : s[j].kind \in K}
<1>1. S \in SUBSET Nat /\ i \in S
  OBVIOUS
<1>2. PICK f \in S : \A y \in S : f <= y
  BY <1>1, LeastNatural
<1>3. f \in 1..Len(s) /\ s[f].kind \in K /\ f <= i
  BY <1>1, <1>2
<1>4. ASSUME NEW j \in 1..(f - 1) PROVE s[j].kind \notin K
  <2>1. j \in 1..Len(s) /\ ~(f <= j)
    BY <1>3
  <2> QED BY <1>2, <2>1
<1>5. f \in FirstOf(s, K)
  BY <1>3, <1>4 DEF FirstOf
<1> QED BY <1>3, <1>5

LEMMA OpenDecided ==
    ASSUME NEW s \in Seq(Pieces), NEW i \in 1..Len(s), s[i].kind = "QMTOPEN"
    PROVE  Parse("OPEN", s) # {}
<1>1. CASE Has(s, "ERROR")
  BY <1>1 DEF Parse
<1>2. CASE ~Has(s, "ERROR")
  <2>1. Parse("OPEN", s) = Required(s, "QMTOPEN", 10)
    BY <1>2 DEF Parse
  <2>2. Has(s, "QMTOPEN")
    BY DEF Has
  <2>3. Required(s, "QMTOPEN", 10) = {s[f] : f \in FirstOf(s, {"QMTOPEN"})}
    BY <2>2 DEF Required
  <2>4. FirstOf(s, {"QMTOPEN"}) # {}
    BY FirstExists
  <2> QED BY <2>1, <2>3, <2>4
<1> QED BY <1>1, <1>2

LEMMA OpenFound ==
    ASSUME NEW s \in Seq(Pieces), Piece("QMTOPEN", 0) \in Parse("OPEN", s)
    PROVE  \E i \in 1..Len(s) : s[i].kind = "QMTOPEN" /\ s[i].n = 0
<1>1. Piece("QMTOPEN", 0).kind = "QMTOPEN" /\ Piece("QMTOPEN", 0).n = 0 /\ Piece("failed", 0).kind = "failed"
  BY DEF Piece
<1>2. Piece("QMTOPEN", 0) # Piece("failed", 0)
  BY <1>1
<1>3. ~Has(s, "ERROR")
  BY <1>2 DEF Parse
<1>4. Piece("QMTOPEN", 0) \in Required(s, "QMTOPEN", 10)
  BY <1>3 DEF Parse
<1>5. Piece("QMTOPEN", 0) \in {s[i] : i \in FirstOf(s, {"QMTOPEN"})}
  BY <1>2, <1>4 DEF Required
<1>6. PICK i \in FirstOf(s, {"QMTOPEN"}) : Piece("QMTOPEN", 0) = s[i]
  BY <1>5
<1>7. i \in 1..Len(s)
  BY <1>6, FirstOfFacts
<1> QED BY <1>1, <1>6, <1>7

LEMMA StateDecided ==
    ASSUME NEW s \in Seq(Pieces), NEW j \in 1..Len(s), NEW k \in 1..Len(s), j < k,
           s[j].kind = "QMTSTATE", s[k].kind = "OK"
    PROVE  Parse("STATE", s) # {}
<1>1. CASE Has(s, "ERROR")
  BY <1>1 DEF Parse
<1>2. CASE ~Has(s, "ERROR")
  <2>1. Parse("STATE", s) = {s[f] : f \in {g \in ConnPieces(s) : Has(After(s, g), "OK")}}
    BY <1>2 DEF Parse
  <2>2. s[j].kind \in {"QMTCONN", "QMTSTATE"}
    OBVIOUS
  <2>3. PICK f \in ConnPieces(s) : f \in 1..Len(s) /\ f <= j
    BY <2>2, FirstExists DEF ConnPieces
  <2> DEFINE l == k - f
  <2>4. l \in 1..(Len(s) - f) /\ l + f = k /\ f \in 0..Len(s)
    BY <2>3
  <2> HIDE DEF l
  <2>5. Len(After(s, f)) = Len(s) - f /\ After(s, f)[l] = s[k] /\ After(s, f) \in Seq(Pieces)
    BY <2>4, AfterFacts
  <2>6. Has(After(s, f), "OK")
    BY <2>4, <2>5 DEF Has
  <2> QED BY <2>1, <2>3, <2>6
<1> QED BY <1>1, <1>2

LEMMA StateFound ==
    ASSUME NEW s \in Seq(Pieces), NEW p \in Parse("STATE", s), p.kind = "QMTSTATE"
    PROVE  \E j, k \in 1..Len(s) : j < k /\ s[j] = p /\ s[k].kind = "OK"
<1>1. ~Has(s, "ERROR")
  BY DEF Parse, Piece
<1>2. p \in {s[f] : f \in {g \in ConnPieces(s) : Has(After(s, g), "OK")}}
  BY <1>1 DEF Parse
<1>3. PICK f \in ConnPieces(s) : p = s[f] /\ Has(After(s, f), "OK")
  BY <1>2
<1>4. f \in 1..Len(s) /\ f \in 0..Len(s)
  BY FirstOfFacts DEF ConnPieces
<1>5. /\ Len(After(s, f)) = Len(s) - f /\ After(s, f) \in Seq(Pieces)
      /\ \A i \in 1..(Len(s) - f) : After(s, f)[i] = s[i + f]
  BY <1>4, AfterFacts
<1>6. PICK i \in 1..(Len(s) - f) : After(s, f)[i].kind = "OK"
  BY <1>3, <1>5 DEF Has
<1> DEFINE k == i + f
<1>7. k \in 1..Len(s) /\ f < k /\ After(s, f)[i] = s[k]
  BY <1>4, <1>5
<1> HIDE DEF k
<1> QED BY <1>3, <1>4, <1>6, <1>7

-----------------------------------------------------------------------------
(* An action that is not the module's, nor reads a result. *)
LEMMA AsideKept ==
    ASSUME Base, Aside, UNCHANGED <<link, order, rawResponse>>, unnoticed => unnoticed',
           Running' => Running /\ UNCHANGED <<late, todo>>,
           Tracks(Stream', Stream)
    PROVE  Aside'
<1>1. PICK d \in Int : TracksBy(Stream', Stream, d)
  BY DEF Tracks
<1>2. \A w : Busy(w)' => Busy(w)
  BY DEF Busy
<1>3. Alone' /\ Undecided'
  BY <1>2 DEF Aside, Alone, Undecided
<1>4. ASSUME NEW k \in 1..Len(Stream'), Stream'[k].kind \in Results
      PROVE  /\ k + d \in 1..Len(Stream) /\ Stream'[k] = Stream[k + d]
             /\ Told(k + d) => Told(k)'
  BY <1>1, <1>4 DEF TracksBy, Told
<1>5. ASSUME Busy("OPEN")', NEW k \in 1..Len(Stream'), Stream'[k].kind = "QMTOPEN", Stream'[k].n = 0
      PROVE  order' = <<>> /\ (link' # "closed" \/ Told(k)')
  <2> DEFINE l == k + d
  <2>1. l \in 1..Len(Stream) /\ Stream'[k] = Stream[l] /\ (Told(l) => Told(k)')
    BY <1>4, <1>5 DEF Results
  <2> HIDE DEF l
  <2>2. order = <<>> /\ (link # "closed" \/ Told(l))
    BY <1>2, <1>5, <2>1 DEF Aside, OpenTrue
  <2> QED BY <2>1, <2>2
<1>6. OpenTrue'
  BY <1>5 DEF OpenTrue
<1>7. \A n : NotAbove(n) => NotAbove(n)'
  BY DEF NotAbove
<1>8. ASSUME Busy("STATE")', NEW j \in 1..Len(rawResponse'), rawResponse'[j].kind = "QMTSTATE"
      PROVE  /\ order' = <<>>
             /\ \A k \in 1..Len(Stream') : Stream'[k].kind = "OK" => NotAbove(rawResponse[j].n)' \/ Told(k)'
  <2>1. /\ j \in 1..Len(rawResponse) /\ order = <<>>
        /\ \A k \in 1..Len(Stream) : Stream[k].kind = "OK" => NotAbove(rawResponse[j].n) \/ Told(k)
    BY <1>2, <1>8 DEF Aside, StateTrue
  <2>2. ASSUME NEW k \in 1..Len(Stream'), Stream'[k].kind = "OK"
        PROVE  NotAbove(rawResponse[j].n)' \/ Told(k)'
    <3> DEFINE l == k + d
    <3>1. l \in 1..Len(Stream) /\ Stream'[k] = Stream[l] /\ (Told(l) => Told(k)')
      BY <1>4, <2>2 DEF Results
    <3> HIDE DEF l
    <3>2. NotAbove(rawResponse[j].n) \/ Told(l)
      BY <2>1, <2>2, <3>1
    <3> QED BY <1>7, <3>1, <3>2
  <2> QED BY <2>1, <2>2
<1>9. ASSUME Busy("STATE")', NEW j \in 1..Len(Stream'), Stream'[j].kind = "QMTSTATE"
      PROVE  /\ order' = <<>>
             /\ \A k \in 1..Len(Stream') : j < k /\ Stream'[k].kind = "OK" => NotAbove(Stream[j].n)' \/ Told(k)'
  <2> DEFINE i == j + d
  <2>0. i \in 1..Len(Stream) /\ Stream'[j] = Stream[i] /\ i = j + d
    BY <1>4, <1>9 DEF Results
  <2> HIDE DEF i
  <2>1. /\ order = <<>>
        /\ \A k \in 1..Len(Stream) : i < k /\ Stream[k].kind = "OK" => NotAbove(Stream[i].n) \/ Told(k)
    BY <1>2, <1>9, <2>0 DEF Aside, StateTrue
  <2>2. ASSUME NEW k \in 1..Len(Stream'), j < k, Stream'[k].kind = "OK"
        PROVE  NotAbove(Stream[j].n)' \/ Told(k)'
    <3> DEFINE l == k + d
    <3>1. l \in 1..Len(Stream) /\ Stream'[k] = Stream[l] /\ (Told(l) => Told(k)') /\ i < l
      BY <1>4, <2>0, <2>2 DEF Results
    <3> HIDE DEF l
    <3>2. NotAbove(Stream[i].n) \/ Told(l)
      BY <2>1, <2>2, <3>1
    <3>3. NotAbove(Stream[i].n) => NotAbove(Stream[j].n)'
      BY <1>7, <2>0
    <3> QED BY <3>1, <3>2, <3>3
  <2> QED BY <2>1, <2>2
<1>10. StateTrue'
  BY <1>8, <1>9 DEF StateTrue
<1> QED BY <1>3, <1>6, <1>10 DEF Aside

(* The news, where the property looks for them. *)
LEMMA NewsFacts ==
    ASSUME PiecesT
    PROVE  Covered(Stream, 0) <=> Has(wire, "QMTSTAT") \/ Has(rxBffr, "QMTSTAT")
<1>1. /\ Len(Stream) = Len(rxBffr) + Len(wire) /\ Len(rxBffr) \in Nat /\ Len(wire) \in Nat
      /\ \A i \in 1..Len(rxBffr) : i \in 1..Len(Stream) /\ Stream[i] = rxBffr[i]
      /\ \A i \in 1..Len(wire) : i + Len(rxBffr) \in 1..Len(Stream) /\ Stream[i + Len(rxBffr)] = wire[i]
  BY StreamFacts DEF PiecesT
<1>2. Has(rxBffr, "QMTSTAT") => Covered(Stream, 0)
  BY <1>1 DEF Has, Covered, PiecesT
<1>3. ASSUME NEW i \in 1..Len(wire), wire[i].kind = "QMTSTAT" PROVE Covered(Stream, 0)
  <2> DEFINE m == i + Len(rxBffr)
  <2>1. m \in 1..Len(Stream) /\ Stream[m] = wire[i] /\ 0 < m
    BY <1>1
  <2> HIDE DEF m
  <2> QED BY <1>3, <2>1 DEF Covered
<1>4. Has(wire, "QMTSTAT") => Covered(Stream, 0)
  BY <1>3 DEF Has, PiecesT
<1>5. ASSUME NEW m \in 1..Len(Stream), Stream[m].kind = "QMTSTAT"
      PROVE  Has(wire, "QMTSTAT") \/ Has(rxBffr, "QMTSTAT")
  <2>1. CASE m <= Len(rxBffr)
    <3>1. m \in DOMAIN rxBffr /\ Stream[m] = rxBffr[m]
      BY <1>1, <2>1 DEF PiecesT
    <3> QED BY <1>5, <3>1 DEF Has
  <2>2. CASE ~(m <= Len(rxBffr))
    <3> DEFINE i == m - Len(rxBffr)
    <3>1. i \in 1..Len(wire) /\ i + Len(rxBffr) = m
      BY <1>1, <2>2
    <3> HIDE DEF i
    <3>2. i \in DOMAIN wire /\ wire[i] = Stream[m]
      BY <1>1, <3>1 DEF PiecesT
    <3> QED BY <1>5, <3>2 DEF Has
  <2> QED BY <2>1, <2>2
<1>6. Covered(Stream, 0) => Has(wire, "QMTSTAT") \/ Has(rxBffr, "QMTSTAT")
  BY <1>5 DEF Covered
<1> QED BY <1>2, <1>4, <1>6

LEMMA AheadIs == ASSUME Base PROVE Ahead <=> StateNotAhead
BY NewsFacts DEF Base, RxT, Ahead, Told, StateNotAhead

(* An action that neither tells the application nor moves the module. *)
LEMMA AheadKept ==
    ASSUME Ahead, UNCHANGED <<state, link>>, Told(0) => Told(0)' , pc = "halt" => pc' = "halt"
    PROVE  Ahead'
BY DEF Ahead

AtHand == Aside /\ Ahead

LEMMA NotRunning ==
    ASSUME ~Running'
    PROVE  Aside'
<1>1. \A w : ~Busy(w)'
  BY DEF Busy
<1> QED BY <1>1 DEF Aside, Alone, Undecided, OpenTrue, StateTrue

LEMMA SameHand ==
    ASSUME Base, AtHand, UNCHANGED <<state, link, rxBffr, wire, unnoticed>>, pc # "halt" \/ pc' = "halt",
           ~Running' \/ (Running /\ UNCHANGED <<late, todo, order, rawResponse>>)
    PROVE  AtHand'
<1>1. Stream' = Stream /\ Len(Stream) \in Nat
  BY StreamFacts DEF Stream, Base, RxT
<1>2. Told(0) => Told(0)'
  BY <1>1 DEF Told
<1>3. Ahead'
  BY <1>2, AheadKept DEF AtHand
<1>4. CASE ~Running'
  BY <1>3, <1>4, NotRunning DEF AtHand
<1>5. CASE Running /\ UNCHANGED <<late, todo, order, rawResponse>>
  <2>1. Tracks(Stream', Stream)
    BY <1>1, SameTracks
  <2>2. Aside'
    BY <1>5, <2>1, AsideKept DEF AtHand
  <2> QED BY <1>3, <2>2 DEF AtHand
<1> QED BY <1>4, <1>5

LEMMA ArriveHand == ASSUME Base, AtHand, Arrive PROVE AtHand'
<1>1. UNCHANGED <<state, link, unnoticed, pc, todo, late, order, rawResponse>>
  BY DEF Arrive, ctrlVars, callVars, histVars
<1>2. Stream' = Stream /\ Len(Stream) \in Nat
  BY StreamArrive, StreamFacts DEF Base, RxT
<1>3. Told(0) => Told(0)'
  BY <1>1, <1>2 DEF Told
<1>4. Ahead'
  BY <1>1, <1>3, AheadKept DEF AtHand
<1>5. Tracks(Stream', Stream)
  BY <1>2, SameTracks
<1>6. Running' => Running
  BY <1>1 DEF Running
<1>7. Aside'
  BY <1>1, <1>5, <1>6, AsideKept DEF AtHand
<1> QED BY <1>4, <1>7 DEF AtHand

LEMMA HasPrefix ==
    ASSUME NEW s \in Seq(Pieces), NEW n \in 0..Len(s), NEW m \in 1..n, s[m].kind = "QMTSTAT"
    PROVE  Has(SubSeq(s, 1, n), "QMTSTAT")
<1>1. m \in DOMAIN SubSeq(s, 1, n) /\ SubSeq(s, 1, n)[m] = s[m]
  BY PrefixFacts
<1> QED BY <1>1 DEF Has

LEMMA RecvHand == ASSUME Base, AtHand, RecvHeader PROVE AtHand'
<1>1. /\ pc \in {"idle", "events"}
      /\ UNCHANGED <<state, link, rawResponse, todo, order, wire, msgTopic, late>>
  BY RecvMoves
<1>2. PICK i \in 1..Len(rxBffr) :
        /\ rxBffr[i].kind = "RECV" /\ Miss(SubSeq(rxBffr, 1, i - 1))
        /\ \/ rxBffr' = After(rxBffr, i - 1) /\ pc' = Resume
           \/ i < Len(rxBffr) /\ rxBffr' = After(rxBffr, i + 1) /\ pc' \in {"msg", "halt"}
  BY RecvMoves
<1>3. rxBffr \in Seq(Pieces) /\ Len(rxBffr) \in Nat /\ i \in Nat /\ Len(Stream) \in Nat
  BY StreamFacts DEF Base, RxT, PiecesT
<1>4. ASSUME NEW m \in 1..(i - 1), rxBffr[m].kind = "QMTSTAT" PROVE unnoticed'
  <2>1. i - 1 \in 0..Len(rxBffr)
    BY <1>3
  <2>2. Has(SubSeq(rxBffr, 1, i - 1), "QMTSTAT")
    BY <1>3, <1>4, <2>1, HasPrefix
  <2> QED BY <1>2, <2>2 DEF Miss
<1>5. i < Len(rxBffr) => i + 1 \in 1..Len(rxBffr) /\ rxBffr[i + 1].kind = "DELIM"
  <2> SUFFICES ASSUME i < Len(rxBffr) PROVE i + 1 \in 1..Len(rxBffr) /\ rxBffr[i + 1].kind = "DELIM"
    OBVIOUS
  <2>1. i + 1 \in 1..Len(rxBffr)
    BY <1>3
  <2>2. i \in 1..Len(Stream) /\ Stream[i] = rxBffr[i] /\ Stream[i + 1] = rxBffr[i + 1]
    BY <2>1, StreamAt
  <2>3. Stream[i + 1].kind = "DELIM"
    BY <1>2, <2>2 DEF Base, StreamInv, Whole, RecvWhole
  <2> QED BY <2>1, <2>2, <2>3
<1>6. PICK n \in 0..Len(rxBffr) : rxBffr' = After(rxBffr, n) /\ \A m \in 1..n : m <= i - 1 \/ rxBffr[m].kind # "QMTSTAT"
  <2>1. CASE rxBffr' = After(rxBffr, i - 1)
    <3>1. i - 1 \in 0..Len(rxBffr) /\ \A m \in 1..(i - 1) : m <= i - 1
      BY <1>3
    <3> QED BY <2>1, <3>1
  <2>2. CASE i < Len(rxBffr) /\ rxBffr' = After(rxBffr, i + 1)
    <3>1. i + 1 \in 0..Len(rxBffr) /\ \A m \in 1..(i + 1) : m <= i - 1 \/ m = i \/ m = i + 1
      BY <1>3, <2>2
    <3>2. rxBffr[i].kind # "QMTSTAT" /\ rxBffr[i + 1].kind # "QMTSTAT"
      BY <1>2, <1>5, <2>2
    <3> QED BY <2>2, <3>1, <3>2
  <2> QED BY <1>2, <2>1, <2>2
<1>7. Dropped(Stream', Stream, n) /\ n \in Nat
  BY <1>1, <1>3, <1>6, TakenKeeps
<1>8. /\ Tracks(Stream', Stream)
      /\ \A k \in Nat : Covered(Stream, k) => Covered(Stream', 0) \/ \E m \in 1..n : m <= Len(Stream) /\ Stream[m].kind = "QMTSTAT"
  BY <1>3, <1>7, DroppedTracks
<1>9. unnoticed => unnoticed'
  BY <1>2 DEF Miss
<1>10. ASSUME NEW m \in 1..n, Stream[m].kind = "QMTSTAT" PROVE unnoticed'
  <2>1. m \in 1..Len(rxBffr) /\ m \in Nat
    BY <1>3, <1>6
  <2>2. Stream[m] = rxBffr[m]
    BY <2>1, StreamAt
  <2>3. m \in 1..(i - 1)
    BY <1>3, <1>6, <1>10, <2>1, <2>2
  <2> QED BY <1>4, <1>10, <2>2, <2>3
<1>11. Told(0) => Told(0)'
  BY <1>8, <1>9, <1>10 DEF Told
<1>12. Ahead'
  BY <1>1, <1>11, AheadKept DEF AtHand
<1>13. Running' => Running
  BY <1>1 DEF Running, Base, PcT
<1>14. Aside'
  BY <1>1, <1>8, <1>9, <1>13, AsideKept DEF AtHand
<1> QED BY <1>12, <1>14 DEF AtHand

LEMMA BlockHand == ASSUME Base, AtHand, MsgBlock PROVE AtHand'
<1>1. /\ pc = "msg" /\ UNCHANGED <<state, link, rawResponse, todo, order, wire, msgTopic, late>>
  BY BlockMoves
<1>2. PICK n \in 1..Len(rxBffr) : rxBffr' = After(rxBffr, n) /\ Miss(SubSeq(rxBffr, 1, n))
  BY BlockMoves
<1>3. rxBffr \in Seq(Pieces) /\ Len(rxBffr) \in Nat /\ n \in Nat /\ n \in 0..Len(rxBffr) /\ Len(Stream) \in Nat
  BY StreamFacts DEF Base, RxT, PiecesT
<1>4. Dropped(Stream', Stream, n)
  BY <1>1, <1>2, <1>3, TakenKeeps
<1>5. /\ Tracks(Stream', Stream)
      /\ \A k \in Nat : Covered(Stream, k) => Covered(Stream', 0) \/ \E m \in 1..n : m <= Len(Stream) /\ Stream[m].kind = "QMTSTAT"
  BY <1>3, <1>4, DroppedTracks
<1>6. unnoticed => unnoticed'
  BY <1>2 DEF Miss
<1>7. ASSUME NEW m \in 1..n, Stream[m].kind = "QMTSTAT" PROVE unnoticed'
  <2>1. m \in 1..Len(rxBffr)
    BY <1>3
  <2>2. Stream[m] = rxBffr[m]
    BY <2>1, StreamAt
  <2>3. Has(SubSeq(rxBffr, 1, n), "QMTSTAT")
    BY <1>3, <1>7, <2>2, HasPrefix
  <2> QED BY <1>2, <2>3 DEF Miss
<1>8. Told(0) => Told(0)'
  BY <1>5, <1>6, <1>7 DEF Told
<1>9. Ahead'
  BY <1>1, <1>8, AheadKept DEF AtHand
<1>10. Running' => Running
  BY <1>1 DEF Running
<1>11. Aside'
  BY <1>1, <1>5, <1>6, <1>10, AsideKept DEF AtHand
<1> QED BY <1>9, <1>11 DEF AtHand

LEMMA StatHand == ASSUME Base, AtHand, StatEvent PROVE AtHand'
<1>1. /\ pc \in {"idle", "events"}
      /\ UNCHANGED <<rawResponse, todo, link, order, wire, msgTopic, unnoticed, late>>
      /\ (state' = "closed" /\ pc' = Resume) \/ pc' = "halt"
  BY StatMoves
<1>2. PICK i \in 1..Len(rxBffr) : rxBffr' = <<Eol>> \o After(rxBffr, i)
  BY StatMoves
<1> DEFINE a == After(Stream, i)
<1>3. Dropped(a, Stream, i) /\ LedBy(Stream', a, Eol) /\ Stream \in Seq(Pieces) /\ i \in 0..Len(Stream)
  BY <1>1, <1>2, StatStream
<1> HIDE DEF a
<1>4. i \in Nat /\ Len(Stream) \in Nat /\ i <= Len(Stream) /\ Eol.kind \notin Results
  BY <1>3, EolFacts DEF Results
<1>5. Tracks(Stream', Stream)
  BY <1>3, <1>4, LedTracks
<1>6. Running' => Running
  BY <1>1 DEF Running, Base, PcT
<1>7. Aside'
  BY <1>1, <1>5, <1>6, AsideKept DEF AtHand
<1>8. state' = "closed" => ~(Rank(state') > Rank(link'))
  BY <1>1 DEF Rank, Base, CtrlT, LinkStates
<1>9. Ahead'
  BY <1>1, <1>8 DEF Ahead
<1> QED BY <1>7, <1>9 DEF AtHand

LEMMA InvokeHand == ASSUME Base, AtHand, Invoke PROVE AtHand'
<1>1. /\ pc = "next" /\ pc' = "events" /\ rawResponse' = <<>> /\ order' = Append(order, Head(todo)) /\ late' = Late
      /\ UNCHANGED <<state, rxBffr, todo, link, wire, unnoticed>>
  BY DEF Invoke, ctrlVars
<1>2. Stream' = Stream /\ Stream \in Seq(Pieces) /\ Len(Stream) \in Nat
  BY <1>1, StreamFacts DEF Stream, Base, RxT
<1>3. Told(0) => Told(0)'
  BY <1>1, <1>2 DEF Told
<1>4. Ahead'
  BY <1>1, <1>3, AheadKept DEF AtHand
<1>5. CASE Late
  <2>1. \A w : ~Busy(w)'
    BY <1>1, <1>5 DEF Busy
  <2>2. Aside'
    BY <2>1 DEF Aside, Alone, Undecided, OpenTrue, StateTrue
  <2> QED BY <1>4, <2>2 DEF AtHand
<1>6. CASE ~Late
  <2>1. order = <<>> /\ ~Has(rxBffr \o wire, "QMTOPEN") /\ ~Has(rxBffr \o wire, "QMTSTATE")
    BY <1>6 DEF Late
  <2>2. \A k \in 1..Len(Stream) : Stream[k].kind # "QMTOPEN" /\ Stream[k].kind # "QMTSTATE"
    <3>1. DOMAIN Stream = 1..Len(Stream)
      BY <1>2
    <3> QED BY <2>1, <3>1 DEF Has, Stream
  <2>3. Len(order') = 1 /\ order'[1] = Head(todo)
    BY <1>1, <2>1
  <2>4. Alone'
    BY <1>1, <2>3 DEF Alone, Busy
  <2>5. Undecided' /\ OpenTrue' /\ StateTrue'
    BY <1>1, <1>2, <2>2 DEF Undecided, OpenTrue, StateTrue
  <2> QED BY <1>4, <2>4, <2>5 DEF AtHand, Aside
<1> QED BY <1>5, <1>6

LEMMA ReadHand == ASSUME Base, AtHand, ReadResult PROVE AtHand'
<1> DEFINE w == Head(todo).do
           parsed == IF rxBffr = <<>> THEN {} ELSE Parse(w, rawResponse')
           n == Len(rxBffr)
           r == Len(rawResponse)
<1>1. /\ pc = "read" /\ todo # <<>> /\ rawResponse' = rawResponse \o rxBffr /\ rxBffr' = <<>>
      /\ UNCHANGED <<link, order, wire, msgTopic, late>>
      /\ unnoticed' = (unnoticed \/ Has(rxBffr, "QMTSTAT") \/ (late /\ state' # state))
      /\ \/ \E p \in parsed : state' = Learns(w, p)
         \/ state' = state
      /\ \/ pc' = (IF todo' = <<>> THEN "idle" ELSE "next")
         \/ parsed = {} /\ pc' = "events" /\ todo' = todo
  BY ReadMoves
<1>2. n \in 0..Len(rxBffr) /\ n \in Nat /\ rxBffr' = After(rxBffr, n)
  BY <1>1, AllTaken DEF Base, RxT, PiecesT
<1>3. /\ rxBffr \in Seq(Pieces) /\ rawResponse \in Seq(Pieces) /\ rawResponse' \in Seq(Pieces) /\ Stream \in Seq(Pieces)
      /\ Len(Stream) \in Nat /\ r \in Nat /\ Len(rawResponse') = r + n
      /\ \A i \in 1..r : rawResponse'[i] = rawResponse[i]
      /\ \A i \in 1..n : rawResponse'[i + r] = rxBffr[i]
  <2>1. rxBffr \in Seq(Pieces) /\ rawResponse \in Seq(Pieces) /\ Stream \in Seq(Pieces)
    BY StreamFacts DEF Base, RxT, PiecesT
  <2> HIDE DEF n, r
  <2>2. /\ rawResponse \o rxBffr \in Seq(Pieces) /\ Len(rawResponse \o rxBffr) = Len(rawResponse) + Len(rxBffr)
        /\ \A i \in 1..Len(rawResponse) : (rawResponse \o rxBffr)[i] = rawResponse[i]
        /\ \A i \in 1..Len(rxBffr) : (rawResponse \o rxBffr)[i + Len(rawResponse)] = rxBffr[i]
    BY <2>1, JoinFacts
  <2> QED BY <1>1, <2>1, <2>2 DEF n, r
<1> HIDE DEF n, r, parsed, w
<1>4. Dropped(Stream', Stream, n)
  BY <1>1, <1>2, TakenKeeps
<1>5. \A i \in 1..n : i \in 1..Len(Stream) /\ Stream[i] = rxBffr[i] /\ i \in Nat
  BY StreamAt DEF n
<1>6. /\ TracksBy(Stream', Stream, n)
      /\ \A k \in Nat : Covered(Stream, k) => Covered(Stream', 0) \/ \E m \in 1..n : m <= Len(Stream) /\ Stream[m].kind = "QMTSTAT"
  BY <1>2, <1>3, <1>4, DroppedTracks
<1>7. ASSUME NEW m \in 1..n, Stream[m].kind = "QMTSTAT" PROVE unnoticed'
  <2>1. m \in DOMAIN rxBffr /\ rxBffr[m].kind = "QMTSTAT"
    BY <1>3, <1>5, <1>7 DEF n
  <2>2. Has(rxBffr, "QMTSTAT")
    BY <2>1 DEF Has
  <2> QED BY <1>1, <2>2
<1>8. unnoticed => unnoticed'
  BY <1>1
<1>9. ASSUME NEW k \in Nat, Told(k) PROVE Told(0)'
  BY <1>6, <1>7, <1>8, <1>9 DEF Told
<1>10. Running /\ (~late => Busy(w))
  BY <1>1 DEF Running, Busy, w
<1>11. ASSUME ~late, w = "OPEN", NEW i \in 1..Len(rawResponse'), rawResponse'[i].kind = "QMTOPEN", rawResponse'[i].n = 0
       PROVE  link # "closed" \/ Told(0)'
  <2>1. Busy("OPEN")
    BY <1>10, <1>11
  <2>2. ~(i <= r)
    <3> SUFFICES ASSUME i <= r PROVE FALSE
      OBVIOUS
    <3>1. i \in 1..r /\ rawResponse[i].kind = "QMTOPEN"
      BY <1>3, <1>11
    <3> QED BY <2>1, <3>1 DEF r, AtHand, Aside, Undecided
  <2> DEFINE k == i - r
  <2>3. k \in 1..n /\ k + r = i
    BY <1>2, <1>3, <2>2
  <2> HIDE DEF k
  <2>4. k \in 1..Len(Stream) /\ Stream[k].kind = "QMTOPEN" /\ Stream[k].n = 0 /\ k \in Nat
    BY <1>3, <1>5, <1>11, <2>3
  <2>5. link # "closed" \/ Told(k)
    BY <2>1, <2>4 DEF AtHand, Aside, OpenTrue
  <2> QED BY <1>9, <2>4, <2>5
<1>12. ASSUME ~late, w = "STATE", NEW j \in 1..Len(rawResponse'), NEW k \in 1..Len(rawResponse'), j < k,
              rawResponse'[j].kind = "QMTSTATE", rawResponse'[k].kind = "OK"
       PROVE  NotAbove(rawResponse[j].n)' \/ Told(0)'
  <2>1. Busy("STATE")
    BY <1>10, <1>12
  <2>2. ~(k <= r)
    <3> SUFFICES ASSUME k <= r PROVE FALSE
      OBVIOUS
    <3>1. j \in 1..r /\ k \in 1..r /\ rawResponse[j].kind = "QMTSTATE" /\ rawResponse[k].kind = "OK"
      BY <1>3, <1>12
    <3> QED BY <1>12, <2>1, <3>1 DEF r, AtHand, Aside, Undecided
  <2> DEFINE l == k - r
  <2>3. l \in 1..n /\ l + r = k
    BY <1>2, <1>3, <2>2
  <2> HIDE DEF l
  <2>4. l \in 1..Len(Stream) /\ Stream[l].kind = "OK" /\ l \in Nat
    BY <1>3, <1>5, <1>12, <2>3
  <2>5. \A x : NotAbove(x) => NotAbove(x)'
    BY <1>1 DEF NotAbove
  <2>6. CASE j <= r
    <3>1. j \in 1..Len(rawResponse) /\ rawResponse'[j] = rawResponse[j]
      BY <1>3, <2>6 DEF r
    <3>2. NotAbove(rawResponse[j].n) \/ Told(l)
      BY <1>12, <2>1, <2>4, <3>1 DEF AtHand, Aside, StateTrue
    <3>3. NotAbove(rawResponse[j].n) => NotAbove(rawResponse[j].n)'
      BY <2>5, <3>1
    <3> QED BY <1>9, <2>4, <3>2, <3>3
  <2>7. CASE ~(j <= r)
    <3> DEFINE i == j - r
    <3>1. i \in 1..n /\ i + r = j /\ i < l
      BY <1>2, <1>3, <1>12, <2>3, <2>7
    <3> HIDE DEF i
    <3>2. i \in 1..Len(Stream) /\ Stream[i] = rawResponse'[j]
      BY <1>3, <1>5, <3>1
    <3>3. NotAbove(Stream[i].n) \/ Told(l)
      BY <1>12, <2>1, <2>4, <3>1, <3>2 DEF AtHand, Aside, StateTrue
    <3>4. NotAbove(Stream[i].n) => NotAbove(rawResponse[j].n)'
      BY <2>5, <3>2
    <3> QED BY <1>9, <2>4, <3>3, <3>4
  <2> QED BY <2>6, <2>7
<1>13. Ahead'
  <2>1. CASE state' = state
    <3>1. Told(0) => Told(0)'
      BY <1>9
    <3>2. pc # "halt"
      BY <1>1
    <3> QED BY <1>1, <2>1, <3>1, <3>2, AheadKept DEF AtHand
  <2>2. CASE state' # state /\ late
    BY <1>1, <2>2 DEF Ahead, Told
  <2>3. CASE state' # state /\ ~late
    <3>1. PICK p \in parsed : state' = Learns(w, p)
      BY <1>1, <2>3
    <3>2. p \in Parse(w, rawResponse')
      BY <3>1 DEF parsed
    <3>3. CASE p = Piece("QMTOPEN", 0) /\ w = "OPEN"
      <4>1. state' = "open"
        BY <3>1, <3>3 DEF Learns
      <4>2. \E i \in 1..Len(rawResponse') : rawResponse'[i].kind = "QMTOPEN" /\ rawResponse'[i].n = 0
        BY <1>3, <3>2, <3>3, OpenFound
      <4>3. link # "closed" \/ Told(0)'
        BY <1>11, <2>3, <3>3, <4>2
      <4>4. link # "closed" => ~(Rank(state') > Rank(link'))
        BY <1>1, <4>1 DEF Rank, Base, CtrlT, LinkStates
      <4> QED BY <4>3, <4>4 DEF Ahead
    <3>4. CASE ~(p = Piece("QMTOPEN", 0) /\ w = "OPEN")
      <4>1. p.kind = "QMTSTATE" /\ w = "STATE" /\ state' = Status(p.n)
        BY <2>3, <3>1, <3>4 DEF Learns
      <4>2. PICK j \in 1..Len(rawResponse'), k \in 1..Len(rawResponse') :
              j < k /\ rawResponse'[j] = p /\ rawResponse'[k].kind = "OK"
        BY <1>3, <3>2, <4>1, StateFound
      <4>3. NotAbove(rawResponse[j].n)' \/ Told(0)'
        BY <1>12, <2>3, <4>1, <4>2
      <4>4. NotAbove(rawResponse[j].n)' => Rank(state') <= Rank(link')
        BY <4>1, <4>2 DEF NotAbove
      <4>5. Rank(state') \in Int /\ Rank(link') \in Int
        <5>1. Base'
          BY ReadKeeps
        <5> QED BY <5>1 DEF Rank, Base, CtrlT, LinkStates
      <4> QED BY <4>3, <4>4, <4>5 DEF Ahead
    <3> QED BY <3>3, <3>4
  <2> QED BY <2>1, <2>2, <2>3
<1>14. CASE pc' = (IF todo' = <<>> THEN "idle" ELSE "next")
  <2>1. ~Running'
    BY <1>14 DEF Running
  <2> QED BY <1>13, <2>1, NotRunning DEF AtHand
<1>15. CASE parsed = {} /\ pc' = "events" /\ todo' = todo
  <2>1. \A x : Busy(x)' => Busy(x) /\ x = w
    BY <1>1, <1>15 DEF Busy, Running, w
  <2>2. Alone'
    BY <1>1, <2>1 DEF AtHand, Aside, Alone
  <2>3. CASE rxBffr = <<>>
    <3>1. rawResponse' = rawResponse /\ Stream' = Stream /\ Len(Stream) \in Nat
      BY <1>1, <1>3, <2>3 DEF Stream
    <3>2. Tracks(Stream', Stream)
      BY <3>1, SameTracks
    <3>3. Running' => Running /\ UNCHANGED <<late, todo>>
      BY <1>1, <1>10, <1>15
    <3>4. Aside'
      BY <1>1, <1>8, <3>1, <3>2, <3>3, AsideKept DEF AtHand
    <3> QED BY <1>13, <3>4 DEF AtHand
  <2>4. CASE rxBffr # <<>>
    <3>1. Parse(w, rawResponse') = {}
      BY <1>15, <2>4 DEF parsed
    <3>2. Undecided'
      <4>1. ASSUME Busy("OPEN")', NEW i \in 1..Len(rawResponse') PROVE rawResponse'[i].kind # "QMTOPEN"
        BY <1>3, <2>1, <3>1, <4>1, OpenDecided
      <4>2. ASSUME Busy("STATE")', NEW j \in 1..Len(rawResponse'), NEW k \in 1..Len(rawResponse'), j < k,
                   rawResponse'[j].kind = "QMTSTATE", rawResponse'[k].kind = "OK"
            PROVE  FALSE
        BY <1>3, <2>1, <3>1, <4>2, StateDecided
      <4> QED BY <4>1, <4>2 DEF Undecided
    <3>3. ASSUME NEW k \in 1..Len(Stream'), Stream'[k].kind \in Results
          PROVE  k + n \in 1..Len(Stream) /\ Stream'[k] = Stream[k + n] /\ (Told(k + n) => Told(k)')
      BY <1>6, <1>8, <3>3 DEF TracksBy, Told
    <3>4. OpenTrue'
      <4> SUFFICES ASSUME Busy("OPEN")', NEW k \in 1..Len(Stream'), Stream'[k].kind = "QMTOPEN", Stream'[k].n = 0
                   PROVE  order' = <<>> /\ (link' # "closed" \/ Told(k)')
        BY DEF OpenTrue
      <4> DEFINE l == k + n
      <4>1. l \in 1..Len(Stream) /\ Stream'[k] = Stream[l] /\ (Told(l) => Told(k)')
        BY <3>3 DEF Results
      <4> HIDE DEF l
      <4>2. order = <<>> /\ (link # "closed" \/ Told(l))
        BY <2>1, <4>1 DEF AtHand, Aside, OpenTrue
      <4> QED BY <1>1, <4>1, <4>2
    <3>5. \A x : NotAbove(x) => NotAbove(x)'
      BY <1>1 DEF NotAbove
    <3>6. ASSUME Busy("STATE")', NEW i \in 1..Len(Stream), Stream[i].kind = "QMTSTATE"
          PROVE  /\ order' = <<>>
                 /\ \A k \in 1..Len(Stream') : i < k + n /\ Stream'[k].kind = "OK" => NotAbove(Stream[i].n) \/ Told(k)'
      <4>1. /\ order = <<>>
            /\ \A k \in 1..Len(Stream) : i < k /\ Stream[k].kind = "OK" => NotAbove(Stream[i].n) \/ Told(k)
        BY <2>1, <3>6 DEF AtHand, Aside, StateTrue
      <4>2. ASSUME NEW k \in 1..Len(Stream'), i < k + n, Stream'[k].kind = "OK" PROVE NotAbove(Stream[i].n) \/ Told(k)'
        <5> DEFINE l == k + n
        <5>1. l \in 1..Len(Stream) /\ Stream'[k] = Stream[l] /\ (Told(l) => Told(k)') /\ i < l
          BY <3>3, <4>2 DEF Results
        <5> HIDE DEF l
        <5> QED BY <4>1, <4>2, <5>1
      <4> QED BY <1>1, <4>1, <4>2
    <3>7. ASSUME Busy("STATE")', NEW j \in 1..Len(rawResponse'), rawResponse'[j].kind = "QMTSTATE"
          PROVE  /\ order' = <<>>
                 /\ \A k \in 1..Len(Stream') : Stream'[k].kind = "OK" => NotAbove(rawResponse[j].n)' \/ Told(k)'
      <4>1. CASE j <= r
        <5>1. j \in 1..Len(rawResponse) /\ rawResponse'[j] = rawResponse[j]
          BY <1>3, <4>1 DEF r
        <5>2. /\ order = <<>>
              /\ \A k \in 1..Len(Stream) : Stream[k].kind = "OK" => NotAbove(rawResponse[j].n) \/ Told(k)
          BY <2>1, <3>7, <5>1 DEF AtHand, Aside, StateTrue
        <5>3. ASSUME NEW k \in 1..Len(Stream'), Stream'[k].kind = "OK" PROVE NotAbove(rawResponse[j].n)' \/ Told(k)'
          <6> DEFINE l == k + n
          <6>1. l \in 1..Len(Stream) /\ Stream'[k] = Stream[l] /\ (Told(l) => Told(k)')
            BY <3>3, <5>3 DEF Results
          <6> HIDE DEF l
          <6>2. NotAbove(rawResponse[j].n) \/ Told(l)
            BY <5>2, <5>3, <6>1
          <6>3. NotAbove(rawResponse[j].n) => NotAbove(rawResponse[j].n)'
            BY <3>5, <5>1
          <6> QED BY <6>1, <6>2, <6>3
        <5> QED BY <1>1, <5>2, <5>3
      <4>2. CASE ~(j <= r)
        <5> DEFINE i == j - r
        <5>1. i \in 1..n /\ i + r = j
          BY <1>2, <1>3, <4>2
        <5> HIDE DEF i
        <5>2. i \in 1..Len(Stream) /\ Stream[i] = rawResponse'[j]
          BY <1>3, <1>5, <5>1
        <5>5. \A k \in 1..Len(Stream') : i < k + n
          BY <1>2, <5>1
        <5>3. NotAbove(Stream[i].n) => NotAbove(rawResponse[j].n)'
          BY <3>5, <5>2
        <5>4. /\ order' = <<>>
              /\ \A k \in 1..Len(Stream') : Stream'[k].kind = "OK" => NotAbove(Stream[i].n) \/ Told(k)'
          BY <3>6, <3>7, <5>2, <5>5
        <5> QED BY <5>3, <5>4
      <4> QED BY <4>1, <4>2
    <3>8. ASSUME Busy("STATE")', NEW j \in 1..Len(Stream'), Stream'[j].kind = "QMTSTATE"
          PROVE  /\ order' = <<>>
                 /\ \A k \in 1..Len(Stream') : j < k /\ Stream'[k].kind = "OK" => NotAbove(Stream[j].n)' \/ Told(k)'
      <4> DEFINE i == j + n
      <4>1. i \in 1..Len(Stream) /\ Stream'[j] = Stream[i] /\ \A k \in 1..Len(Stream') : j < k => i < k + n
        BY <1>2, <3>3, <3>8 DEF Results
      <4> HIDE DEF i
      <4>2. NotAbove(Stream[i].n) => NotAbove(Stream[j].n)'
        BY <3>5, <4>1
      <4> QED BY <3>6, <3>8, <4>1, <4>2
    <3>9. StateTrue'
      BY <3>7, <3>8 DEF StateTrue
    <3> QED BY <1>13, <2>2, <3>2, <3>4, <3>9 DEF AtHand, Aside
  <2> QED BY <2>3, <2>4
<1> QED BY <1>1, <1>14, <1>15

LEMMA SendHand == ASSUME Base, AtHand, NEW t \in Topics, ServerSends(t) PROVE AtHand'
<1>1. /\ wire' = Message(Top + 1) /\ Top \in Nat
      /\ UNCHANGED <<state, link, unnoticed, pc, todo, late, order, rawResponse>>
      /\ Stream \in Seq(Pieces) /\ Stream' \in Seq(Pieces) /\ Extended(Stream', Stream, wire')
  BY SendMoves
<1>2. Len(wire') = 5 /\ \A i \in 1..5 : wire'[i].kind \in {"RECV", "DELIM", "BODY", "QUOTE", "EOL"}
  BY <1>1 DEF Message, Piece
<1>3. Len(wire') \in Nat /\ (\A i \in 1..Len(wire') : wire'[i].kind \notin Results)
  BY <1>2 DEF Results
<1>4. Len(Stream) \in Nat
  BY <1>1
<1>5. Tracks(Stream', Stream) /\ (Covered(Stream, 0) => Covered(Stream', 0))
  BY <1>1, <1>3, <1>4, ExtendedTracks
<1>6. Told(0) => Told(0)'
  BY <1>1, <1>5 DEF Told
<1>7. Ahead'
  BY <1>1, <1>6, AheadKept DEF AtHand
<1>8. Running' => Running
  BY <1>1 DEF Running
<1>9. Aside'
  BY <1>1, <1>5, <1>8, AsideKept DEF AtHand
<1> QED BY <1>7, <1>9 DEF AtHand

(* The news of a loss comes after every result on its way. *)
LEMMA DropHand == ASSUME Base, AtHand, ServerDrops PROVE AtHand'
<1>1. /\ wire = <<>> /\ link' = "closed" /\ wire' = <<Piece("QMTSTAT", 0)>>
      /\ UNCHANGED <<state, rxBffr, unnoticed, pc, todo, late, order, rawResponse, msgTopic>>
  BY DEF ServerDrops, Links, Line, Emit, ctrlVars, rxVars, callVars, histVars
<1>2. "QMTSTAT" \in Kinds \ {"RECV", "QUOTE"} /\ 0 \in 0..5
  BY KindsAre
<1>3. wire' \in Own /\ Len(wire') = 1 /\ wire'[1].kind = "QMTSTAT"
  BY <1>1, <1>2, OwnLine, LineFacts
<1>4. Stream \in Seq(Pieces) /\ Stream' \in Seq(Pieces) /\ Extended(Stream', Stream, wire')
  BY <1>1, <1>3, OwnKeeps
<1> DEFINE z == Len(Stream) + 1
<1>5. Len(Stream) \in Nat /\ Len(Stream') = z /\ z \in 1..Len(Stream') /\ z \in Nat
  BY <1>3, <1>4 DEF Extended
<1>6. Stream'[z] = wire'[1]
  BY <1>3, <1>4 DEF Extended
<1>7. \A k \in 1..Len(Stream) : Stream'[k] = Stream[k] /\ k < z
  BY <1>4, <1>5 DEF Extended
<1>8. \A k \in 1..Len(Stream') : k = z \/ k \in 1..Len(Stream)
  BY <1>5
<1> HIDE DEF z
<1>9. \A k \in Nat : k < z => Told(k)'
  BY <1>3, <1>5, <1>6 DEF Told, Covered
<1>10. ASSUME NEW k \in 1..Len(Stream'), Stream'[k].kind # "QMTSTAT"
       PROVE  k \in 1..Len(Stream) /\ Stream'[k] = Stream[k] /\ Told(k)'
  BY <1>3, <1>6, <1>7, <1>8, <1>9, <1>10
<1>11. Ahead'
  <2>1. 0 < z
    BY <1>5
  <2> QED BY <1>9, <2>1 DEF Ahead
<1>12. \A w : Busy(w)' => Busy(w)
  BY <1>1 DEF Busy, Running
<1>13. Alone' /\ Undecided'
  BY <1>1, <1>12 DEF AtHand, Aside, Alone, Undecided
<1>14. ASSUME Busy("OPEN")', NEW k \in 1..Len(Stream'), Stream'[k].kind = "QMTOPEN", Stream'[k].n = 0
       PROVE  order' = <<>> /\ Told(k)'
  <2>1. k \in 1..Len(Stream) /\ Stream'[k] = Stream[k] /\ Told(k)'
    BY <1>10, <1>14
  <2>2. order = <<>>
    BY <1>12, <1>14, <2>1 DEF AtHand, Aside, OpenTrue
  <2> QED BY <1>1, <2>1, <2>2
<1>15. OpenTrue'
  BY <1>14 DEF OpenTrue
<1>16. ASSUME NEW k \in 1..Len(Stream'), Stream'[k].kind = "OK" PROVE Told(k)'
  BY <1>10, <1>16
<1>17. ASSUME Busy("STATE")', NEW j \in 1..Len(rawResponse'), rawResponse'[j].kind = "QMTSTATE" PROVE order' = <<>>
  BY <1>1, <1>12, <1>17 DEF AtHand, Aside, StateTrue
<1>18. ASSUME Busy("STATE")', NEW j \in 1..Len(Stream'), Stream'[j].kind = "QMTSTATE" PROVE order' = <<>>
  <2>1. j \in 1..Len(Stream) /\ Stream'[j] = Stream[j]
    BY <1>10, <1>18
  <2> QED BY <1>1, <1>12, <1>18, <2>1 DEF AtHand, Aside, StateTrue
<1>19. StateTrue'
  BY <1>16, <1>17, <1>18 DEF StateTrue
<1> QED BY <1>11, <1>13, <1>15, <1>19 DEF AtHand, Aside

(* What the module does to the command it answers, and to its connection. *)
LEMMA AnswerNews ==
    ASSUME Base, Answer
    PROVE  /\ unnoticed' = IF link = "closed" /\ link' # "closed" /\ Rank(state) <= Rank(link') THEN FALSE
                           ELSE unnoticed \/ Head(order).do = "CLOSE"
           /\ \/ link' = link
              \/ link = "closed" /\ link' = "open"
              \/ link = "open" /\ link' = "connected"
              \/ Head(order).do = "CLOSE" /\ link' = "closed"
           /\ Head(order).do = "OPEN" =>
                /\ link' = link /\ \E k \in {"OK", "ERROR"} : wire' = <<Piece(k, 0)>>
                /\ \/ order' = Tail(order)
                   \/ order' = <<[Head(order) EXCEPT !.do = "opening"]>> \o Tail(order)
           /\ Head(order).do = "opening" =>
                /\ order' = Tail(order)
                /\ \E n \in {0, 2, 3} : wire' = <<Piece("QMTOPEN", n)>> /\ (n = 0 => link' = "open")
           /\ Head(order).do = "STATE" =>
                /\ link' = link
                /\ \/ wire' = <<Piece("OK", 0)>> /\ order' = <<>> \o Tail(order)
                   \/ /\ link # "closed" /\ order' = Tail(order)
                      /\ wire' = <<Piece("QMTSTATE", IF link = "open" THEN 1 ELSE 3), Piece("OK", 0)>>
<1> DEFINE c == Head(order)
           later(w) == <<[c EXCEPT !.do = w]>>
           done == order' = Tail(order)
           same == link' = link /\ subs' = subs
<1>1. unnoticed' = IF link = "closed" /\ link' # "closed" /\ Rank(state) <= Rank(link') THEN FALSE
                   ELSE unnoticed \/ c.do = "CLOSE"
  BY DEF Answer
<1>2. \/ c.do \in {"CFG", "UNS"} /\ same /\ Ok(<<>>)
      \/ c.do \in {"CFG", "OPEN", "CONN", "SUB", "UNS"} /\ Refuse
      \/ c.do = "OPEN" /\ same /\ Ok(later("opening"))
      \/ c.do = "opening" /\ link = "closed" /\ done /\ Links("open", {}) /\ Line("QMTOPEN", 0)
      \/ c.do = "opening" /\ link = "closed" /\ done /\ same /\ Line("QMTOPEN", 3)
      \/ c.do = "opening" /\ link # "closed" /\ done /\ same /\ Line("QMTOPEN", 2)
      \/ c.do = "CONN" /\ link = "open" /\ same /\ Ok(later("connecting"))
      \/ c.do = "connecting" /\ link = "open" /\ done /\ Links("connected", {}) /\ Line("QMTCONN", 0)
      \/ c.do = "connecting" /\ link = "open" /\ done /\ same /\ Line("QMTCONN", 5)
      \/ c.do = "SUB" /\ link = "connected" /\ same /\ Ok(later("subscribing"))
      \/ /\ c.do = "subscribing" /\ link = "connected" /\ done
         /\ Links(link, subs \cup {c.topic}) /\ Line("QMTSUB", 0)
      \/ c.do \in {"connecting", "subscribing"} /\ link = "closed" /\ done /\ same /\ Emit(<<>>)
      \/ c.do = "CLOSE" /\ link # "closed" /\ Links("closed", {}) /\ Ok(later("closing"))
      \/ c.do = "CLOSE" /\ link = "closed" /\ Refuse
      \/ c.do = "closing" /\ done /\ same /\ Line("QMTCLOSE", 0)
      \/ c.do = "STATE" /\ link = "closed" /\ same /\ Ok(<<>>)
      \/ /\ c.do = "STATE" /\ link # "closed" /\ done /\ same
         /\ Emit(<<Piece("QMTSTATE", IF link = "open" THEN 1 ELSE 3), Piece("OK", 0)>>)
  BY DEF Answer
<1> HIDE DEF c
<1>3. \/ link' = link
      \/ link = "closed" /\ link' = "open"
      \/ link = "open" /\ link' = "connected"
      \/ c.do = "CLOSE" /\ link' = "closed"
  BY <1>2 DEF Refuse, Links
<1>4. c.do = "OPEN" =>
        /\ link' = link /\ \E k \in {"OK", "ERROR"} : wire' = <<Piece(k, 0)>>
        /\ order' = Tail(order) \/ order' = <<[c EXCEPT !.do = "opening"]>> \o Tail(order)
  BY <1>2 DEF Refuse, Ok, Line, Emit
<1>5. c.do = "opening" =>
        /\ order' = Tail(order)
        /\ \E n \in {0, 2, 3} : wire' = <<Piece("QMTOPEN", n)>> /\ (n = 0 => link' = "open")
  BY <1>2 DEF Links, Line, Emit
<1>6. c.do = "STATE" =>
        /\ link' = link
        /\ \/ wire' = <<Piece("OK", 0)>> /\ order' = <<>> \o Tail(order)
           \/ /\ link # "closed" /\ order' = Tail(order)
              /\ wire' = <<Piece("QMTSTATE", IF link = "open" THEN 1 ELSE 3), Piece("OK", 0)>>
  BY <1>2 DEF Ok, Line, Emit
<1> QED BY <1>1, <1>3, <1>4, <1>5, <1>6 DEF c

LEMMA RankFacts == Rank("closed") = 0 /\ Rank("open") = 1 /\ Rank("connected") = 2
BY DEF Rank

LEMMA EmptySequence == ASSUME NEW s \in Seq(Good), Len(s) = 0 PROVE s = <<>>
BY EmptySeq

LEMMA TailOfOne ==
    ASSUME NEW s \in Seq(Good), Len(s) = 1
    PROVE  Tail(s) = <<>> /\ Head(s) = s[1] /\ s[1] \in Good
<1>1. Tail(s) \in Seq(Good) /\ Len(Tail(s)) = 0
  OBVIOUS
<1>2. Tail(s) = <<>>
  BY <1>1, EmptySequence
<1>3. Head(s) = s[1] /\ s[1] \in Good
  OBVIOUS
<1> QED BY <1>2, <1>3

LEMMA AnswerHand == ASSUME Base, AtHand, Answer PROVE AtHand'
<1> DEFINE c == Head(order)
<1>1. /\ order # <<>> /\ wire = <<>> /\ wire' \in Own
      /\ UNCHANGED <<state, rxBffr, rawResponse, pc, todo, msgTopic, late>>
  BY AnswerMoves
<1>2. /\ unnoticed' = IF link = "closed" /\ link' # "closed" /\ Rank(state) <= Rank(link') THEN FALSE
                      ELSE unnoticed \/ c.do = "CLOSE"
      /\ \/ link' = link
         \/ link = "closed" /\ link' = "open"
         \/ link = "open" /\ link' = "connected"
         \/ c.do = "CLOSE" /\ link' = "closed"
  BY AnswerNews
<1>3. Stream \in Seq(Pieces) /\ Stream' \in Seq(Pieces) /\ Extended(Stream', Stream, wire')
  BY <1>1, OwnKeeps
<1>4. Len(Stream) \in Nat /\ Len(wire') \in Nat
  BY <1>1, <1>3 DEF Own
<1>5. /\ Covered(Stream, 0) => Covered(Stream', 0)
      /\ \A k \in 1..Len(Stream') : \/ k \in 1..Len(Stream) /\ Stream'[k] = Stream[k]
                                    \/ k - Len(Stream) \in 1..Len(wire') /\ Stream'[k] = wire'[k - Len(Stream)]
  BY <1>3, <1>4, ExtendedTracks
<1>6. Rank(state) \in Nat /\ Rank(link) \in Nat /\ Rank(link') \in Nat
  BY AnswerMoves, RankFacts DEF Base, CtrlT, LinkStates
<1>7. Ahead'
  <2>1. CASE link' = link
    <3>1. Told(0) => Told(0)'
      BY <1>2, <1>5, <2>1 DEF Told
    <3> QED BY <1>1, <2>1, <3>1, AheadKept DEF AtHand
  <2>2. CASE link = "closed" /\ link' = "open"
    <3> SUFFICES ASSUME Rank(state) > Rank(link') PROVE Told(0)' \/ pc' = "halt"
      BY <1>1 DEF Ahead
    <3>1. ~(Rank(state) <= Rank(link')) /\ Rank(state) > Rank(link)
      BY <1>6, <2>2, RankFacts
    <3>2. unnoticed => unnoticed'
      BY <1>2, <3>1
    <3>3. Told(0) \/ pc = "halt"
      BY <3>1 DEF AtHand, Ahead
    <3> QED BY <1>1, <1>5, <3>2, <3>3 DEF Told
  <2>3. CASE link = "open" /\ link' = "connected"
    <3>1. ~(Rank(state) > Rank(link'))
      BY <1>1, <2>3, RankFacts DEF Base, CtrlT, LinkStates
    <3> QED BY <1>1, <3>1 DEF Ahead
  <2>4. CASE c.do = "CLOSE" /\ link' = "closed"
    <3>1. unnoticed'
      BY <1>2, <2>4
    <3> QED BY <3>1 DEF Ahead, Told
  <2> QED BY <1>2, <2>1, <2>2, <2>3, <2>4
<1> HIDE DEF c
<1>8. \A w : Busy(w)' => Busy(w)
  BY <1>1 DEF Busy, Running
<1>9. ASSUME Busy("OPEN")'
      PROVE  /\ order' = <<>> \/ (Len(order') = 1 /\ order'[1].do = "opening")
             /\ \A i \in 1..Len(wire') : wire'[i].kind = "QMTOPEN" /\ wire'[i].n = 0 =>
                  order' = <<>> /\ link' # "closed"
             /\ \A k \in 1..Len(Stream) : ~(Stream[k].kind = "QMTOPEN" /\ Stream[k].n = 0)
  <2>1. Busy("OPEN")
    BY <1>8, <1>9
  <2>2. Len(order) = 1 /\ order[1].do \in {"OPEN", "opening"}
    BY <1>1, <2>1 DEF AtHand, Aside, Alone
  <2>3. Tail(order) = <<>> /\ c = order[1] /\ c \in Good
    BY <2>2, TailOfOne DEF Base, SubInv, c
  <2>4. CASE c.do = "OPEN"
    <3>1. /\ \E k \in {"OK", "ERROR"} : wire' = <<Piece(k, 0)>>
          /\ order' = <<>> \/ order' = <<[c EXCEPT !.do = "opening"]>> \o <<>>
      BY <2>3, <2>4, AnswerNews DEF c
    <3>2. [c EXCEPT !.do = "opening"].do = "opening"
      BY <2>3 DEF Good, Works
    <3> DEFINE d == [c EXCEPT !.do = "opening"]
    <3> HIDE DEF d
    <3>3. <<d>> \o <<>> = <<d>> /\ Len(<<d>>) = 1 /\ <<d>>[1] = d
      OBVIOUS
    <3>4. order' = <<>> \/ (Len(order') = 1 /\ order'[1].do = "opening")
      BY <3>1, <3>2, <3>3 DEF d
    <3>5. \A i \in 1..Len(wire') : wire'[i].kind # "QMTOPEN"
      BY <3>1 DEF Piece
    <3> QED BY <1>1, <2>1, <3>4, <3>5 DEF AtHand, Aside, OpenTrue
  <2>5. CASE c.do = "opening"
    <3>1. order' = <<>> /\ \E n \in {0, 2, 3} : wire' = <<Piece("QMTOPEN", n)>> /\ (n = 0 => link' = "open")
      BY <2>3, <2>5, AnswerNews DEF c
    <3>2. PICK n \in {0, 2, 3} : wire' = <<Piece("QMTOPEN", n)>> /\ (n = 0 => link' = "open")
      BY <3>1
    <3>3. \A i \in 1..Len(wire') : wire'[i].n = n
      BY <3>2 DEF Piece
    <3> QED BY <1>1, <2>1, <3>1, <3>2, <3>3 DEF AtHand, Aside, OpenTrue
  <2> QED BY <2>2, <2>3, <2>4, <2>5
<1>10. ASSUME Busy("STATE")'
       PROVE  /\ order' = <<>>
              /\ \A j \in 1..Len(rawResponse') : rawResponse'[j].kind # "QMTSTATE"
              /\ \A k \in 1..Len(Stream) : Stream[k].kind # "QMTSTATE"
              /\ \A i \in 1..Len(wire') : wire'[i].kind = "QMTSTATE" => NotAbove(wire[i].n)'
  <2>1. Busy("STATE")
    BY <1>8, <1>10
  <2>2. Len(order) = 1 /\ order[1].do = "STATE"
    BY <1>1, <2>1 DEF AtHand, Aside, Alone
  <2>3. Tail(order) = <<>> /\ c = order[1]
    BY <2>2, TailOfOne DEF Base, SubInv, c
  <2>4. /\ link' = link
        /\ \/ wire' = <<Piece("OK", 0)>> /\ order' = <<>> \o <<>>
           \/ /\ link # "closed" /\ order' = <<>>
              /\ wire' = <<Piece("QMTSTATE", IF link = "open" THEN 1 ELSE 3), Piece("OK", 0)>>
    BY <2>2, <2>3, AnswerNews DEF c
  <2>5. order' = <<>>
    BY <2>4
  <2>6. \A j \in 1..Len(rawResponse') : rawResponse'[j].kind # "QMTSTATE"
    BY <1>1, <2>1 DEF AtHand, Aside, StateTrue
  <2>7. \A k \in 1..Len(Stream) : Stream[k].kind # "QMTSTATE"
    BY <1>1, <2>1 DEF AtHand, Aside, StateTrue
  <2>8. ASSUME NEW i \in 1..Len(wire'), wire'[i].kind = "QMTSTATE" PROVE NotAbove(wire[i].n)'
    <3>1. CASE wire' = <<Piece("OK", 0)>>
      BY <2>8, <3>1 DEF Piece
    <3>2. CASE /\ link # "closed"
               /\ wire' = <<Piece("QMTSTATE", IF link = "open" THEN 1 ELSE 3), Piece("OK", 0)>>
      <4>1. wire'[i].n = IF link = "open" THEN 1 ELSE 3
        BY <2>8, <3>2 DEF Piece
      <4>2. link \in {"open", "connected"} /\ link' = link
        BY <2>4, <3>2 DEF Base, CtrlT, LinkStates
      <4>3. CASE link = "open"
        <5>1. wire'[i].n = 1 /\ Status(1) = "open" /\ link' = "open"
          BY <4>1, <4>2, <4>3 DEF Status
        <5> QED BY <5>1, RankFacts DEF NotAbove
      <4>4. CASE link = "connected"
        <5>1. wire'[i].n = 3 /\ Status(3) = "connected" /\ link' = "connected"
          BY <4>1, <4>2, <4>4 DEF Status
        <5> QED BY <5>1, RankFacts DEF NotAbove
      <4> QED BY <4>2, <4>3, <4>4
    <3> QED BY <2>4, <3>1, <3>2
  <2> QED BY <2>5, <2>6, <2>7, <2>8
<1>11. Alone'
  BY <1>9, <1>10 DEF Alone
<1>12. Undecided'
  BY <1>1, <1>8 DEF AtHand, Aside, Undecided
<1>13. OpenTrue'
  BY <1>5, <1>9 DEF OpenTrue
<1>14. ASSUME Busy("STATE")', NEW j \in 1..Len(Stream'), Stream'[j].kind = "QMTSTATE"
       PROVE  order' = <<>> /\ NotAbove(Stream[j].n)'
  BY <1>5, <1>10, <1>14
<1>15. StateTrue'
  BY <1>10, <1>14 DEF StateTrue
<1> QED BY <1>7, <1>11, <1>12, <1>13, <1>15 DEF AtHand, Aside

LEMMA BeginRests == ASSUME NEW w, Begin(w) PROVE ~Running' /\ pc' # "halt"
BY DEF Begin, Running

LEMMA CallsHand ==
    ASSUME Base, AtHand, Application \/ Stage \/ AddStreamAssert \/ NoEvent \/ UNCHANGED vars
    PROVE  AtHand'
<1>1. CASE Application
  <2>1. /\ UNCHANGED <<state, link, rxBffr, wire, unnoticed>> /\ pc = "idle"
        /\ \E work : Begin(work)
    BY <1>1 DEF Application, Call, SubscribeTopic, CancelTopic, Enter, ctrlVars, rxVars, moduleVars, histVars
  <2> QED BY <2>1, BeginRests, SameHand
<1>2. CASE Stage
  <2>1. /\ UNCHANGED <<state, link, rxBffr, wire, unnoticed>> /\ pc = "next"
        /\ \E work : Begin(work)
    BY <1>2 DEF Stage, rxVars, moduleVars, histVars
  <2> QED BY <2>1, BeginRests, SameHand
<1>3. CASE AddStreamAssert
  <2>1. UNCHANGED <<state, link, rxBffr, wire, unnoticed>> /\ pc' = "halt"
    BY <1>3 DEF AddStreamAssert, ctrlVars, rxVars, moduleVars, histVars
  <2>2. ~Running'
    BY <2>1 DEF Running
  <2> QED BY <2>1, <2>2, SameHand
<1>4. CASE NoEvent
  <2>1. UNCHANGED <<state, link, rxBffr, wire, unnoticed, late, todo, order, rawResponse>> /\ pc = "events"
    BY <1>4 DEF NoEvent, ctrlVars, rxVars, moduleVars, histVars
  <2>2. Running' => Running
    BY <2>1 DEF Running
  <2> QED BY <2>1, <2>2, SameHand
<1>5. CASE UNCHANGED vars
  <2>1. UNCHANGED <<state, link, rxBffr, wire, unnoticed, late, todo, order, rawResponse, pc>>
    BY <1>5 DEF vars, ctrlVars, rxVars, callVars, moduleVars, histVars
  <2>2. Running' => Running
    BY <2>1 DEF Running
  <2> QED BY <2>1, <2>2, SameHand
<1> QED BY <1>1, <1>2, <1>3, <1>4, <1>5

LEMMA HandInductive == ASSUME Base, AtHand, [Next]_vars PROVE AtHand'
BY CallsHand, InvokeHand, RecvHand, BlockHand, StatHand, ReadHand, ArriveHand, AnswerHand, DropHand, SendHand
   DEF Next, Program, Server

LEMMA HandInit == Init => AtHand
<1> SUFFICES ASSUME Init PROVE AtHand
  OBVIOUS
<1>1. state = "closed" /\ link = "closed" /\ todo = <<>>
  BY DEF Init
<1>2. ~Running /\ ~(Rank(state) > Rank(link))
  BY <1>1, RankFacts DEF Running
<1>3. \A w : ~Busy(w)
  BY <1>2 DEF Busy
<1> QED BY <1>2, <1>3 DEF AtHand, Ahead, Aside, Alone, Undecided, OpenTrue, StateTrue

(* Theorem 5.  The state the application is told is never ahead of the     *)
(* module's connection, unless the news of the loss is still under way,    *)
(* was taken out of the buffer by other code, or the application closed:   *)
(* what mqtt_open() and mqtt_fetchStatus() record was true when the module *)
(* said it, and every later loss is told after it.                         *)
THEOREM StateIsNotAhead == Spec => []StateNotAhead
<1>1. Init => Base /\ TableInv /\ TopicOnce /\ AtHand
  BY BaseInit, TableInit, HandInit
<1>2. (Base /\ TableInv /\ TopicOnce /\ AtHand) /\ [Next]_vars => (Base /\ TableInv /\ TopicOnce /\ AtHand)'
  BY BaseInductive, TableStep, HandInductive
<1>3. Base /\ AtHand => StateNotAhead
  BY AheadIs DEF AtHand
<1>4. QED BY <1>1, <1>2, <1>3, PTL DEF Spec
=============================================================================
