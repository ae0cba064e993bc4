---------------------------- MODULE AtCmdProofs ----------------------------
(***************************************************************************)
(* Theorems about AtCmd, for every set of operations and bound.  First     *)
(* those for any number of tasks: types, and the lock between them.  Then  *)
(* those for a library called from one place, as from an Arduino loop():   *)
(* the lock after each call and within a sequence of commands; and, by an  *)
(* invariant of everything under way to the module and back, whose answer  *)
(* a call is given and whose data a prompt gets.                           *)
(***************************************************************************)
EXTENDS AtCmd, TLAPS, SequenceTheorems

(* The request numbers; 0 stands for none. *)
LEMMA CmdsFacts == 0 \in Cmds0 /\ Cmds \subseteq Cmds0
  BY AtCmdAssumption DEF Cmds0, Cmds

(* Every operation waits with one of the parsers. *)
LEMMA ParserType == "OK" \in Parsers /\ \A o : Parser(o) \in Parsers
  BY DEF Parser, Parsers

(* What a cut of the receive buffer leaves is received lines. *)
LEMMA RxFromType ==
    ASSUME LinkTypeOK, NEW i \in 1..(Len(rxBffr) + 1)
    PROVE  RxFrom(i) \in Seq(Lines) /\ LinesOf(RxFrom(i)) \subseteq Lines
<1>1. RxFrom(i) \in Seq(Lines)
  BY DEF RxFrom, LinkTypeOK
<1>2. \A s \in Seq(Lines) : LinesOf(s) \subseteq Lines
  BY DEF LinesOf
<1> QED BY <1>1, <1>2

(* The end of a pass of S__readResult() keeps the types of what it sets. *)
LEMMA ConcludeType ==
    ASSUME TypeOK, NEW t \in Tasks,
           NEW c \in {"success", "cmError", "internalError", "timeout", "unknown"}, NEW f \in Cmds0,
           Conclude(t, c, f)
    PROVE  /\ isOpenLocked' \in BOOLEAN /\ resultCode' \in ResultCodes /\ from' \in Cmds0
           /\ rslt' \in [Tasks -> Codes] /\ pc' \in [Tasks -> PCs]
<1>1. pc \in [Tasks -> PCs] /\ rslt \in [Tasks -> Codes] /\ isOpenLocked \in BOOLEAN
  BY DEF TypeOK, AtcmdTypeOK, CallTypeOK
<1>2. isOpenLocked' \in BOOLEAN
  BY DEF Conclude
<1>3. CASE cancellationRequest
  BY <1>1, <1>2, <1>3, CmdsFacts DEF Conclude, ResultCodes, Goto, PCs
<1>4. CASE ~cancellationRequest
  BY <1>1, <1>2, <1>4 DEF Conclude, Recorded, ResultCodes, Codes, Goto, PCs
<1> QED BY <1>3, <1>4

(* Whatever the parser makes of the lines received, what it sets has its type. *)
LEMMA SettleType ==
    ASSUME TypeOK, NEW t \in Tasks, NEW lines \in SUBSET Lines, NEW b \in BOOLEAN,
           Settle(t, lines, b)
    PROVE  /\ isOpenLocked' \in BOOLEAN /\ resultCode' \in ResultCodes /\ from' \in Cmds0
           /\ rslt' \in [Tasks -> Codes] /\ pc' \in [Tasks -> PCs]
<1>1. \A x \in Lines : x.cmd \in Cmds0
  BY CmdsFacts DEF Lines
<1>3. PICK c \in {"success", "cmError", "internalError", "timeout", "unknown"}, f \in Cmds0 : Conclude(t, c, f)
  BY <1>1, CmdsFacts DEF Settle
<1> QED BY <1>3, ConcludeType

(* A new request has a number within the bound. *)
LEMMA NewRequestType ==
    ASSUME HistTypeOK, NEW t \in Tasks, NewRequest(t)
    PROVE  cmds' \in Cmds0 /\ cmd' \in [Tasks -> Cmds0] /\ cmds + 1 \in Cmds /\ cmds + 1 \in Cmds0
<1>1. cmds \in Nat /\ cmds + 1 \in Cmds0 /\ cmds + 1 \in Cmds
  BY AtCmdAssumption DEF HistTypeOK, NewRequest, Cmds0, Cmds
<1> QED BY <1>1 DEF NewRequest, HistTypeOK

(* What a call returns has its type. *)
LEMMA FinishType ==
    ASSUME TypeOK, NEW t \in Tasks, NEW c \in Codes, NEW f \in Cmds0, Finish(t, c, f)
    PROVE  /\ pc' \in [Tasks -> PCs]
           /\ last' \in [Tasks -> [code : Codes, cmd : Cmds0, from : Cmds0]]
<1>1. pc \in [Tasks -> PCs] /\ cmd[t] \in Cmds0
  BY DEF TypeOK, CallTypeOK, HistTypeOK
<1>2. pc' \in [Tasks -> PCs]
  BY <1>1 DEF Finish, Goto, PCs
<1>3. last \in [Tasks -> [code : Codes, cmd : Cmds0, from : Cmds0]]
  BY DEF TypeOK, HistTypeOK
<1> QED BY <1>1, <1>2, <1>3 DEF Finish

(* The initial states have the types. *)
LEMMA InitType == Init => TypeOK
<1> SUFFICES ASSUME Init PROVE TypeOK
  OBVIOUS
<1>1. AtcmdTypeOK
  BY CmdsFacts, ParserType DEF Init, AtcmdTypeOK, NoData, ResultCodes
<1>2. LinkTypeOK
  BY DEF Init, LinkTypeOK
<1>3. CallTypeOK
  BY DEF Init, CallTypeOK, PCs, AllOps, AutoOps, ManualOps, Codes, ResultCodes
<1>4. HistTypeOK
  BY CmdsFacts DEF Init, HistTypeOK, Codes, ResultCodes
<1> QED BY <1>1, <1>2, <1>3, <1>4 DEF TypeOK

(* The caller's steps that change no more than where it stands. *)
LEMMA GotoType ==
    ASSUME TypeOK, NEW t \in Tasks,
           TestLock(t) \/ RetryLock(t) \/ ReuseLockAssert(t) \/ ResumeAwait(t)
    PROVE  TypeOK'
<1>1. pc' \in [Tasks -> PCs] /\ UNCHANGED <<cpu, op, step, rslt>>
  BY DEF TestLock, RetryLock, ReuseLockAssert, ResumeAwait, TypeOK, CallTypeOK, Goto, PCs
<1>2. UNCHANGED <<atcmdVars, cancellationRequest, rxBffr, tx, modem, histVars>>
  BY DEF TestLock, RetryLock, ReuseLockAssert, ResumeAwait
<1>3. CallTypeOK'
  BY <1>1 DEF TypeOK, CallTypeOK
<1>4. AtcmdTypeOK' /\ LinkTypeOK' /\ HistTypeOK'
  BY <1>2 DEF TypeOK, AtcmdTypeOK, LinkTypeOK, HistTypeOK, atcmdVars, histVars
<1> QED BY <1>3, <1>4 DEF TypeOK

(* An application call keeps the types: it numbers a request and sets data mode. *)
LEMMA CallType ==
    ASSUME TypeOK, NEW t \in Tasks, NEW o \in Ops, Call(t, o) PROVE TypeOK'
<1> USE DEF TypeOK
<1>1. cmds' \in Cmds0 /\ cmd' \in [Tasks -> Cmds0] /\ cmds + 1 \in Cmds0
  BY NewRequestType DEF Call
<1>2. dataMode' \in [cmd : Cmds0, skip : BOOLEAN]
  BY <1>1 DEF Call, ConfigDataMode, AtcmdTypeOK
<1>3. AtcmdTypeOK'
  BY <1>2 DEF Call, AtcmdTypeOK
<1>4. LinkTypeOK'
  BY DEF Call, LinkTypeOK
<1>5. CallTypeOK'
  BY AtCmdAssumption DEF Call, CallTypeOK, Goto, PCs
<1>6. HistTypeOK'
  BY <1>1 DEF Call, HistTypeOK
<1> QED BY <1>3, <1>4, <1>5, <1>6

(* A call that could not have the lock. *)
LEMMA NotInvokedType ==
    ASSUME TypeOK, NEW t \in Tasks, TryInvokeLocked(t) \/ LockTimeout(t) PROVE TypeOK'
<1> USE DEF TypeOK
<1>1. /\ isOpenLocked' \in BOOLEAN /\ respParser' \in Parsers
      /\ pc' \in [Tasks -> PCs] /\ last' \in [Tasks -> [code : Codes, cmd : Cmds0, from : Cmds0]]
      /\ abandoned' \subseteq Cmds0
  <2>0. abandoned \cup {cmd[t]} \subseteq Cmds0
    BY DEF HistTypeOK
  <2>1. CASE op[t] \in UncheckedOps
    BY <2>1, ParserType DEF TryInvokeLocked, LockTimeout, NotInvoked, AtcmdTypeOK, CallTypeOK, HistTypeOK, Goto, PCs
  <2>2. CASE op[t] \notin UncheckedOps
    <3>1. PICK c \in {"undefined", "none", "conflict"} : Finish(t, c, 0)
      BY <2>2 DEF TryInvokeLocked, LockTimeout, NotInvoked
    <3>2. c \in Codes
      BY DEF Codes, ResultCodes
    <3>3. isOpenLocked' \in BOOLEAN /\ respParser' = respParser /\ abandoned' = abandoned \cup {cmd[t]}
      BY <2>2 DEF TryInvokeLocked, LockTimeout, NotInvoked
    <3>4. respParser \in Parsers
      BY DEF AtcmdTypeOK
    <3> QED BY <2>0, <3>1, <3>2, <3>3, <3>4, CmdsFacts, FinishType
  <2> QED BY <2>1, <2>2
<1>2. UNCHANGED <<autoLock, resultCode, elapsed, dataMode, rawResponse, cancellationRequest,
                  rxBffr, tx, modem, cpu, op, step, rslt, cmds, cmd, owner, from>>
  BY DEF TryInvokeLocked, LockTimeout
<1> QED BY <1>1, <1>2 DEF AtcmdTypeOK, LinkTypeOK, CallTypeOK, HistTypeOK

(* A text that IOP_startTx() takes or drops leaves a transmission. *)
LEMMA StartTxType ==
    ASSUME LinkTypeOK, NEW k \in Orders \cup {"payload"},
           NEW c \in Cmds, StartTx([kind |-> k, cmd |-> c])
    PROVE  tx' \in Sends \cup {NoTx}
  BY DEF StartTx, LinkTypeOK, Sends

(* A transmission that atcmd_reset() cut short is a transmission. *)
LEMMA TruncatedType ==
    ASSUME LinkTypeOK PROVE Truncated \subseteq Sends \cup {NoTx}
<1>1. CASE tx = NoTx
  BY <1>1 DEF Truncated
<1>2. CASE tx # NoTx
  <2>1. tx \in Sends
    BY <1>2 DEF LinkTypeOK
  <2>2. CutShort(tx) \in Sends
    BY <2>1 DEF CutShort, Sends
  <2> QED BY <1>2, <2>1, <2>2 DEF Truncated
<1> QED BY <1>1, <1>2

(* Every operation sends one of the four kinds of command. *)
LEMMA KindType ==
    ASSUME NEW o PROVE Order(o) \in Orders
  BY DEF Order, Orders

(* A task inside a call has a request.  This is the one fact about callers *)
(* that the types of the link depend on, so that TypeOK is not inductive   *)
(* without it.                                                             *)
HasRequest == \A t \in Tasks : pc[t] # "idle" => cmd[t] \in Cmds

TypeInv == TypeOK /\ HasRequest

(* Steps that hand a command to the UART. *)
LEMMA SendType ==
    ASSUME TypeInv, NEW t \in Tasks, Send(t) \/ InvokeReuseLock(t) PROVE TypeOK'
<1> USE DEF TypeInv, TypeOK
<1>1. tx' \in Sends \cup {NoTx}
  <2>1. cmd[t] \in Cmds
    BY DEF HasRequest, Send, InvokeReuseLock
  <2>2. CASE Send(t)
    BY <2>1, <2>2, KindType, StartTxType DEF Send
  <2>3. CASE InvokeReuseLock(t)
    <3>1. [kind |-> Order(op[t]), cmd |-> cmd[t]] \in Sends
      BY <2>1, KindType DEF Sends
    <3> QED BY <2>3, <3>1, TruncatedType DEF InvokeReuseLock
  <2> QED BY <2>2, <2>3
<1>2. AtcmdTypeOK'
  BY ParserType DEF Send, InvokeReuseLock, Reset, AtcmdTypeOK, ResultCodes
<1>3. LinkTypeOK'
  BY <1>1 DEF Send, InvokeReuseLock, LinkTypeOK
<1>4. CallTypeOK'
  BY DEF Send, InvokeReuseLock, CallTypeOK, Goto, PCs
<1>5. HistTypeOK'
  BY CmdsFacts DEF Send, InvokeReuseLock, Reset, HistTypeOK, histVars
<1> QED BY <1>2, <1>3, <1>4, <1>5

(* The steps that clear the control block and take the lock keep the types. *)
LEMMA TakeType ==
    ASSUME TypeOK, NEW t \in Tasks, TryInvoke(t) \/ TakeLock(t) PROVE TypeOK'
<1> USE DEF TypeOK
<1>1. AtcmdTypeOK'
  BY ParserType DEF TryInvoke, TakeLock, Reset, AtcmdTypeOK, ResultCodes
<1>2. LinkTypeOK'
  BY TruncatedType DEF TryInvoke, TakeLock, LinkTypeOK
<1>3. CallTypeOK'
  BY DEF TryInvoke, TakeLock, CallTypeOK, Goto, PCs
<1>4. HistTypeOK'
  BY CmdsFacts DEF TryInvoke, TakeLock, Reset, HistTypeOK
<1> QED BY <1>1, <1>2, <1>3, <1>4

(* What the receive path puts together is received lines. *)
LEMMA LinesType ==
    ASSUME TypeOK PROVE rawResponse \cup LinesOf(rxBffr) \in SUBSET Lines
  BY DEF TypeOK, AtcmdTypeOK, LinkTypeOK, LinesOf

(* A pass of S__readResult() without data mode, or after it timed out, keeps the types. *)
LEMMA ReadType ==
    ASSUME TypeOK, NEW t \in Tasks, ReadResult(t) \/ DataTimeout(t) PROVE TypeOK'
<1>1. PICK b \in BOOLEAN : Settle(t, rawResponse \cup LinesOf(rxBffr), b)
  BY DEF ReadResult, DataTimeout
<1>2. /\ isOpenLocked' \in BOOLEAN /\ resultCode' \in ResultCodes /\ from' \in Cmds0
      /\ rslt' \in [Tasks -> Codes] /\ pc' \in [Tasks -> PCs]
  BY <1>1, LinesType, SettleType
<1>3. rawResponse' \subseteq Lines /\ rxBffr' \in Seq(Lines)
  <2>1. rawResponse' = rawResponse \cup LinesOf(rxBffr) /\ rxBffr' = <<>>
    BY DEF ReadResult, DataTimeout
  <2> QED BY <2>1, LinesType
<1>4. dataMode' \in [cmd : Cmds0, skip : BOOLEAN]
  <2>1. dataMode' \in {dataMode, NoData}
    BY DEF ReadResult, DataTimeout, ClearDataMode
  <2>2. NoData \in [cmd : Cmds0, skip : BOOLEAN]
    BY CmdsFacts DEF NoData
  <2>3. dataMode \in [cmd : Cmds0, skip : BOOLEAN]
    BY DEF TypeOK, AtcmdTypeOK
  <2> QED BY <2>1, <2>2, <2>3
<1>5. UNCHANGED <<autoLock, respParser, elapsed, cancellationRequest, tx, modem, cpu,
                  op, step, cmds, cmd, owner, abandoned, last>>
  BY DEF ReadResult, DataTimeout
<1> QED BY <1>2, <1>3, <1>4, <1>5 DEF TypeOK, AtcmdTypeOK, LinkTypeOK, CallTypeOK, HistTypeOK

(* The step that answers the data prompt keeps the types. *)
LEMMA EnterDataModeType ==
    ASSUME TypeOK, NEW t \in Tasks, EnterDataMode(t) PROVE TypeOK'
<1> USE DEF TypeOK
<1>1. rxBffr' \in Seq(Lines)
  <2>1. PICK i \in FirstRx({"PROMPT"}) : rxBffr' = RxFrom(i)
    BY DEF EnterDataMode
  <2>2. i \in 1..(Len(rxBffr) + 1)
    BY DEF FirstRx, LinkTypeOK
  <2> QED BY <2>1, <2>2, RxFromType
<1>2. tx' \in Sends \cup {NoTx}
  <2>1. dataMode.cmd \in Cmds
    BY DEF EnterDataMode, DataTriggered, AtcmdTypeOK, Cmds0, Cmds
  <2> QED BY <2>1, StartTxType DEF EnterDataMode
<1>3. AtcmdTypeOK'
  BY DEF EnterDataMode, AtcmdTypeOK, ResultCodes
<1>4. LinkTypeOK'
  BY <1>1, <1>2 DEF EnterDataMode, LinkTypeOK
<1>5. CallTypeOK'
  BY DEF EnterDataMode, CallTypeOK, Goto, PCs
<1>6. HistTypeOK'
  BY CmdsFacts DEF EnterDataMode, HistTypeOK
<1> QED BY <1>3, <1>4, <1>5, <1>6

(* The step that finds the OK after the data keeps the types. *)
LEMMA DataSentType ==
    ASSUME TypeOK, NEW t \in Tasks, DataSent(t) PROVE TypeOK'
<1>1. PICK i \in FirstRx({"OK", "SEND_OK"}) :
        \/ /\ rxBffr' = RxFrom(i + 1)
           /\ Conclude(t, "success", rxBffr[i].cmd)
           /\ UNCHANGED rawResponse
        \/ /\ rxBffr' = <<>>
           /\ rawResponse' = rawResponse \cup LinesOf(RxFrom(i + 1))
           /\ Settle(t, rawResponse \cup LinesOf(RxFrom(i + 1)), TRUE)
  BY DEF DataSent
<1>2. i \in 1..Len(rxBffr) /\ i + 1 \in 1..(Len(rxBffr) + 1) /\ rxBffr[i].cmd \in Cmds0
  <2>1. rxBffr \in Seq(Lines)
    BY DEF TypeOK, LinkTypeOK
  <2>2. i \in 1..Len(rxBffr)
    BY DEF FirstRx
  <2>3. rxBffr[i] \in Lines /\ i + 1 \in 1..(Len(rxBffr) + 1)
    BY <2>1, <2>2
  <2> QED BY <2>2, <2>3, CmdsFacts DEF Lines
<1>3. /\ RxFrom(i + 1) \in Seq(Lines)
      /\ rawResponse \cup LinesOf(RxFrom(i + 1)) \in SUBSET Lines
  <2>1. RxFrom(i + 1) \in Seq(Lines) /\ LinesOf(RxFrom(i + 1)) \subseteq Lines
    BY <1>2, RxFromType DEF TypeOK
  <2> QED BY <2>1 DEF TypeOK, AtcmdTypeOK
<1>4. /\ isOpenLocked' \in BOOLEAN /\ resultCode' \in ResultCodes /\ from' \in Cmds0
      /\ rslt' \in [Tasks -> Codes] /\ pc' \in [Tasks -> PCs]
  BY <1>1, <1>2, <1>3, ConcludeType, SettleType
<1>5. rxBffr' \in Seq(Lines) /\ rawResponse' \subseteq Lines
  <2>1. rawResponse' \in {rawResponse, rawResponse \cup LinesOf(RxFrom(i + 1))}
    BY <1>1
  <2>2. rxBffr' \in {<<>>, RxFrom(i + 1)}
    BY <1>1
  <2>3. rawResponse \subseteq Lines /\ <<>> \in Seq(Lines)
    BY DEF TypeOK, AtcmdTypeOK
  <2> QED BY <1>3, <2>1, <2>2, <2>3
<1>6. dataMode' \in [cmd : Cmds0, skip : BOOLEAN]
  BY CmdsFacts DEF DataSent, ClearDataMode, NoData
<1>7. UNCHANGED <<autoLock, respParser, elapsed, cancellationRequest, tx, modem, cpu,
                  op, step, cmds, cmd, owner, abandoned, last>>
  BY DEF DataSent
<1> QED BY <1>4, <1>5, <1>6, <1>7 DEF TypeOK, AtcmdTypeOK, LinkTypeOK, CallTypeOK, HistTypeOK

(* What every return from atcmd_awaitResult() sets. *)
LEMMA AwaitReturnsType ==
    ASSUME TypeInv, NEW t \in Tasks, AwaitReturns(t)
    PROVE  /\ respParser' \in Parsers /\ abandoned' \subseteq Cmds0
           /\ UNCHANGED <<autoLock, resultCode, elapsed, dataMode, rawResponse,
                          cancellationRequest, rxBffr, tx, modem, cpu, op, rslt, owner, from>>
<1>1. cmd[t] \in Cmds0 /\ abandoned \subseteq Cmds0
  BY DEF TypeInv, TypeOK, HistTypeOK
<1> QED BY <1>1, ParserType DEF AwaitReturns

(* A return from atcmd_awaitResult() keeps the types, in each kind of operation. *)
LEMMA ReturnType ==
    ASSUME TypeInv, NEW t \in Tasks, ReturnAuto(t) \/ ReturnSequence(t) \/ ReturnProvider(t)
    PROVE  TypeOK'
<1> USE DEF TypeInv
<1>1. AwaitReturns(t)
  BY DEF ReturnAuto, ReturnSequence, ReturnProvider
<1>2. isOpenLocked' \in BOOLEAN
  BY DEF ReturnAuto, ReturnSequence, ReturnProvider, TypeOK, AtcmdTypeOK
<1>3. step' \in [Tasks -> 1..3]
  BY DEF ReturnAuto, ReturnSequence, ReturnProvider, TypeOK, CallTypeOK
<1>4. cmds' \in Cmds0 /\ cmd' \in [Tasks -> Cmds0]
  BY NewRequestType DEF ReturnAuto, ReturnSequence, ReturnProvider, TypeOK, HistTypeOK
<1>5. /\ pc' \in [Tasks -> PCs]
      /\ last' \in [Tasks -> [code : Codes, cmd : Cmds0, from : Cmds0]]
  <2>1. \/ \E c \in Codes : Finish(t, c, from)
        \/ (Goto(t, "reuse") \/ Goto(t, "pollDelay")) /\ UNCHANGED last
    BY DEF ReturnAuto, ReturnSequence, ReturnProvider, TypeOK, AtcmdTypeOK, Codes, ResultCodes
  <2> QED BY <2>1, FinishType DEF Goto, PCs, TypeOK, CallTypeOK, HistTypeOK
<1> QED BY <1>1, <1>2, <1>3, <1>4, <1>5, AwaitReturnsType
        DEF TypeOK, AtcmdTypeOK, LinkTypeOK, CallTypeOK, HistTypeOK

(* The end of a poll of ntwk_awaitProvider() keeps the types. *)
LEMMA PollType ==
    ASSUME TypeOK, NEW t \in Tasks, PollProvider(t) PROVE TypeOK'
<1>1. cmds' \in Cmds0 /\ cmd' \in [Tasks -> Cmds0]
  BY NewRequestType DEF PollProvider, TypeOK, HistTypeOK
<1>2. /\ pc' \in [Tasks -> PCs] /\ isOpenLocked' \in BOOLEAN
      /\ last' \in [Tasks -> [code : Codes, cmd : Cmds0, from : Cmds0]]
  <2>1. \/ Finish(t, "none", 0) /\ isOpenLocked' = FALSE
        \/ Goto(t, "reuse") /\ UNCHANGED <<isOpenLocked, last>>
    BY DEF PollProvider
  <2>2. "none" \in Codes
    BY DEF Codes, ResultCodes
  <2> QED BY <2>1, <2>2, CmdsFacts, FinishType
          DEF Goto, PCs, TypeOK, AtcmdTypeOK, CallTypeOK, HistTypeOK
<1> QED BY <1>1, <1>2 DEF PollProvider, TypeOK, AtcmdTypeOK, LinkTypeOK, CallTypeOK, HistTypeOK

(* The steps outside the callers. *)
LEMMA OutsideType ==
    ASSUME TypeOK, Outside PROVE TypeOK'
<1>1. CASE Elapse
  BY <1>1 DEF Elapse, TypeOK, AtcmdTypeOK, LinkTypeOK, CallTypeOK, HistTypeOK, callVars, histVars
<1>2. CASE RequestCancel
  BY <1>2 DEF RequestCancel, TypeOK, AtcmdTypeOK, LinkTypeOK, CallTypeOK, HistTypeOK,
              atcmdVars, callVars, histVars
<1>3. CASE TxDone \/ ModemStep
  <2>1. LinkTypeOK'
    <3>1. CASE TxDone
      <4>1. tx \in Sends /\ modem \in Seq(Sends)
        BY <3>1 DEF TxDone, TypeOK, LinkTypeOK
      <4> QED BY <3>1, <4>1 DEF TxDone, TypeOK, LinkTypeOK
    <3>2. CASE ModemStep
      <4>1. modem \in Seq(Sends) /\ rxBffr \in Seq(Lines) /\ modem # <<>>
        BY <3>2 DEF ModemStep, TypeOK, LinkTypeOK
      <4>2. /\ Head(modem) \in Sends /\ Tail(modem) \in Seq(Sends)
            /\ Tail(modem) # <<>> => Head(Tail(modem)) \in Sends /\ Tail(Tail(modem)) \in Seq(Sends)
        BY <4>1
      <4>3. \A k \in Stages : [Head(modem) EXCEPT !.kind = k] \in Sends
        BY <4>2 DEF Sends
      <4>4. \A k \in Stages :
              /\ <<[Head(modem) EXCEPT !.kind = k]>> \o Tail(modem) \in Seq(Sends)
              /\ Tail(modem) # <<>> =>
                   <<[Head(modem) EXCEPT !.kind = k]>> \o Tail(Tail(modem)) \in Seq(Sends)
        BY <4>2, <4>3
      <4>5. modem' \in Seq(Sends)
        <5>1. <<Head(modem)>> \o Tail(modem) \in Seq(Sends) /\
              (Tail(modem) # <<>> => <<Head(modem)>> \o Tail(Tail(modem)) \in Seq(Sends))
          BY <4>2
        <5> QED BY <3>2, <4>2, <4>4, <5>1 DEF ModemStep, Emit, Whole, Stages, Parsers
      <4>6. \/ UNCHANGED rxBffr
            \/ \E k \in Parsers \cup {"ERROR", "PROMPT"}, x \in Sends :
                  rxBffr' = Append(rxBffr, [kind |-> k, cmd |-> x.cmd])
        BY <3>2, <4>2 DEF ModemStep, Emit, Whole, Stages, Parsers
      <4>7. \A k \in Parsers \cup {"ERROR", "PROMPT"}, x \in Sends : [kind |-> k, cmd |-> x.cmd] \in Lines
        BY DEF Sends, Lines
      <4>8. rxBffr' \in Seq(Lines)
        <5>1. CASE UNCHANGED rxBffr
          BY <4>1, <5>1
        <5>2. ASSUME NEW x \in Lines, rxBffr' = Append(rxBffr, x) PROVE rxBffr' \in Seq(Lines)
          BY <4>1, <5>2
        <5> QED BY <4>6, <4>7, <5>1, <5>2
      <4> QED BY <3>2, <4>5, <4>8 DEF ModemStep, TypeOK, LinkTypeOK
    <3> QED BY <1>3, <3>1, <3>2
  <2>2. UNCHANGED <<atcmdVars, cancellationRequest, cpu, callVars, histVars>>
    BY <1>3 DEF TxDone, ModemStep
  <2> QED BY <2>1, <2>2 DEF TypeOK, AtcmdTypeOK, CallTypeOK, HistTypeOK, atcmdVars, callVars, histVars
<1> QED BY <1>1, <1>2, <1>3 DEF Outside

(* The steps of a caller that is inside a call. *)
CallerStep(t) == Invoke(t) \/ Await(t) \/ Resume(t)

(* Such a step is the running task's, and moves no other task. *)
LEMMA StepLocal ==
    ASSUME CallTypeOK, NEW t \in Tasks, CallerStep(t)
    PROVE  /\ cpu = t /\ cpu' = t /\ pc[t] # "idle"
           /\ \A u \in Tasks \ {t} : pc'[u] = pc[u]
           /\ op' = op
<1>1. cpu = t /\ pc[t] # "idle" /\ cpu' = cpu /\ op' = op
  BY DEF CallerStep, Invoke, Await, Resume, TryInvokeLocked, TryInvoke, TestLock, TakeLock, RetryLock,
     LockTimeout, Send, InvokeReuseLock, ReuseLockAssert, ReadResult, EnterDataMode, DataSent,
     DataTimeout, ResumeAwait, ReturnAuto, ReturnSequence, ReturnProvider, PollProvider, AwaitReturns
<1>2. \E l : pc' = [pc EXCEPT ![t] = l]
  <2>1. CASE Invoke(t)
    BY <2>1 DEF Invoke, TryInvokeLocked, TryInvoke, TestLock, TakeLock, RetryLock,
       LockTimeout, NotInvoked, Send, InvokeReuseLock, ReuseLockAssert, Finish, Goto
  <2>2. CASE Await(t)
    BY <2>2 DEF Await, ReadResult, EnterDataMode, DataSent, DataTimeout, ResumeAwait,
       Settle, Conclude, Goto
  <2>3. CASE Resume(t)
    BY <2>3 DEF Resume, ReturnAuto, ReturnSequence, ReturnProvider, PollProvider, Finish, Goto
  <2> QED BY <2>1, <2>2, <2>3 DEF CallerStep
<1> QED BY <1>1, <1>2 DEF CallTypeOK

(* A task that is inside a call has a request after every step of a caller. *)
LEMMA StepRequest ==
    ASSUME TypeInv, NEW t \in Tasks, CallerStep(t) PROVE HasRequest'
<1>1. UNCHANGED cmd \/ NewRequest(t)
  BY DEF CallerStep, Invoke, Await, Resume, TryInvokeLocked, TryInvoke, TestLock, TakeLock, RetryLock,
     LockTimeout, Send, InvokeReuseLock, ReuseLockAssert, ReadResult, EnterDataMode, DataSent,
     DataTimeout, ResumeAwait, ReturnAuto, ReturnSequence, ReturnProvider, PollProvider, histVars
<1>2. \A u \in Tasks : cmd'[u] = cmd[u] \/ cmd'[u] \in Cmds
  <2>1. cmd \in [Tasks -> Cmds0]
    BY DEF TypeInv, TypeOK, HistTypeOK
  <2> QED BY <1>1, <2>1, NewRequestType DEF NewRequest, TypeInv, TypeOK
<1>3. \A u \in Tasks : pc[u] = "idle" => pc'[u] = "idle"
  BY StepLocal DEF TypeInv, TypeOK
<1> QED BY <1>2, <1>3 DEF HasRequest, TypeInv

(* Every step of a caller inside a call keeps the types. *)
LEMMA StepType ==
    ASSUME TypeInv, NEW t \in Tasks, CallerStep(t) PROVE TypeOK'
  BY NotInvokedType, TakeType, GotoType, SendType, ReadType, EnterDataModeType, DataSentType,
     ReturnType, PollType DEF CallerStep, Invoke, Await, Resume, TypeInv

(* The strengthened type invariant is inductive. *)
LEMMA TypeInductive == TypeInv /\ [Next]_vars => TypeInv'
<1> SUFFICES ASSUME TypeInv, [Next]_vars PROVE TypeInv'
  OBVIOUS
<1> USE DEF TypeInv
<1>1. ASSUME NEW t \in Tasks, NEW o \in Ops, Call(t, o) PROVE TypeInv'
  <2>1. TypeOK'
    BY <1>1, CallType
  <2>2. cmd' = [cmd EXCEPT ![t] = cmds + 1] /\ cmds + 1 \in Cmds
    BY <1>1, NewRequestType DEF Call, NewRequest, TypeOK
  <2>3. \A u \in Tasks \ {t} : pc'[u] = pc[u]
    BY <1>1 DEF Call, Goto, TypeOK, CallTypeOK
  <2> QED BY <2>1, <2>2, <2>3 DEF HasRequest, TypeOK, HistTypeOK
<1>2. ASSUME NEW t \in Tasks, CallerStep(t) PROVE TypeInv'
  BY <1>2, StepType, StepRequest
<1>3. ASSUME NEW t \in Tasks, Switch(t) PROVE TypeInv'
  BY <1>3 DEF Switch, TypeOK, AtcmdTypeOK, LinkTypeOK, CallTypeOK, HistTypeOK, HasRequest,
              atcmdVars, callVars, histVars
<1>4. CASE Outside
  <2>1. UNCHANGED <<callVars, histVars>>
    BY <1>4 DEF Outside, Elapse, RequestCancel, TxDone, ModemStep
  <2> QED BY <1>4, <2>1, OutsideType DEF HasRequest, callVars, histVars
<1>5. CASE UNCHANGED vars
  BY <1>5 DEF vars, TypeOK, AtcmdTypeOK, LinkTypeOK, CallTypeOK, HistTypeOK, HasRequest,
              atcmdVars, callVars, histVars
<1> QED BY <1>1, <1>2, <1>3, <1>4, <1>5 DEF Next, Caller, CallerStep

(* Theorem 1.  The control block, the callers' locals and the queues have  *)
(* their types in every reachable state, whatever the number of tasks, the *)
(* set of operations and the scheduling.                                   *)
THEOREM TypeCorrect == Spec => []TypeOK
<1>1. Init => TypeInv
  BY InitType DEF Init, TypeInv, HasRequest
<1>2. TypeInv => TypeOK
  BY DEF TypeInv
<1> QED BY <1>1, <1>2, TypeInductive, PTL DEF Spec

-----------------------------------------------------------------------------
(* Mutual exclusion of commands.  It rests on cooperative scheduling and   *)
(* on operations that only the result of a command releases the lock of:   *)
(* with preemption two tasks may pass the test of the lock, and sckt_send() *)
(* and ntwk_awaitProvider() close a lock that is not theirs.               *)

Cooperative == ~Preemptive /\ Ops \subseteq PlainOps

(* A task that is not at a yield point runs; it takes the lock where       *)
(* nobody holds it; and it holds the lock while its command is open.       *)
LockInv ==
    \A t \in Tasks :
        /\ op[t] \in PlainOps
        /\ pc[t] \notin {"reuse", "pollDelay"}
        /\ pc[t] \notin YieldPoints => cpu = t
        /\ pc[t] = "take" => ~isOpenLocked
        /\ Busy(t) => isOpenLocked /\ owner = t

MutexInv == TypeInv /\ LockInv

LEMMA PlainFacts == PlainOps = {"file_close"}
  BY DEF PlainOps, AutoOps, UncheckedOps, ClosingOps

(* What follows from the invariant for the running task. *)
LEMMA BusyAlone ==
    ASSUME MutexInv, NEW t \in Tasks, NEW u \in Tasks, Busy(t), Busy(u) PROVE t = u
  BY DEF MutexInv, LockInv

(* A pass of S__readResult() by a task whose command is open: it keeps the *)
(* lock if it goes on, and is not busy if it released it.                  *)
LEMMA ConcludeMutex ==
    ASSUME MutexInv, NEW t \in Tasks, NEW c, NEW f, Conclude(t, c, f)
    PROVE  /\ pc'[t] \in {"return", "readYield"}
           /\ Busy(t)' => c = "unknown" /\ isOpenLocked' = isOpenLocked
<1>1. pc \in [Tasks -> PCs] /\ rslt \in [Tasks -> Codes] /\ isOpenLocked \in BOOLEAN
  BY DEF MutexInv, TypeInv, TypeOK, CallTypeOK, AtcmdTypeOK
<1>2. CASE cancellationRequest
  BY <1>1, <1>2 DEF Conclude, Goto, Busy
<1>3. CASE ~cancellationRequest
  <2>1. pc'[t] = "readYield" /\ rslt'[t] = c
    BY <1>1, <1>3 DEF Conclude, Goto
  <2>2. c = "unknown" => isOpenLocked' = isOpenLocked
    BY <1>1 DEF Conclude, Unlocks
  <2> QED BY <2>1, <2>2 DEF Busy
<1> QED BY <1>2, <1>3

(* The steps that read a result, all taken with a command open. *)
LEMMA AwaitMutex ==
    ASSUME MutexInv, NEW t \in Tasks, Await(t)
    PROVE  /\ owner' = owner
           /\ pc'[t] \in {"return", "readYield", "dataWait", "read"}
           /\ Busy(t)' => Busy(t) /\ isOpenLocked' = isOpenLocked
           /\ isOpenLocked' # isOpenLocked => Busy(t)
<1>1. pc \in [Tasks -> PCs]
  BY DEF MutexInv, TypeInv, TypeOK, CallTypeOK
<1>2. CASE ReadResult(t) \/ DataSent(t) \/ DataTimeout(t)
  <2>1. \E c, f : Conclude(t, c, f)
    BY <1>2 DEF ReadResult, DataSent, DataTimeout, Settle
  <2>2. Busy(t) /\ owner' = owner
    BY <1>2 DEF ReadResult, DataSent, DataTimeout, Busy
  <2> QED BY <2>1, <2>2, ConcludeMutex
<1>3. CASE EnterDataMode(t)
  BY <1>1, <1>3 DEF EnterDataMode, Goto, Busy
<1>4. CASE ResumeAwait(t)
  BY <1>1, <1>4 DEF ResumeAwait, Goto, Busy, atcmdVars, histVars
<1> QED BY <1>2, <1>3, <1>4 DEF Await

(* The steps that ask for the lock and send the command. *)
LEMMA InvokeMutex ==
    ASSUME Cooperative, MutexInv, NEW t \in Tasks, Invoke(t)
    PROVE  /\ pc'[t] \in {"idle", "lock", "lockYield", "take", "send", "read", "halt"}
           /\ pc'[t] = "take" => ~isOpenLocked'
           /\ Busy(t)' => isOpenLocked' /\ owner' = t
           /\ \A u \in Tasks \ {t} : Busy(u) => isOpenLocked' = isOpenLocked /\ owner' = owner
           /\ isOpenLocked => isOpenLocked'
<1>0. /\ pc \in [Tasks -> PCs] /\ isOpenLocked \in BOOLEAN
      /\ op[t] \in PlainOps /\ pc[t] # "reuse"
  BY DEF MutexInv, TypeInv, TypeOK, CallTypeOK, AtcmdTypeOK, LockInv
<1>1. CASE TryInvokeLocked(t) \/ LockTimeout(t)
  BY <1>0, <1>1, PlainFacts
     DEF TryInvokeLocked, LockTimeout, NotInvoked, UncheckedOps, ClosingOps, Finish, Goto, Busy
<1>2. CASE TryInvoke(t)
  <2>1. ~isOpenLocked /\ isOpenLocked' = FALSE
    BY <1>2 DEF TryInvoke, LockIsFree, Reset
  <2>2. \A u \in Tasks : ~Busy(u)
    BY <2>1 DEF MutexInv, LockInv
  <2> QED BY <1>0, <1>2, <2>1, <2>2 DEF TryInvoke, Goto, Busy
<1>3. CASE TestLock(t) \/ RetryLock(t)
  BY <1>0, <1>3 DEF TestLock, RetryLock, LockIsFree, Goto, Busy, atcmdVars, histVars
<1>4. CASE TakeLock(t)
  <2>1. \A u \in Tasks : ~Busy(u)
    BY <1>4 DEF TakeLock, MutexInv, LockInv
  <2>2. pc'[t] = "send" /\ isOpenLocked' = TRUE /\ owner' = t
    BY <1>0, <1>4, PlainFacts DEF TakeLock, Goto, ManualOps
  <2> QED BY <2>1, <2>2
<1>5. CASE Send(t)
  <2>1. Busy(t)
    BY <1>5 DEF Send, Busy
  <2>2. isOpenLocked /\ owner = t
    BY <2>1 DEF MutexInv, LockInv
  <2>3. pc'[t] = "read" /\ isOpenLocked' = isOpenLocked /\ owner' = owner
    BY <1>0, <1>5 DEF Send, Goto, histVars
  <2> QED BY <2>2, <2>3
<1>6. ~InvokeReuseLock(t) /\ ~ReuseLockAssert(t)
  BY <1>0 DEF InvokeReuseLock, ReuseLockAssert
<1> QED BY <1>1, <1>2, <1>3, <1>4, <1>5, <1>6 DEF Invoke

(* A plain operation returns what the await gave it and leaves the lock.   *)
LEMMA ResumeMutex ==
    ASSUME MutexInv, NEW t \in Tasks, Resume(t)
    PROVE  pc'[t] = "idle" /\ isOpenLocked' = isOpenLocked /\ owner' = owner
<1>0. /\ pc \in [Tasks -> PCs] /\ isOpenLocked \in BOOLEAN
      /\ op[t] = "file_close" /\ pc[t] # "pollDelay"
  BY PlainFacts DEF MutexInv, TypeInv, TypeOK, CallTypeOK, AtcmdTypeOK, LockInv
<1>1. ReturnAuto(t)
  BY <1>0 DEF Resume, ReturnSequence, ReturnProvider, PollProvider
<1> QED BY <1>0, <1>1 DEF ReturnAuto, AwaitReturns, ClosingOps, Finish, Goto

(* Busy looks at two locals of the task. *)
LEMMA BusyLocal ==
    ASSUME NEW u, pc'[u] = pc[u], rslt'[u] = rslt[u] PROVE Busy(u)' <=> Busy(u)
  BY DEF Busy

(* A caller's step leaves the other tasks' copies of the result alone. *)
LEMMA RsltLocal ==
    ASSUME CallTypeOK, NEW t \in Tasks, CallerStep(t)
    PROVE  \A u \in Tasks \ {t} : rslt'[u] = rslt[u]
<1>1. UNCHANGED rslt \/ \E c : rslt' = [rslt EXCEPT ![t] = c]
  BY DEF CallerStep, Invoke, Await, Resume, TryInvokeLocked, TryInvoke, TestLock, TakeLock, RetryLock,
     LockTimeout, Send, InvokeReuseLock, ReuseLockAssert, ReadResult, EnterDataMode, DataSent,
     DataTimeout, ResumeAwait, ReturnAuto, ReturnSequence, ReturnProvider, PollProvider, AwaitReturns,
     Settle, Conclude
<1> QED BY <1>1 DEF CallTypeOK

(* A step of a caller preserves the lock invariant. *)
LEMMA LockStep ==
    ASSUME Cooperative, MutexInv, NEW t \in Tasks, CallerStep(t)
    PROVE  LockInv'
<1>1. /\ cpu = t /\ cpu' = t /\ op' = op
      /\ \A u \in Tasks \ {t} : pc'[u] = pc[u] /\ rslt'[u] = rslt[u]
  BY StepLocal, RsltLocal DEF MutexInv, TypeInv, TypeOK
<1>2. /\ pc'[t] \notin {"reuse", "pollDelay"}
      /\ pc'[t] = "take" => ~isOpenLocked'
      /\ Busy(t)' => isOpenLocked' /\ owner' = t
      /\ \A u \in Tasks \ {t} : Busy(u) => isOpenLocked' = isOpenLocked /\ owner' = owner
  <2>1. CASE Invoke(t)
    BY <2>1, InvokeMutex
  <2>2. CASE Await(t)
    <3>1. \A u \in Tasks \ {t} : Busy(u) => ~Busy(t)
      BY BusyAlone
    <3>2. Busy(t) => isOpenLocked /\ owner = t
      BY DEF MutexInv, LockInv
    <3> QED BY <2>2, <3>1, <3>2, AwaitMutex
  <2>3. CASE Resume(t)
    BY <2>3, ResumeMutex DEF Busy
  <2> QED BY <2>1, <2>2, <2>3 DEF CallerStep
<1>3. ASSUME NEW u \in Tasks \ {t}
      PROVE  /\ op'[u] \in PlainOps /\ pc'[u] \in YieldPoints /\ pc'[u] \notin {"reuse", "pollDelay"}
             /\ Busy(u)' => isOpenLocked' /\ owner' = u
  <2>1. pc[u] \in YieldPoints /\ op[u] \in PlainOps /\ pc[u] \notin {"reuse", "pollDelay"}
    BY <1>1 DEF MutexInv, LockInv
  <2>2. Busy(u) => isOpenLocked /\ owner = u
    BY DEF MutexInv, LockInv
  <2> QED BY <1>1, <1>2, <2>1, <2>2, BusyLocal
<1>4. op[t] \in PlainOps
  BY DEF MutexInv, LockInv
<1> QED BY <1>1, <1>2, <1>3, <1>4 DEF LockInv, YieldPoints

(* The lock invariant is inductive for cooperative tasks and plain operations. *)
LEMMA MutexInductive == Cooperative /\ MutexInv /\ [Next]_vars => MutexInv'
<1> SUFFICES ASSUME Cooperative, MutexInv, [Next]_vars PROVE LockInv'
  BY TypeInductive DEF MutexInv
<1>1. ASSUME NEW t \in Tasks, NEW o \in Ops, Call(t, o) PROVE LockInv'
  <2>1. /\ cpu' = t /\ cpu = t /\ o \in PlainOps /\ o \notin ManualOps
        /\ pc' = [pc EXCEPT ![t] = "try"] /\ op' = [op EXCEPT ![t] = o]
        /\ UNCHANGED <<isOpenLocked, owner, rslt>>
    BY <1>1, PlainFacts DEF Call, Goto, Cooperative, ManualOps
  <2>2. pc \in [Tasks -> PCs] /\ op \in [Tasks -> AllOps]
    BY DEF MutexInv, TypeInv, TypeOK, CallTypeOK
  <2>3. ~Busy(t)'
    BY <2>1, <2>2 DEF Busy
  <2>4. \A u \in Tasks \ {t} : pc'[u] = pc[u] /\ op'[u] = op[u] /\ (Busy(u)' <=> Busy(u))
    BY <2>1, <2>2, BusyLocal
  <2> QED BY <2>1, <2>2, <2>3, <2>4 DEF MutexInv, LockInv
<1>2. ASSUME NEW t \in Tasks, CallerStep(t) PROVE LockInv'
  BY <1>2, LockStep
<1>3. ASSUME NEW t \in Tasks, Switch(t) PROVE LockInv'
  <2>1. /\ pc[cpu] \in YieldPoints /\ cpu' = t
        /\ UNCHANGED <<pc, op, rslt, isOpenLocked, owner>>
    BY <1>3 DEF Switch, Cooperative, callVars, atcmdVars, histVars
  <2>2. \A u \in Tasks : pc[u] \in YieldPoints
    BY <2>1 DEF MutexInv, LockInv
  <2> QED BY <2>1, <2>2 DEF MutexInv, LockInv, Busy
<1>4. CASE Outside \/ UNCHANGED vars
  <2>1. UNCHANGED <<cpu, pc, op, rslt, isOpenLocked, owner>>
    BY <1>4 DEF Outside, Elapse, RequestCancel, TxDone, ModemStep, vars, callVars, atcmdVars, histVars
  <2> QED BY <2>1 DEF MutexInv, LockInv, Busy
<1> QED BY <1>1, <1>2, <1>3, <1>4 DEF Next, Caller, CallerStep

(* The initial states satisfy the lock invariant. *)
LEMMA MutexInit == Cooperative /\ Init => MutexInv
<1>1. Init => LockInv
  BY PlainFacts DEF Init, LockInv, YieldPoints, Busy
<1> QED BY <1>1, InitType DEF MutexInv, TypeInv, Init, HasRequest

(* Theorem 2.  With cooperative tasks and plain operations at most one     *)
(* command is open, for any number of tasks and requests.                  *)
THEOREM MutualExclusion ==
    ASSUME Cooperative PROVE Spec => []OneCommandOpen
<1>1. Init => MutexInv
  BY MutexInit
<1>2. MutexInv /\ [Next]_vars => MutexInv'
  BY MutexInductive
<1>3. MutexInv => OneCommandOpen
  BY BusyAlone DEF OneCommandOpen
<1> QED BY <1>1, <1>2, <1>3, PTL DEF Spec

(* Theorem 3.  Under the same conditions nobody releases a lock that       *)
(* another task took.                                                      *)
THEOREM OwnerReleases ==
    ASSUME Cooperative PROVE Spec => ReleasedByOwner
<1>1. Init => MutexInv
  BY MutexInit
<1>2. MutexInv /\ [Next]_vars => MutexInv'
  BY MutexInductive
<1>3. MutexInv /\ [Next]_vars => [isOpenLocked /\ ~isOpenLocked' => cpu = owner]_vars
  <2> SUFFICES ASSUME MutexInv, Next, isOpenLocked, ~isOpenLocked'
               PROVE  cpu = owner
    OBVIOUS
  <2>1. PICK t \in Tasks : CallerStep(t)
    BY DEF Next, Caller, CallerStep, Call, Switch, Outside, Elapse, RequestCancel, TxDone, ModemStep, atcmdVars
  <2>2. Await(t)
    BY <2>1, InvokeMutex, ResumeMutex DEF CallerStep
  <2>3. Busy(t) /\ cpu = t
    BY <2>1, <2>2, AwaitMutex, StepLocal DEF MutexInv, TypeInv, TypeOK
  <2> QED BY <2>3 DEF MutexInv, LockInv
<1> QED BY <1>1, <1>2, <1>3, PTL DEF Spec, ReleasedByOwner

-----------------------------------------------------------------------------
(* One caller.                                                             *)
OneCaller == \A t, u \in Tasks : t = u

(* The call of t has its result; a cancellation aside, nothing will change *)
(* the control block before atcmd_awaitResult() returns it.                *)
HasResult(t) == \/ pc[t] = "readYield" /\ rslt[t] # "unknown"
                \/ pc[t] = "return" /\ resultCode # "cancelled"

(* The lock is not automatic only inside a sequence that holds it; which   *)
(* steps a call takes depends on the kind of its operation.                *)
AutomaticLock(t) ==
    /\ isOpenLocked /\ ~autoLock =>
         /\ op[t] \in ManualOps
         /\ pc[t] \in {"reuse", "read", "dataWait", "readYield", "return", "pollDelay"}
    /\ op[t] \in AutoOps /\ pc[t] \in {"lock", "lockYield", "take"} => autoLock
    /\ pc[t] = "send" => op[t] \in AutoOps
    /\ pc[t] = "reuse" => op[t] \in ManualOps
    /\ pc[t] = "pollDelay" => op[t] = "ntwk_awaitProvider"

(* An automatic lock is gone with the result.                              *)
GoneWithResult(t) == op[t] \in AutoOps /\ HasResult(t) => ~isOpenLocked

(* file_getFSInfo() holds its lock as long as its commands succeed.        *)
SequenceLock(t) ==
    op[t] = "file_getFSInfo" =>
        /\ pc[t] = "reuse" => isOpenLocked
        /\ pc[t] \in {"read", "dataWait"} => isOpenLocked /\ ~autoLock
        /\ pc[t] = "readYield" => /\ ~autoLock
                                  /\ rslt[t] \in {"unknown", "success"} => isOpenLocked
                                  /\ rslt[t] # "unknown" => resultCode = rslt[t]
        /\ pc[t] = "return" => (resultCode = "success" => isOpenLocked)

CallerInv == \A t \in Tasks : AutomaticLock(t) /\ GoneWithResult(t) /\ SequenceLock(t)
LockInv1  == TypeInv /\ CallerInv

LEMMA OpFacts ==
    /\ AutoOps \cap ManualOps = {}
    /\ \A o \in AutoOps : o # "file_getFSInfo"
    /\ "file_getFSInfo" \in ManualOps /\ "ntwk_awaitProvider" \in ManualOps
    /\ UncheckedOps \subseteq AutoOps
    /\ AllOps = AutoOps \cup ManualOps
  BY DEF AutoOps, ManualOps, UncheckedOps, AllOps

(* What a pass of S__readResult() does to the lock and the result.         *)
LEMMA PassLock ==
    ASSUME TypeOK, NEW t \in Tasks,
           NEW c \in {"success", "cmError", "internalError", "timeout", "unknown"}, NEW f,
           Conclude(t, c, f)
    PROVE  /\ isOpenLocked' => isOpenLocked
           /\ c \notin {"unknown", "success"} => ~isOpenLocked'
           /\ c = "success" /\ autoLock => ~isOpenLocked'
           /\ c \in {"unknown", "success"} /\ ~autoLock => isOpenLocked' = isOpenLocked
           /\ \/ pc'[t] = "return" /\ resultCode' = "cancelled"
              \/ /\ pc'[t] = "readYield" /\ rslt'[t] = c
                 /\ c # "unknown" => resultCode' = c
<1>1. /\ isOpenLocked' => isOpenLocked
      /\ c \notin {"unknown", "success"} => ~isOpenLocked'
      /\ c = "success" /\ autoLock => ~isOpenLocked'
      /\ c \in {"unknown", "success"} /\ ~autoLock => isOpenLocked' = isOpenLocked
  BY DEF Conclude, Unlocks, TypeOK, AtcmdTypeOK
<1>2. \/ pc'[t] = "return" /\ resultCode' = "cancelled"
      \/ /\ pc'[t] = "readYield" /\ rslt'[t] = c
         /\ c # "unknown" => resultCode' = c
  BY DEF Conclude, Goto, Recorded, TypeOK, CallTypeOK
<1> QED BY <1>1, <1>2

(* It concludes with one of the codes, whatever the data.                  *)
LEMMA PassConcludes ==
    ASSUME NEW t \in Tasks, Await(t), ~EnterDataMode(t), ~ResumeAwait(t)
    PROVE  /\ pc[t] \in {"read", "dataWait"}
           /\ UNCHANGED <<autoLock, op>>
           /\ \E c \in {"success", "cmError", "internalError", "timeout", "unknown"} : \E f : Conclude(t, c, f)
<1>1. \A lines, b : Settle(t, lines, b) =>
          \E c \in {"success", "cmError", "internalError", "timeout", "unknown"} : \E f : Conclude(t, c, f)
  BY DEF Settle
<1>2. CASE ReadResult(t)
  BY <1>1, <1>2 DEF ReadResult
<1>3. CASE DataSent(t)
  BY <1>1, <1>3 DEF DataSent
<1>4. CASE DataTimeout(t)
  BY <1>1, <1>4 DEF DataTimeout
<1> QED BY <1>2, <1>3, <1>4 DEF Await

LEMMA CallerAwait ==
    ASSUME OneCaller, LockInv1, NEW t \in Tasks, Await(t) PROVE CallerInv'
<1>1. TypeOK /\ \A u \in Tasks : u = t
  BY DEF OneCaller, LockInv1, TypeInv
<1>2. AutomaticLock(t) /\ GoneWithResult(t) /\ SequenceLock(t) /\ op[t] \in AllOps
  BY <1>1 DEF LockInv1, CallerInv, TypeOK, CallTypeOK
<1>3. SUFFICES AutomaticLock(t)' /\ GoneWithResult(t)' /\ SequenceLock(t)'
  BY <1>1 DEF CallerInv
<1>4. CASE EnterDataMode(t)
  <2>1. pc[t] = "read" /\ pc'[t] = "dataWait" /\ UNCHANGED <<isOpenLocked, autoLock, op>>
    BY <1>1, <1>4 DEF EnterDataMode, Goto, TypeOK, CallTypeOK
  <2> QED BY <1>2, <2>1 DEF AutomaticLock, GoneWithResult, SequenceLock, HasResult
<1>5. CASE ResumeAwait(t)
  <2>1. /\ pc[t] = "readYield" /\ UNCHANGED <<isOpenLocked, autoLock, resultCode, op, rslt>>
        /\ pc'[t] = IF rslt[t] = "unknown" THEN "read" ELSE "return"
    BY <1>1, <1>5 DEF ResumeAwait, Goto, TypeOK, CallTypeOK, atcmdVars
  <2> QED BY <1>2, <2>1 DEF AutomaticLock, GoneWithResult, SequenceLock, HasResult
<1>6. CASE ~EnterDataMode(t) /\ ~ResumeAwait(t)
  <2>1. pc[t] \in {"read", "dataWait"} /\ UNCHANGED <<autoLock, op>>
    BY <1>6, PassConcludes
  <2>2. PICK c \in {"success", "cmError", "internalError", "timeout", "unknown"} : \E f : Conclude(t, c, f)
    BY <1>6, PassConcludes
  <2>3. /\ isOpenLocked' => isOpenLocked
        /\ c \notin {"unknown", "success"} => ~isOpenLocked'
        /\ c = "success" /\ autoLock => ~isOpenLocked'
        /\ c \in {"unknown", "success"} /\ ~autoLock => isOpenLocked' = isOpenLocked
        /\ \/ pc'[t] = "return" /\ resultCode' = "cancelled"
           \/ /\ pc'[t] = "readYield" /\ rslt'[t] = c
              /\ c # "unknown" => resultCode' = c
    BY <1>1, <2>2, PassLock
  <2>4. AutomaticLock(t)'
    BY <1>2, <2>1, <2>3 DEF AutomaticLock
  <2>5. GoneWithResult(t)'
    BY <1>2, <2>1, <2>3, OpFacts DEF GoneWithResult, AutomaticLock, HasResult
  <2>6. SequenceLock(t)'
    BY <1>2, <2>1, <2>3 DEF SequenceLock
  <2> QED BY <2>4, <2>5, <2>6
<1> QED BY <1>4, <1>5, <1>6

(* A call that could not have the lock holds no more than it did. *)
LEMMA RefusedLock ==
    ASSUME TypeOK, NEW t \in Tasks, NotInvoked(t)
    PROVE  /\ isOpenLocked' => isOpenLocked
           /\ pc'[t] = "idle" \/ (pc'[t] = "read" /\ op[t] \in AutoOps)
<1>1. pc \in [Tasks -> PCs] /\ isOpenLocked \in BOOLEAN
  BY DEF TypeOK, CallTypeOK, AtcmdTypeOK
<1>2. CASE op[t] \in UncheckedOps
  BY <1>1, <1>2, OpFacts DEF NotInvoked, Goto
<1>3. CASE op[t] \notin UncheckedOps
  BY <1>1, <1>3 DEF NotInvoked, Finish, Goto
<1> QED BY <1>2, <1>3

LEMMA CallerInvoke ==
    ASSUME OneCaller, LockInv1, NEW t \in Tasks, Invoke(t) PROVE CallerInv'
<1>1. TypeOK /\ \A u \in Tasks : u = t
  BY DEF OneCaller, LockInv1, TypeInv
<1>2. /\ AutomaticLock(t) /\ GoneWithResult(t) /\ SequenceLock(t)
      /\ op[t] \in AllOps /\ pc \in [Tasks -> PCs] /\ isOpenLocked \in BOOLEAN
  BY <1>1 DEF LockInv1, CallerInv, TypeOK, CallTypeOK, AtcmdTypeOK
<1>3. SUFFICES AutomaticLock(t)' /\ GoneWithResult(t)' /\ SequenceLock(t)'
  BY <1>1 DEF CallerInv
<1>4. CASE TryInvokeLocked(t) \/ LockTimeout(t)
  <2>1. pc[t] \in {"try", "lockYield"} /\ UNCHANGED <<autoLock, op>> /\ NotInvoked(t)
    BY <1>4 DEF TryInvokeLocked, LockTimeout
  <2>2. /\ isOpenLocked' => isOpenLocked
        /\ pc'[t] = "idle" \/ (pc'[t] = "read" /\ op[t] \in AutoOps)
    BY <1>1, <2>1, RefusedLock
  <2>3. AutomaticLock(t)'
    BY <1>2, <2>1, <2>2 DEF AutomaticLock
  <2>4. GoneWithResult(t)'
    BY <2>2 DEF GoneWithResult, HasResult
  <2>5. SequenceLock(t)'
    BY <2>1, <2>2, OpFacts DEF SequenceLock
  <2> QED BY <2>3, <2>4, <2>5
<1>5. CASE TryInvoke(t)
  <2>1. ~isOpenLocked' /\ autoLock' /\ pc'[t] = "lock"
    BY <1>2, <1>5 DEF TryInvoke, Reset, Goto
  <2> QED BY <2>1 DEF AutomaticLock, GoneWithResult, SequenceLock, HasResult
<1>6. CASE TestLock(t) \/ RetryLock(t)
  <2>1. pc[t] \in {"lock", "lockYield"} /\ pc'[t] \in {"lock", "lockYield", "take"}
        /\ UNCHANGED <<isOpenLocked, autoLock, op>>
    BY <1>2, <1>6 DEF TestLock, RetryLock, Goto, atcmdVars
  <2> QED BY <1>2, <2>1 DEF AutomaticLock, GoneWithResult, SequenceLock, HasResult
<1>7. CASE TakeLock(t)
  <2>1. pc[t] = "take" /\ isOpenLocked' /\ UNCHANGED <<autoLock, op>>
        /\ \/ op[t] \in ManualOps /\ pc'[t] = "reuse"
           \/ op[t] \in AutoOps /\ pc'[t] = "send"
    BY <1>2, <1>7, OpFacts DEF TakeLock, Goto
  <2>2. AutomaticLock(t)'
    BY <1>2, <2>1, OpFacts DEF AutomaticLock
  <2> QED BY <2>1, <2>2 DEF GoneWithResult, SequenceLock, HasResult
<1>8. CASE Send(t)
  <2>1. pc[t] = "send" /\ pc'[t] = "read" /\ UNCHANGED <<isOpenLocked, autoLock, op>>
    BY <1>2, <1>8 DEF Send, Goto
  <2>2. (isOpenLocked => autoLock) /\ op[t] \in AutoOps
    BY <1>2, <2>1 DEF AutomaticLock
  <2>3. AutomaticLock(t)'
    BY <2>1, <2>2 DEF AutomaticLock
  <2>4. SequenceLock(t)'
    BY <2>1, <2>2, OpFacts DEF SequenceLock
  <2> QED BY <2>1, <2>3, <2>4 DEF GoneWithResult, HasResult
<1>9. CASE InvokeReuseLock(t)
  <2>1. pc[t] = "reuse" /\ pc'[t] = "read" /\ isOpenLocked' /\ ~autoLock' /\ op' = op
    BY <1>2, <1>9 DEF InvokeReuseLock, Reset, Goto
  <2>2. op[t] \in ManualOps
    BY <1>2, <2>1 DEF AutomaticLock
  <2> QED BY <2>1, <2>2 DEF AutomaticLock, GoneWithResult, SequenceLock, HasResult
<1>10. CASE ReuseLockAssert(t)
  <2>1. pc'[t] = "halt" /\ ~isOpenLocked'
    BY <1>2, <1>10 DEF ReuseLockAssert, Goto, atcmdVars
  <2> QED BY <2>1 DEF AutomaticLock, GoneWithResult, SequenceLock, HasResult
<1> QED
  BY <1>4, <1>5, <1>6, <1>7, <1>8, <1>9, <1>10 DEF Invoke

(* After the await each operation goes on as it does, and one that is over *)
(* leaves the lock free, unless a cancellation ended it.                   *)
LEMMA CallerResume ==
    ASSUME OneCaller, LockInv1, NEW t \in Tasks, Resume(t)
    PROVE  /\ CallerInv'
           /\ pc[t] = "return" /\ pc'[t] = "idle" /\ resultCode # "cancelled" => ~isOpenLocked'
<1>1. TypeOK /\ \A u \in Tasks : u = t
  BY DEF OneCaller, LockInv1, TypeInv
<1>2. /\ AutomaticLock(t) /\ GoneWithResult(t) /\ SequenceLock(t)
      /\ op[t] \in AllOps /\ pc \in [Tasks -> PCs] /\ isOpenLocked \in BOOLEAN
  BY <1>1 DEF LockInv1, CallerInv, TypeOK, CallTypeOK, AtcmdTypeOK
<1>3. SUFFICES /\ AutomaticLock(t)' /\ GoneWithResult(t)' /\ SequenceLock(t)'
               /\ pc[t] = "return" /\ pc'[t] = "idle" /\ resultCode # "cancelled" => ~isOpenLocked'
  BY <1>1 DEF CallerInv
<1>4. CASE ReturnAuto(t)
  <2>1. /\ pc[t] = "return" /\ op[t] \in AutoOps /\ UNCHANGED <<autoLock, op>>
        /\ isOpenLocked' => isOpenLocked
    BY <1>2, <1>4 DEF ReturnAuto, AwaitReturns
  <2>2. pc'[t] = "idle"
    BY <1>2, <1>4 DEF ReturnAuto, Finish, Goto
  <2>3. isOpenLocked => autoLock
    BY <1>2, <2>1, OpFacts DEF AutomaticLock
  <2>4. resultCode # "cancelled" => ~isOpenLocked
    BY <1>2, <2>1 DEF GoneWithResult, HasResult
  <2>5. AutomaticLock(t)'
    BY <2>1, <2>2, <2>3 DEF AutomaticLock
  <2> QED BY <2>1, <2>2, <2>4, <2>5 DEF GoneWithResult, SequenceLock, HasResult
<1>5. CASE ReturnSequence(t)
  <2>1. /\ pc[t] = "return" /\ op[t] = "file_getFSInfo" /\ UNCHANGED <<autoLock, op>>
        /\ \/ resultCode = "success" /\ pc'[t] = "reuse" /\ isOpenLocked' = isOpenLocked
           \/ pc'[t] = "idle" /\ ~isOpenLocked'
    BY <1>2, <1>5 DEF ReturnSequence, AwaitReturns, Finish, Goto
  <2>2. resultCode = "success" => isOpenLocked
    BY <1>2, <2>1 DEF SequenceLock
  <2>3. AutomaticLock(t)'
    BY <2>1, OpFacts DEF AutomaticLock
  <2> QED BY <2>1, <2>2, <2>3 DEF GoneWithResult, SequenceLock, HasResult
<1>6. CASE ReturnProvider(t) \/ PollProvider(t)
  <2>1. /\ pc[t] \in {"return", "pollDelay"} /\ UNCHANGED <<autoLock, op>>
        /\ \/ pc'[t] \in {"pollDelay", "reuse"}
           \/ pc'[t] = "idle" /\ ~isOpenLocked'
    BY <1>2, <1>6 DEF ReturnProvider, PollProvider, AwaitReturns, Finish, Goto
  <2>2. pc'[t] = "idle" \/ isOpenLocked' = isOpenLocked
    BY <1>2, <1>6 DEF ReturnProvider, PollProvider, Finish, Goto
  <2>3. op[t] = "ntwk_awaitProvider"
    BY <1>2, <1>6 DEF ReturnProvider, PollProvider, AutomaticLock
  <2>4. AutomaticLock(t)'
    BY <2>1, <2>3, OpFacts DEF AutomaticLock
  <2>5. SequenceLock(t)'
    BY <2>1, <2>3 DEF SequenceLock
  <2> QED BY <2>1, <2>4, <2>5 DEF GoneWithResult, HasResult
<1> QED BY <1>4, <1>5, <1>6 DEF Resume

LEMMA CallerInductive == OneCaller /\ LockInv1 /\ [Next]_vars => LockInv1'
<1> SUFFICES ASSUME OneCaller, LockInv1, [Next]_vars PROVE CallerInv'
  BY TypeInductive DEF LockInv1
<1>1. ASSUME NEW t \in Tasks, NEW o \in Ops, Call(t, o) PROVE CallerInv'
  <2>1. TypeOK /\ \A u \in Tasks : u = t
    BY DEF OneCaller, LockInv1, TypeInv
  <2>2. AutomaticLock(t) /\ pc \in [Tasks -> PCs] /\ op \in [Tasks -> AllOps]
    BY <2>1 DEF LockInv1, CallerInv, TypeOK, CallTypeOK
  <2>3. pc[t] = "idle" /\ UNCHANGED <<isOpenLocked, autoLock>> /\ op'[t] = o
        /\ \/ o \in ManualOps /\ pc'[t] = "lock"
           \/ o \notin ManualOps /\ pc'[t] = "try"
    BY <1>1, <2>2 DEF Call, Goto
  <2>4. AutomaticLock(t)'
    BY <2>2, <2>3, OpFacts DEF AutomaticLock
  <2>5. GoneWithResult(t)' /\ SequenceLock(t)'
    BY <2>3 DEF GoneWithResult, SequenceLock, HasResult
  <2> QED BY <2>1, <2>4, <2>5 DEF CallerInv
<1>2. ASSUME NEW t \in Tasks, CallerStep(t) PROVE CallerInv'
  BY <1>2, CallerInvoke, CallerAwait, CallerResume DEF CallerStep
<1>3. CASE (\E t \in Tasks : Switch(t)) \/ Outside \/ UNCHANGED vars
  <2>1. UNCHANGED <<pc, op, rslt, isOpenLocked, autoLock, resultCode>>
    BY <1>3 DEF Switch, Outside, Elapse, RequestCancel, TxDone, ModemStep, vars, callVars, atcmdVars
  <2> QED BY <2>1 DEF LockInv1, CallerInv, AutomaticLock, GoneWithResult, SequenceLock, HasResult
<1> QED BY <1>1, <1>2, <1>3 DEF Next, Caller, CallerStep

LEMMA CallerInit == Init => LockInv1
<1>1. Init => CallerInv
  BY OpFacts DEF Init, CallerInv, AutomaticLock, GoneWithResult, SequenceLock, HasResult
<1> QED BY <1>1, InitType DEF LockInv1, TypeInv, Init, HasRequest

(* Theorem 4.  With one caller, a call that waited for a result leaves the *)
(* command interface free, whichever operation it was and whatever the     *)
(* module answered; only a cancellation leaves it taken.                   *)
THEOREM LockFree ==
    ASSUME OneCaller PROVE Spec => LockFreeOnReturn
<1>1. Init => LockInv1
  BY CallerInit
<1>2. LockInv1 /\ [Next]_vars => LockInv1'
  BY CallerInductive
<1>3. LockInv1 /\ [Next]_vars =>
        [\A t \in Tasks :
            pc[t] = "return" /\ pc'[t] = "idle" /\ resultCode # "cancelled" => ~isOpenLocked']_vars
  <2> SUFFICES ASSUME LockInv1, Next, NEW t \in Tasks,
                      pc[t] = "return", pc'[t] = "idle", resultCode # "cancelled"
               PROVE  ~isOpenLocked'
    OBVIOUS
  <2>1. TypeOK /\ \A u \in Tasks : u = t
    BY DEF OneCaller, LockInv1, TypeInv
  <2>2. Resume(t)
    <3>1. pc' # pc
      OBVIOUS
    <3>2. ~Outside /\ \A u \in Tasks : ~Switch(u)
      BY <3>1 DEF Outside, Elapse, RequestCancel, TxDone, ModemStep, Switch, callVars
    <3>3. \A o \in Ops : ~Call(t, o)
      BY DEF Call
    <3>4. ~Invoke(t)
      BY DEF Invoke, TryInvokeLocked, TryInvoke, TestLock, TakeLock, RetryLock, LockTimeout, Send,
             InvokeReuseLock, ReuseLockAssert
    <3>5. ~Await(t)
      BY DEF Await, ReadResult, EnterDataMode, DataSent, DataTimeout, ResumeAwait
    <3> QED BY <2>1, <3>2, <3>3, <3>4, <3>5 DEF Next, Caller
  <2> QED BY <2>2, CallerResume
<1> QED BY <1>1, <1>2, <1>3, PTL DEF Spec, LockFreeOnReturn

(* Theorem 5.  With one caller, a sequence that stops at the first command *)
(* that fails never meets the assertion of atcmd_invokeReuseLock().        *)
THEOREM SequenceKeepsLock ==
    ASSUME OneCaller PROVE Spec => []CheckedSequenceHoldsLock
<1>1. Init => LockInv1
  BY CallerInit
<1>2. LockInv1 /\ [Next]_vars => LockInv1'
  BY CallerInductive
<1>3. LockInv1 => CheckedSequenceHoldsLock
  BY DEF LockInv1, CallerInv, AutomaticLock, SequenceLock, CheckedSequenceHoldsLock, ManualOps
<1> QED BY <1>1, <1>2, <1>3, PTL DEF Spec

-----------------------------------------------------------------------------
(* Whose answers, whose data.  With one caller its request is always the   *)
(* last one made, number cmds; every other one is over.  The pipe is what  *)
(* the module has still to work through: the texts it has, then the one    *)
(* the UART is sending.                                                    *)
Joined(m, x) == m \o (IF x = NoTx THEN <<>> ELSE <<x>>)
Pipe == Joined(modem, tx)
Rx   == LinesOf(rxBffr)
Seen == Rx \cup rawResponse
Own  == abandoned \cup {cmds}

Payloads == {"payload", "cutPayload"}
Cuts     == {"cut", "cutPayload"}
Inputs   == {"sendInput", "publishInput"}
Unsent   == {"try", "lock", "lockYield", "take", "send", "reuse"}
Reading  == {"read", "dataWait", "readYield", "return"}

(* The texts and the lines of the command of operation o; the line that is *)
(* its last, and the one that says its data was taken.                     *)
TextKinds(o) == CASE o = "sckt_open"    -> {"open", "opening"}
                  [] o = "sckt_send"    -> {"send", "sendInput"}
                  [] o = "mqtt_publish" -> {"publish", "publishInput", "publishing"}
                  [] OTHER              -> {"plain"}
LineKinds(o) == CASE o = "sckt_open"    -> {"OK", "QIOPEN", "ERROR"}
                  [] o = "sckt_send"    -> {"PROMPT", "SEND_OK", "ERROR"}
                  [] o = "mqtt_publish" -> {"PROMPT", "OK", "QMTPUB", "ERROR"}
                  [] OTHER              -> {"OK", "ERROR"}
Final(x, o) == x.cmd = cmds /\ x.kind \in {"ERROR", Parser(o)}
Given(x, o) == x.cmd = cmds /\ x.kind \in {"SEND_OK", "QMTPUB", "OK"} /\ o \in DataOps

(* The pipe: its texts are of this request or of one given up, only data   *)
(* of a request that is over may be left, and it is next.                  *)
OwnPipe == \A i \in 1..Len(Pipe) : Pipe[i].cmd \in Own \/ (i = 1 /\ Pipe[i].kind \in Payloads)
PipeKinds(t) ==
    \A i \in 1..Len(Pipe) : Pipe[i].cmd = cmds =>
        Pipe[i].kind \in TextKinds(op[t]) \/ (Pipe[i].kind = "payload" /\ op[t] \in DataOps)

(* The request's text is the last one, or the last before one payload: its *)
(* own, if it has one.                                                     *)
AtEnd(t) ==
    \A i \in 1..Len(Pipe) : Pipe[i].cmd = cmds =>
        \/ i = Len(Pipe)
        \/ /\ Pipe[i].kind # "payload" /\ i = Len(Pipe) - 1 /\ Pipe[Len(Pipe)].kind = "payload"
           /\ op[t] \in DataOps => Pipe[Len(Pipe)].cmd = cmds
PipeInv(t) == OwnPipe /\ PipeKinds(t) /\ AtEnd(t)

(* Nothing will prompt for data while the settings of a request that is    *)
(* over are there; while any are, this request's data is still to be sent; *)
(* and before it is sent nothing of a request is in the pipe.              *)
PipeOf(t) ==
    /\ \A i \in 1..Len(Pipe) : Pipe[i].cmd <= cmds
    /\ PipeInv(t)
    /\ dataMode.cmd \notin Own \cup {0} => \A i \in 1..Len(Pipe) : Pipe[i].kind \notin {"send", "publish"}
    /\ dataMode.cmd # 0 /\ pc[t] # "dataWait" =>
         \A i \in 1..Len(Pipe) : Pipe[i].cmd = cmds => i = Len(Pipe) /\ Pipe[i].kind \notin {"payload", "publishing"}
    /\ pc[t] \in Unsent => \A i \in 1..Len(Pipe) : Pipe[i].cmd # cmds

(* The lines received: after its last line, or its result, the module has  *)
(* nothing more to say of the request.                                     *)
OwnRx        == \A x \in Rx : x.cmd \in Own
SeenKinds(t) == \A x \in Seen : x.cmd = cmds => x.kind \in LineKinds(op[t])
Exhausted    == Len(Pipe) <= 1 /\ \A i \in 1..Len(Pipe) : Pipe[i].kind \in Payloads
LastLine(t) ==
    /\ \A x \in Seen : Final(x, op[t]) => Exhausted /\ (dataMode.cmd # 0 /\ pc[t] # "dataWait" => Len(Pipe) = 0)
    /\ \A i \in 1..Len(rxBffr) : Final(rxBffr[i], op[t]) => i = Len(rxBffr)
HasAnswer == from = cmds /\ cmds # 0 => rxBffr = <<>> /\ Exhausted /\ (dataMode.cmd # 0 => Len(Pipe) = 0)

(* The next line after a prompt is the one that acknowledges the data.     *)
Prompts ==
    \A i \in 1..Len(rxBffr) : rxBffr[i].kind = "PROMPT" =>
        \/ i < Len(rxBffr) /\ rxBffr[i + 1].kind \in {"OK", "SEND_OK"} /\ rxBffr[i + 1].cmd = rxBffr[i].cmd
        \/ i = Len(rxBffr) /\ modem # <<>> /\ modem[1].kind \in Inputs /\ modem[1].cmd = rxBffr[i].cmd
RxInv(t) == OwnRx /\ SeenKinds(t) /\ LastLine(t) /\ Prompts

RxOf(t) ==
    /\ \A x \in Seen : x.cmd <= cmds
    /\ RxInv(t) /\ HasAnswer
    /\ dataMode.cmd \notin Own \cup {0} => \A x \in Rx : x.kind # "PROMPT"
    /\ dataMode.cmd # 0 /\ pc[t] # "dataWait" => \A x \in Seen : ~Given(x, op[t])
    /\ pc[t] \in Unsent => \A x \in Seen : x.cmd # cmds
    /\ pc[t] = "dataWait" => rxBffr # <<>> /\ rxBffr[1].kind = "PROMPT"

(* The call and the control block: the text a parser may look at is this   *)
(* request's or that of one given up, the settings of the data mode are    *)
(* this request's until its data was sent, and a result has its answer.    *)
OwnText(t) ==
    /\ pc[t] \in Reading => \A x \in rawResponse : x.cmd \in Own
    /\ pc[t] \in {"idle", "try", "lock", "lockYield"} /\ isOpenLocked => \A x \in rawResponse : x.cmd \in abandoned
    /\ pc[t] \in {"lock", "lockYield", "take", "send"} /\ op[t] \in AutoOps => rawResponse = {}
OwnParser(t) == pc[t] \in Reading => respParser = Parser(op[t])
Modes(t) ==
    /\ dataMode.cmd = cmds /\ cmds # 0 => op[t] \in DataOps /\ dataMode.skip = (op[t] \in SkipOps)
    /\ op[t] \in DataOps => dataMode.cmd \in {0, cmds}
    /\ pc[t] = "dataWait" => dataMode.cmd # 0
    /\ dataMode.cmd # 0 /\ pc[t] # "dataWait" /\ from = cmds /\ op[t] \in DataOps => resultCode # "success"
Outcome(t) ==
    /\ pc[t] \in {"readYield", "return"} /\ resultCode \in {"success", "cmError"} => from \in Own /\ from # 0
    /\ pc[t] \in {"idle", "pollDelay"} => cmds \in abandoned \cup {0} \/ from = cmds
    /\ pc[t] = "idle" => last[t].cmd = cmds
    /\ cmds = 0 => pc[t] = "idle"
Reported(t) ==
    /\ last[t].code \in {"success", "cmError"} => last[t].from = last[t].cmd \/ last[t].from \in abandoned
    /\ pc[t] = "idle" /\ last[t].code = "success" /\ last[t].from = last[t].cmd => dataMode.cmd # last[t].cmd
CallOf(t) ==
    /\ cmd[t] = cmds /\ from <= cmds /\ dataMode.cmd <= cmds
    /\ \A a \in abandoned : a <= cmds
    /\ Modes(t) /\ OwnText(t) /\ OwnParser(t) /\ Outcome(t) /\ Reported(t)
    /\ pc[t] \in Unsent => from # cmds

Traffic(t) == PipeOf(t) /\ RxOf(t) /\ CallOf(t)
TrafficInv == LockInv1 /\ \A t \in Tasks : Traffic(t)

(* A step that leaves the call and the control block alone.                *)
SameCall == UNCHANGED <<cmds, cmd, op, abandoned, dataMode, pc, from, resultCode, respParser, rawResponse,
                        isOpenLocked, last>>

-----------------------------------------------------------------------------

(* The pipe, from its two parts. *)
LEMMA JoinedFacts ==
    ASSUME NEW m \in Seq(Sends), NEW x \in Sends \cup {NoTx}
    PROVE  /\ Joined(m, x) \in Seq(Sends)
           /\ Len(Joined(m, x)) = Len(m) + (IF x = NoTx THEN 0 ELSE 1)
           /\ \A i \in 1..Len(m) : Joined(m, x)[i] = m[i]
           /\ x # NoTx => Joined(m, x)[Len(m) + 1] = x
<1> DEFINE s == IF x = NoTx THEN <<>> ELSE <<x>>
<1>1. s \in Seq(Sends) /\ Len(s) = (IF x = NoTx THEN 0 ELSE 1) /\ (x # NoTx => s[1] = x)
  OBVIOUS
<1>2. Joined(m, x) = m \o s
  BY DEF Joined
<1> HIDE DEF s
<1>3. /\ m \o s \in Seq(Sends) /\ Len(m \o s) = Len(m) + Len(s)
      /\ \A i \in 1..(Len(m) + Len(s)) : (m \o s)[i] = IF i <= Len(m) THEN m[i] ELSE s[i - Len(m)]
  BY <1>1, ConcatProperties
<1>4. Len(m) \in Nat
  OBVIOUS
<1>5. \A i \in 1..Len(m) : (m \o s)[i] = m[i]
  BY <1>1, <1>3, <1>4
<1>6. x # NoTx => (m \o s)[Len(m) + 1] = x
  <2> SUFFICES ASSUME x # NoTx PROVE (m \o s)[Len(m) + 1] = x
    OBVIOUS
  <2>1. Len(m) + 1 \in 1..(Len(m) + Len(s)) /\ ~(Len(m) + 1 <= Len(m)) /\ (Len(m) + 1) - Len(m) = 1
    BY <1>1, <1>4
  <2> QED BY <1>1, <1>3, <2>1
<1> QED BY <1>1, <1>2, <1>3, <1>5, <1>6

(* A text that is cut short is still a text, and no text is none. *)
LEMMA SendsFacts == NoTx \notin Sends /\ \A x \in Sends : CutShort(x) \in Sends /\ CutShort(x) # NoTx
<1>1. NoTx \notin Sends
  BY DEF NoTx, Sends, Orders, Stages
<1>2. \A x \in Sends : CutShort(x) \in Sends
  BY DEF CutShort, Sends
<1> QED BY <1>1, <1>2

(* The whole text has been sent: the pipe is the same. *)
LEMMA JoinedSent ==
    ASSUME NEW m \in Seq(Sends), NEW x \in Sends
    PROVE  Joined(Append(m, x), NoTx) = Joined(m, x)
<1>1. Append(m, x) = m \o <<x>> /\ Append(m, x) \in Seq(Sends)
  BY AppendIsConcat
<1> QED BY <1>1, SendsFacts, ConcatEmptySeq DEF Joined

(* The head goes, the second goes, or the head changes. *)
LEMMA JoinedTail ==
    ASSUME NEW m \in Seq(Sends), m # <<>>, NEW x \in Sends \cup {NoTx}
    PROVE  /\ Tail(m) \in Seq(Sends) /\ Len(Joined(m, x)) \in Nat \ {0} /\ Joined(m, x)[1] = Head(m) /\ Head(m) \in Sends
           /\ Len(Joined(Tail(m), x)) = Len(Joined(m, x)) - 1
           /\ \A i \in 1..(Len(Joined(m, x)) - 1) : Joined(Tail(m), x)[i] = Joined(m, x)[i + 1]
<1>1. /\ Tail(m) \in Seq(Sends) /\ Len(m) \in Nat /\ Len(m) > 0 /\ Len(Tail(m)) = Len(m) - 1 /\ Head(m) = m[1] /\ Head(m) \in Sends
      /\ \A i \in 1..Len(Tail(m)) : Tail(m)[i] = m[i + 1]
  BY HeadTailProperties
<1> DEFINE J == Joined(m, x)
           K == Joined(Tail(m), x)
<1>2. /\ Len(J) = Len(m) + (IF x = NoTx THEN 0 ELSE 1)
      /\ \A i \in 1..Len(m) : J[i] = m[i]
      /\ x # NoTx => J[Len(m) + 1] = x
  BY JoinedFacts
<1>3. /\ Len(K) = Len(Tail(m)) + (IF x = NoTx THEN 0 ELSE 1)
      /\ \A i \in 1..Len(Tail(m)) : K[i] = Tail(m)[i]
      /\ x # NoTx => K[Len(Tail(m)) + 1] = x
  BY <1>1, JoinedFacts
<1> HIDE DEF J, K
<1>4. Len(K) = Len(J) - 1 /\ Len(J) \in Nat \ {0}
  BY <1>1, <1>2, <1>3
<1>5. ASSUME NEW i \in 1..(Len(J) - 1) PROVE K[i] = J[i + 1]
  <2>1. CASE i < Len(m)
    <3>1. i \in 1..Len(Tail(m)) /\ i + 1 \in 1..Len(m)
      BY <1>1, <1>4, <2>1
    <3> QED BY <1>1, <1>2, <1>3, <3>1
  <2>2. CASE ~(i < Len(m))
    <3>1. x # NoTx
      BY <1>1, <1>2, <2>2
    <3>2. Len(J) = Len(m) + 1
      BY <1>2, <3>1
    <3>3. Len(m) \in Nat /\ Len(Tail(m)) = Len(m) - 1
      BY <1>1
    <3>4. i \in Nat /\ i <= Len(m)
      BY <1>4, <3>2, <3>3
    <3>5. i = Len(m)
      <4>1. \A a, b \in Nat : a <= b /\ ~(a < b) => a = b
        OBVIOUS
      <4> HIDE <2>2
      <4> QED BY <2>2, <3>3, <3>4, <4>1
    <3>6. Len(Tail(m)) + 1 = i
      BY <3>3, <3>5
    <3> QED BY <1>2, <1>3, <3>1, <3>5, <3>6
  <2> QED BY <2>1, <2>2
<1>6. J[1] = Head(m)
  BY <1>1, <1>2
<1> QED BY <1>1, <1>4, <1>5, <1>6 DEF J, K

(* A text comes before all others. *)
LEMMA JoinedLead ==
    ASSUME NEW m \in Seq(Sends), NEW h \in Sends, NEW x \in Sends \cup {NoTx}
    PROVE  /\ <<h>> \o m \in Seq(Sends) /\ <<h>> \o m # <<>> /\ (<<h>> \o m)[1] = h
           /\ Len(Joined(<<h>> \o m, x)) = Len(Joined(m, x)) + 1
           /\ Joined(<<h>> \o m, x)[1] = h
           /\ \A i \in 2..(Len(Joined(m, x)) + 1) : Joined(<<h>> \o m, x)[i] = Joined(m, x)[i - 1]
<1>1. <<h>> \in Seq(Sends) /\ Len(<<h>>) = 1 /\ <<h>>[1] = h /\ Len(m) \in Nat
  OBVIOUS
<1>2. /\ <<h>> \o m \in Seq(Sends) /\ Len(<<h>> \o m) = 1 + Len(m)
      /\ \A i \in 1..(1 + Len(m)) : (<<h>> \o m)[i] = IF i <= 1 THEN <<h>>[i] ELSE m[i - 1]
  BY <1>1, ConcatProperties
<1> DEFINE n == <<h>> \o m
<1>3. /\ n \in Seq(Sends) /\ Len(n) = Len(m) + 1 /\ n # <<>> /\ n[1] = h
      /\ \A i \in 1..Len(m) : n[i + 1] = m[i]
  <2>1. n # <<>> /\ n[1] = h
    BY <1>1, <1>2
  <2>2. ASSUME NEW i \in 1..Len(m) PROVE n[i + 1] = m[i]
    <3>1. i + 1 \in 1..(1 + Len(m)) /\ ~(i + 1 <= 1) /\ (i + 1) - 1 = i
      BY <1>1
    <3> QED BY <1>2, <3>1
  <2> QED BY <1>1, <1>2, <2>1, <2>2
<1> HIDE DEF n
<1>4. Tail(n) = m
  <2>1. /\ Tail(n) \in Seq(Sends) /\ Len(Tail(n)) = Len(n) - 1
        /\ \A i \in 1..Len(Tail(n)) : Tail(n)[i] = n[i + 1]
    BY <1>3, HeadTailProperties
  <2>2. Len(Tail(n)) = Len(m) /\ \A i \in 1..Len(m) : Tail(n)[i] = m[i]
    BY <1>1, <1>3, <2>1
  <2> QED BY <2>1, <2>2, SeqEqual
<1>5. Head(n) = h
  BY <1>3, HeadTailProperties
<1>6. /\ Len(Joined(n, x)) \in Nat \ {0} /\ Joined(n, x)[1] = h
      /\ Len(Joined(m, x)) = Len(Joined(n, x)) - 1
      /\ \A i \in 1..(Len(Joined(n, x)) - 1) : Joined(m, x)[i] = Joined(n, x)[i + 1]
  BY <1>3, <1>4, <1>5, JoinedTail
<1>7. ASSUME NEW i \in 2..(Len(Joined(m, x)) + 1) PROVE Joined(n, x)[i] = Joined(m, x)[i - 1]
  <2>1. i - 1 \in 1..(Len(Joined(n, x)) - 1) /\ (i - 1) + 1 = i
    BY <1>6
  <2> QED BY <1>6, <2>1
<1> QED BY <1>3, <1>6, <1>7 DEF n

(* A text is handed to the UART, or cut short there. *)
LEMMA JoinedGrown ==
    ASSUME NEW m \in Seq(Sends), NEW x \in Sends
    PROVE  /\ Len(Joined(m, x)) = Len(Joined(m, NoTx)) + 1
           /\ Joined(m, x)[Len(Joined(m, NoTx)) + 1] = x
           /\ \A i \in 1..Len(Joined(m, NoTx)) : Joined(m, x)[i] = Joined(m, NoTx)[i]
<1>1. /\ Len(Joined(m, x)) = Len(m) + 1 /\ Joined(m, x)[Len(m) + 1] = x
      /\ \A i \in 1..Len(m) : Joined(m, x)[i] = m[i]
  BY SendsFacts, JoinedFacts
<1>2. Len(Joined(m, NoTx)) = Len(m) /\ \A i \in 1..Len(m) : Joined(m, NoTx)[i] = m[i]
  <2>1. Len(m) \in Nat /\ NoTx \in Sends \cup {NoTx}
    OBVIOUS
  <2>2. /\ Len(Joined(m, NoTx)) = Len(m) + (IF NoTx = NoTx THEN 0 ELSE 1)
        /\ \A i \in 1..Len(m) : Joined(m, NoTx)[i] = m[i]
    BY <2>1, JoinedFacts
  <2> QED BY <2>1, <2>2
<1> QED BY <1>1, <1>2

(* The text at the UART is cut short. *)
LEMMA JoinedCut ==
    ASSUME NEW m \in Seq(Sends), NEW x \in Sends
    PROVE  LET J == Joined(m, x) K == Joined(m, CutShort(x))
           IN  /\ Len(J) \in Nat \ {0} /\ Len(K) = Len(J) /\ K[Len(J)] = CutShort(J[Len(J)])
               /\ \A i \in 1..(Len(J) - 1) : K[i] = J[i]
<1>1. /\ Len(Joined(m, x)) = Len(m) + 1 /\ Joined(m, x)[Len(m) + 1] = x
      /\ \A i \in 1..Len(m) : Joined(m, x)[i] = m[i]
  BY SendsFacts, JoinedFacts
<1>2. CutShort(x) \in Sends /\ CutShort(x) # NoTx
  BY SendsFacts
<1>3. /\ Len(Joined(m, CutShort(x))) = Len(m) + 1 /\ Joined(m, CutShort(x))[Len(m) + 1] = CutShort(x)
      /\ \A i \in 1..Len(m) : Joined(m, CutShort(x))[i] = m[i]
  BY <1>2, JoinedFacts
<1>4. Len(m) \in Nat /\ (Len(m) + 1) - 1 = Len(m)
  OBVIOUS
<1> QED BY <1>1, <1>3, <1>4

(* The pipe is a sequence of texts, and begins with what the module has. *)
LEMMA PipeType ==
    ASSUME LinkTypeOK
    PROVE  /\ Pipe \in Seq(Sends) /\ Len(Pipe) \in Nat /\ Len(rxBffr) \in Nat
           /\ \A i \in 1..Len(Pipe) : Pipe[i] \in Sends /\ Pipe[i].cmd \in Cmds
           /\ modem # <<>> => modem[1] = Pipe[1] /\ Len(Pipe) >= 1
<1>1. modem \in Seq(Sends) /\ tx \in Sends \cup {NoTx} /\ rxBffr \in Seq(Lines)
  BY DEF LinkTypeOK
<1>2. /\ Pipe \in Seq(Sends) /\ Len(Pipe) = Len(modem) + (IF tx = NoTx THEN 0 ELSE 1)
      /\ \A i \in 1..Len(modem) : Pipe[i] = modem[i]
  BY <1>1, JoinedFacts DEF Pipe
<1>3. \A i \in 1..Len(Pipe) : Pipe[i] \in Sends
  BY <1>2
<1>4. \A x \in Sends : x.cmd \in Cmds
  BY DEF Sends
<1>5. modem # <<>> => modem[1] = Pipe[1] /\ Len(Pipe) >= 1
  <2> SUFFICES ASSUME modem # <<>> PROVE modem[1] = Pipe[1] /\ Len(Pipe) >= 1
    OBVIOUS
  <2>1. Len(modem) \in Nat /\ Len(modem) > 0
    BY <1>1, HeadTailProperties
  <2> QED BY <1>2, <2>1
<1> QED BY <1>1, <1>2, <1>3, <1>4, <1>5

-----------------------------------------------------------------------------
(* The steps of the module.                                                *)

(* What a step of the module does to the pipe and to the lines received. *)
Gone(d)      == /\ Len(Pipe) >= d /\ Len(Pipe') = Len(Pipe) - d
                /\ \A i \in 1..Len(Pipe') : Pipe'[i] = Pipe[i + d]
Turned(d, k) == /\ Len(Pipe) >= d + 1 /\ Len(Pipe') = Len(Pipe) - d
                /\ Pipe'[1] = [Pipe[1] EXCEPT !.kind = k]
                /\ \A i \in 2..Len(Pipe') : Pipe'[i] = Pipe[i + d]
                /\ modem' # <<>>
Says(k, c)   == rxBffr' = Append(rxBffr, [kind |-> k, cmd |-> c])

Forgets   == Pipe[1].kind \in Payloads /\ Gone(1) /\ rxBffr' = rxBffr
Refuses   == Pipe[1].kind \in Orders /\ Gone(1) /\ Says("ERROR", Pipe[1].cmd)
Completes == \E kk \in {<<"plain", "OK">>, <<"opening", "QIOPEN">>, <<"publishing", "QMTPUB">>} :
                Pipe[1].kind = kk[1] /\ Gone(1) /\ Says(kk[2], Pipe[1].cmd)
Advances  == \E kk \in {<<"open", "opening", "OK">>, <<"send", "sendInput", "PROMPT">>,
                        <<"publish", "publishInput", "PROMPT">>} :
                Pipe[1].kind = kk[1] /\ Turned(0, kk[2]) /\ Says(kk[3], Pipe[1].cmd)
Sent      == Pipe[1].kind = "sendInput" /\ Gone(2) /\ Says("SEND_OK", Pipe[1].cmd)
Published == Pipe[1].kind = "publishInput" /\ Turned(1, "publishing") /\ Says("OK", Pipe[1].cmd)
Spoils    == Pipe[1].kind = "cut" /\ Gone(2) /\ Says("ERROR", Pipe[2].cmd)
Swallows  == /\ Pipe[1].kind \in Inputs \cup {"cut"} /\ Turned(1, Pipe[1].kind)
             /\ Pipe[2].kind \in Cuts /\ rxBffr' = rxBffr

(* The module is done with its first text. *)
LEMMA TailGone ==
    ASSUME LinkTypeOK, modem # <<>>, modem' = Tail(modem), tx' = tx PROVE Gone(1)
<1>1. modem \in Seq(Sends) /\ tx \in Sends \cup {NoTx}
  BY DEF LinkTypeOK
<1>2. Pipe' = Joined(Tail(modem), tx) /\ Pipe = Joined(modem, tx)
  BY DEF Pipe
<1>3. /\ Len(Pipe) \in Nat \ {0} /\ Len(Pipe') = Len(Pipe) - 1
      /\ \A i \in 1..(Len(Pipe) - 1) : Pipe'[i] = Pipe[i + 1]
  BY <1>1, <1>2, JoinedTail
<1> QED BY <1>3 DEF Gone

(* Its first text is at its next stage. *)
LEMMA HeadTurned ==
    ASSUME LinkTypeOK, modem # <<>>, NEW k \in Orders \cup Stages \cup {"payload", "cut", "cutPayload"},
           modem' = <<[Head(modem) EXCEPT !.kind = k]>> \o Tail(modem), tx' = tx
    PROVE  Turned(0, k)
<1>1. modem \in Seq(Sends) /\ tx \in Sends \cup {NoTx}
  BY DEF LinkTypeOK
<1> DEFINE h == [Head(modem) EXCEPT !.kind = k]
           J == Joined(Tail(modem), tx)
<1>2. Pipe' = Joined(<<h>> \o Tail(modem), tx) /\ Pipe = Joined(modem, tx)
  BY DEF Pipe
<1>3. /\ Tail(modem) \in Seq(Sends) /\ Len(Pipe) \in Nat \ {0} /\ Pipe[1] = Head(modem) /\ Head(modem) \in Sends
      /\ Len(J) = Len(Pipe) - 1
      /\ \A i \in 1..(Len(Pipe) - 1) : J[i] = Pipe[i + 1]
  BY <1>1, <1>2, JoinedTail
<1>4. h \in Sends
  BY <1>3 DEF Sends
<1> HIDE DEF h
<1>5. /\ <<h>> \o Tail(modem) # <<>> /\ Pipe'[1] = h
      /\ Len(Pipe') = Len(J) + 1
      /\ \A i \in 2..(Len(J) + 1) : Pipe'[i] = J[i - 1]
  <2>1. Tail(modem) \in Seq(Sends) /\ Pipe' = Joined(<<h>> \o Tail(modem), tx)
    BY <1>2, <1>3
  <2> QED BY <1>1, <1>4, <2>1, JoinedLead
<1> HIDE DEF J
<1>6. Len(Pipe') = Len(Pipe) /\ modem' # <<>>
  BY <1>3, <1>5 DEF h
<1>7. ASSUME NEW i \in 2..Len(Pipe') PROVE Pipe'[i] = Pipe[i + 0]
  <2>1. i - 1 \in 1..(Len(Pipe) - 1) /\ (i - 1) + 1 = i /\ i + 0 = i
    BY <1>3, <1>6
  <2> QED BY <1>3, <1>5, <1>6, <2>1
<1> QED BY <1>3, <1>5, <1>6, <1>7 DEF Turned, h

(* The second text in the pipe, when the module has it. *)
LEMMA SecondFacts ==
    ASSUME LinkTypeOK, modem # <<>>, Tail(modem) # <<>>
    PROVE  Len(Pipe) >= 2 /\ Pipe[2] = Head(Tail(modem)) /\ Tail(modem) \in Seq(Sends)
<1>1. modem \in Seq(Sends) /\ tx \in Sends \cup {NoTx}
  BY DEF LinkTypeOK
<1>2. Pipe = Joined(modem, tx)
  BY DEF Pipe
<1>3. /\ Tail(modem) \in Seq(Sends) /\ Len(Pipe) \in Nat \ {0}
      /\ Len(Joined(Tail(modem), tx)) = Len(Pipe) - 1
      /\ \A i \in 1..(Len(Pipe) - 1) : Joined(Tail(modem), tx)[i] = Pipe[i + 1]
  BY <1>1, <1>2, JoinedTail
<1>4. Len(Joined(Tail(modem), tx)) \in Nat \ {0} /\ Joined(Tail(modem), tx)[1] = Head(Tail(modem))
  BY <1>1, <1>3, JoinedTail
<1> QED BY <1>3, <1>4

(* It is done with the first two. *)
LEMMA TwoGone ==
    ASSUME LinkTypeOK, modem # <<>>, Tail(modem) # <<>>, modem' = Tail(Tail(modem)), tx' = tx PROVE Gone(2)
<1>1. modem \in Seq(Sends) /\ tx \in Sends \cup {NoTx}
  BY DEF LinkTypeOK
<1> DEFINE J == Joined(Tail(modem), tx)
<1>2. Pipe' = Joined(Tail(Tail(modem)), tx) /\ Pipe = Joined(modem, tx)
  BY DEF Pipe
<1>3. /\ Tail(modem) \in Seq(Sends) /\ Len(Pipe) \in Nat \ {0}
      /\ Len(J) = Len(Pipe) - 1
      /\ \A i \in 1..(Len(Pipe) - 1) : J[i] = Pipe[i + 1]
  BY <1>1, <1>2, JoinedTail
<1>4. /\ Len(J) \in Nat \ {0} /\ Len(Pipe') = Len(J) - 1
      /\ \A i \in 1..(Len(J) - 1) : Pipe'[i] = J[i + 1]
  BY <1>1, <1>2, <1>3, JoinedTail
<1> HIDE DEF J
<1>5. Len(Pipe) >= 2 /\ Len(Pipe') = Len(Pipe) - 2
  BY <1>3, <1>4
<1>6. ASSUME NEW i \in 1..Len(Pipe') PROVE Pipe'[i] = Pipe[i + 2]
  <2>1. i \in 1..(Len(J) - 1) /\ i + 1 \in 1..(Len(Pipe) - 1) /\ (i + 1) + 1 = i + 2
    BY <1>3, <1>4
  <2>2. Pipe'[i] = J[i + 1] /\ J[i + 1] = Pipe[(i + 1) + 1]
    BY <1>3, <1>4, <2>1
  <2> QED BY <2>1, <2>2
<1> QED BY <1>5, <1>6 DEF Gone

(* It is done with the second, and the first is at its next stage. *)
LEMMA SecondTurned ==
    ASSUME LinkTypeOK, modem # <<>>, Tail(modem) # <<>>, NEW k \in Orders \cup Stages \cup {"payload", "cut", "cutPayload"},
           modem' = <<[Head(modem) EXCEPT !.kind = k]>> \o Tail(Tail(modem)), tx' = tx
    PROVE  Turned(1, k)
<1>1. modem \in Seq(Sends) /\ tx \in Sends \cup {NoTx} /\ Head(modem) \in Sends
  BY HeadTailProperties DEF LinkTypeOK
<1> DEFINE h == [Head(modem) EXCEPT !.kind = k]
           J == Joined(Tail(modem), tx)
           K == Joined(Tail(Tail(modem)), tx)
<1>2. Pipe' = Joined(<<h>> \o Tail(Tail(modem)), tx) /\ Pipe = Joined(modem, tx)
  BY DEF Pipe
<1>3. /\ Tail(modem) \in Seq(Sends) /\ Len(Pipe) \in Nat \ {0} /\ Pipe[1] = Head(modem)
      /\ Len(J) = Len(Pipe) - 1
      /\ \A i \in 1..(Len(Pipe) - 1) : J[i] = Pipe[i + 1]
  BY <1>1, <1>2, JoinedTail
<1>4. /\ Tail(Tail(modem)) \in Seq(Sends)
      /\ Len(J) \in Nat \ {0} /\ Len(K) = Len(J) - 1
      /\ \A i \in 1..(Len(J) - 1) : K[i] = J[i + 1]
  BY <1>1, <1>2, <1>3, JoinedTail
<1>5. h \in Sends
  BY <1>1 DEF Sends
<1> HIDE DEF h, J, K
<1>6. /\ <<h>> \o Tail(Tail(modem)) # <<>> /\ Pipe'[1] = h
      /\ Len(Pipe') = Len(K) + 1
      /\ \A i \in 2..(Len(K) + 1) : Pipe'[i] = K[i - 1]
  <2>1. Tail(Tail(modem)) \in Seq(Sends) /\ Pipe' = Joined(<<h>> \o Tail(Tail(modem)), tx) /\ tx \in Sends \cup {NoTx}
    BY <1>1, <1>2, <1>4
  <2>2. K = Joined(Tail(Tail(modem)), tx)
    BY DEF K
  <2> QED BY <1>5, <2>1, <2>2, JoinedLead
<1>7. Len(Pipe') = Len(Pipe) - 1 /\ Len(Pipe) >= 2 /\ modem' # <<>>
  BY <1>3, <1>4, <1>6 DEF h
<1>8. ASSUME NEW i \in 2..Len(Pipe') PROVE Pipe'[i] = Pipe[i + 1]
  <2>1. /\ i \in 2..(Len(K) + 1) /\ i - 1 \in 1..(Len(J) - 1) /\ (i - 1) + 1 = i /\ i \in 1..(Len(Pipe) - 1)
    BY <1>3, <1>4, <1>6
  <2>2. Pipe'[i] = K[i - 1] /\ K[i - 1] = J[(i - 1) + 1] /\ J[i] = Pipe[i + 1]
    BY <1>3, <1>4, <1>6, <2>1
  <2> QED BY <2>1, <2>2
<1> QED BY <1>3, <1>6, <1>7, <1>8 DEF Turned, h

(* Those are all the steps of the module. *)
LEMMA ModemMoves ==
    ASSUME LinkTypeOK, ModemStep
    PROVE  /\ Len(Pipe) >= 1 /\ modem # <<>>
           /\ Forgets \/ Refuses \/ Completes \/ Advances \/ Sent \/ Published \/ Spoils \/ Swallows
<1>1. modem # <<>> /\ modem \in Seq(Sends) /\ tx' = tx
  BY DEF ModemStep, LinkTypeOK
<1>2. Head(modem) = Pipe[1] /\ Len(Pipe) >= 1 /\ Head(modem) \in Sends
  BY <1>1, PipeType, HeadTailProperties
<1> DEFINE m == Head(modem)
           rest == Tail(modem)
<1>3. CASE m.kind \in Orders /\ Emit("ERROR", m, rest)
  BY <1>1, <1>2, <1>3, TailGone DEF Refuses, Emit, Says
<1>4. CASE m.kind = "plain" /\ Emit("OK", m, rest)
  BY <1>1, <1>2, <1>4, TailGone DEF Completes, Emit, Says
<1>5. CASE m.kind = "opening" /\ Emit("QIOPEN", m, rest)
  BY <1>1, <1>2, <1>5, TailGone DEF Completes, Emit, Says
<1>6. CASE m.kind = "publishing" /\ Emit("QMTPUB", m, rest)
  BY <1>1, <1>2, <1>6, TailGone DEF Completes, Emit, Says
<1>7. CASE m.kind = "open" /\ Emit("OK", m, <<[m EXCEPT !.kind = "opening"]>> \o rest)
  <2>1. Turned(0, "opening")
    BY <1>1, <1>7, HeadTurned DEF Emit, Stages
  <2>2. Pipe[1].kind = "open" /\ Says("OK", Pipe[1].cmd)
    BY <1>2, <1>7 DEF Emit, Says
  <2> QED BY <1>1, <1>2, <2>1, <2>2 DEF Advances
<1>8. CASE m.kind = "send" /\ Emit("PROMPT", m, <<[m EXCEPT !.kind = "sendInput"]>> \o rest)
  <2>1. Turned(0, "sendInput")
    BY <1>1, <1>8, HeadTurned DEF Emit, Stages
  <2>2. Pipe[1].kind = "send" /\ Says("PROMPT", Pipe[1].cmd)
    BY <1>2, <1>8 DEF Emit, Says
  <2> QED BY <1>1, <1>2, <2>1, <2>2 DEF Advances
<1>9. CASE m.kind = "publish" /\ Emit("PROMPT", m, <<[m EXCEPT !.kind = "publishInput"]>> \o rest)
  <2>1. Turned(0, "publishInput")
    BY <1>1, <1>9, HeadTurned DEF Emit, Stages
  <2>2. Pipe[1].kind = "publish" /\ Says("PROMPT", Pipe[1].cmd)
    BY <1>2, <1>9 DEF Emit, Says
  <2> QED BY <1>1, <1>2, <2>1, <2>2 DEF Advances
<1>10. CASE m.kind = "sendInput" /\ Whole(rest) /\ Emit("SEND_OK", m, Tail(rest))
  BY <1>1, <1>2, <1>10, TwoGone DEF Sent, Emit, Says, Whole
<1>11. CASE m.kind = "publishInput" /\ Whole(rest) /\ Emit("OK", m, <<[m EXCEPT !.kind = "publishing"]>> \o Tail(rest))
  <2>1. Turned(1, "publishing")
    BY <1>1, <1>11, SecondTurned DEF Emit, Whole, Stages
  <2>2. Pipe[1].kind = "publishInput" /\ Says("OK", Pipe[1].cmd)
    BY <1>2, <1>11 DEF Emit, Says
  <2> QED BY <1>1, <1>2, <2>1, <2>2 DEF Published
<1>12. CASE m.kind = "cut" /\ Whole(rest) /\ Emit("ERROR", Head(rest), Tail(rest))
  BY <1>1, <1>2, <1>12, TwoGone, SecondFacts DEF Spoils, Emit, Says, Whole
<1>13. CASE /\ m.kind \in {"sendInput", "publishInput", "cut"} /\ rest # <<>> /\ ~Whole(rest)
            /\ modem' = <<m>> \o Tail(rest) /\ UNCHANGED rxBffr
  <2>1. m = [m EXCEPT !.kind = m.kind] /\ m.kind \in Orders \cup Stages \cup {"payload", "cut", "cutPayload"}
    BY <1>2 DEF Sends
  <2>2. modem' = <<[Head(modem) EXCEPT !.kind = m.kind]>> \o Tail(Tail(modem))
    BY <1>13, <2>1
  <2>3. Turned(1, m.kind)
    BY <1>1, <1>13, <2>1, <2>2, SecondTurned
  <2>4. Pipe[2].kind \in Cuts
    BY <1>1, <1>13, SecondFacts DEF Whole, Cuts
  <2> QED BY <1>2, <1>13, <2>3, <2>4 DEF Swallows, Inputs
<1>14. CASE m.kind \in {"payload", "cutPayload"} /\ modem' = rest /\ UNCHANGED rxBffr
  BY <1>1, <1>2, <1>14, TailGone DEF Forgets, Payloads
<1> QED BY <1>1, <1>2, <1>3, <1>4, <1>5, <1>6, <1>7, <1>8, <1>9, <1>10, <1>11, <1>12, <1>13, <1>14 DEF ModemStep

(* Neither the module nor the UART touches the control block or a call. *)
LEMMA ModemKeeps == ASSUME ModemStep \/ TxDone PROVE SameCall
  BY DEF ModemStep, TxDone, SameCall, atcmdVars, callVars, histVars

(* Where a text of the pipe was before the first ones were gone. *)
LEMMA GoneAt ==
    ASSUME LinkTypeOK, NEW d \in 0..2, Gone(d), NEW i \in 1..Len(Pipe')
    PROVE  /\ i + d \in 1..Len(Pipe) /\ Pipe'[i] = Pipe[i + d]
           /\ (i + d = Len(Pipe) => i = Len(Pipe'))
           /\ (i + d = Len(Pipe) - 1 => i = Len(Pipe') - 1 /\ Pipe'[Len(Pipe')] = Pipe[Len(Pipe)])
<1>1. Len(Pipe) \in Nat /\ Len(Pipe') = Len(Pipe) - d /\ Len(Pipe') \in Nat /\ i \in Nat /\ i >= 1 /\ i <= Len(Pipe')
  BY PipeType DEF Gone
<1>2. i + d \in 1..Len(Pipe) /\ Pipe'[i] = Pipe[i + d]
  BY <1>1 DEF Gone
<1>3. i + d = Len(Pipe) => i = Len(Pipe')
  BY <1>1
<1>4. ASSUME i + d = Len(Pipe) - 1 PROVE i = Len(Pipe') - 1 /\ Pipe'[Len(Pipe')] = Pipe[Len(Pipe)]
  <2>1. i = Len(Pipe') - 1 /\ Len(Pipe') \in 1..Len(Pipe') /\ Len(Pipe') + d = Len(Pipe)
    BY <1>1, <1>4
  <2>2. Pipe'[Len(Pipe')] = Pipe[Len(Pipe') + d]
    BY <2>1 DEF Gone
  <2> QED BY <2>1, <2>2
<1> QED BY <1>2, <1>3, <1>4

(* What is said of the pipe holds of what is left of it. *)
LEMMA GonePipe ==
    ASSUME LinkTypeOK, NEW t \in Tasks, PipeOf(t), NEW d \in 1..2, Gone(d), SameCall
    PROVE  PipeOf(t)' /\ \A i \in 1..Len(Pipe') : Pipe'[i].cmd \in Own
<1> USE GoneAt
<1>1. d \in 0..2 /\ Len(Pipe) \in Nat /\ Own' = Own
  BY PipeType DEF SameCall, Own
<1>2. /\ UNCHANGED <<cmds, op, abandoned, dataMode, pc>>
  BY DEF SameCall
<1>3. \A i \in 1..Len(Pipe') : i + d \in 1..Len(Pipe) /\ Pipe'[i] = Pipe[i + d] /\ i + d # 1
  BY <1>1
<1>4. (\A i \in 1..Len(Pipe) : Pipe[i].cmd <= cmds)'
  BY <1>2, <1>3 DEF PipeOf
<1>5. \A i \in 1..Len(Pipe') : Pipe'[i].cmd \in Own
  BY <1>3 DEF PipeOf, PipeInv, OwnPipe
<1>6. PipeKinds(t)'
  BY <1>2, <1>3 DEF PipeOf, PipeInv, PipeKinds
<1>7. AtEnd(t)'
  <2> SUFFICES ASSUME NEW i \in 1..Len(Pipe'), Pipe'[i].cmd = cmds
               PROVE  \/ i = Len(Pipe')
                      \/ /\ Pipe'[i].kind # "payload" /\ i = Len(Pipe') - 1 /\ Pipe'[Len(Pipe')].kind = "payload"
                         /\ op[t] \in DataOps => Pipe'[Len(Pipe')].cmd = cmds
    BY <1>2 DEF AtEnd
  <2>1. i + d \in 1..Len(Pipe) /\ Pipe'[i] = Pipe[i + d]
    BY <1>3
  <2>2. \/ i + d = Len(Pipe)
        \/ /\ Pipe[i + d].kind # "payload" /\ i + d = Len(Pipe) - 1 /\ Pipe[Len(Pipe)].kind = "payload"
           /\ op[t] \in DataOps => Pipe[Len(Pipe)].cmd = cmds
    BY <2>1 DEF PipeOf, PipeInv, AtEnd
  <2> QED BY <1>1, <2>1, <2>2
<1>8. (dataMode.cmd \notin Own \cup {0} => \A i \in 1..Len(Pipe) : Pipe[i].kind \notin {"send", "publish"})'
  BY <1>1, <1>2, <1>3 DEF PipeOf
<1>9. (dataMode.cmd # 0 /\ pc[t] # "dataWait" =>
         \A i \in 1..Len(Pipe) : Pipe[i].cmd = cmds => i = Len(Pipe) /\ Pipe[i].kind \notin {"payload", "publishing"})'
  <2> SUFFICES ASSUME dataMode.cmd # 0, pc[t] # "dataWait", NEW i \in 1..Len(Pipe'), Pipe'[i].cmd = cmds
               PROVE  i = Len(Pipe') /\ Pipe'[i].kind \notin {"payload", "publishing"}
    BY <1>2
  <2>1. i + d \in 1..Len(Pipe) /\ Pipe'[i] = Pipe[i + d]
    BY <1>3
  <2>2. i + d = Len(Pipe) /\ Pipe[i + d].kind \notin {"payload", "publishing"}
    BY <2>1 DEF PipeOf
  <2> QED BY <1>1, <2>1, <2>2
<1>10. (pc[t] \in Unsent => \A i \in 1..Len(Pipe) : Pipe[i].cmd # cmds)'
  BY <1>2, <1>3 DEF PipeOf
<1>11. OwnPipe'
  BY <1>1, <1>5 DEF OwnPipe
<1> QED BY <1>4, <1>5, <1>6, <1>7, <1>8, <1>9, <1>10, <1>11 DEF PipeOf, PipeInv

(* It holds when the first text goes to its next stage. *)
LEMMA TurnedPipe ==
    ASSUME LinkTypeOK, NEW t \in Tasks, PipeOf(t), NEW d \in 0..1, NEW k, Turned(d, k), SameCall,
           Pipe[1].kind \notin Payloads, Pipe[1].kind \in TextKinds(op[t]) => k \in TextKinds(op[t]),
           k \notin {"payload", "send", "publish"}, k = "publishing" => d = 1
    PROVE  PipeOf(t)' /\ \A i \in 1..Len(Pipe') : Pipe'[i].cmd \in Own
<1>1. Len(Pipe) \in Nat /\ Own' = Own /\ Pipe[1] \in Sends /\ 1 \in 1..Len(Pipe) /\ Len(Pipe) >= d + 1
      /\ Len(Pipe') = Len(Pipe) - d /\ Len(Pipe') \in Nat /\ Len(Pipe') >= 1
  BY PipeType DEF SameCall, Own, Turned
<1>2. UNCHANGED <<cmds, op, abandoned, dataMode, pc>>
  BY DEF SameCall
<1>3. Pipe'[1].cmd = Pipe[1].cmd /\ Pipe'[1].kind = k
  BY <1>1 DEF Turned, Sends
<1>4. \A i \in 2..Len(Pipe') : i + d \in 1..Len(Pipe) /\ Pipe'[i] = Pipe[i + d] /\ i + d # 1
  BY <1>1 DEF Turned
<1>5. (\A i \in 1..Len(Pipe) : Pipe[i].cmd <= cmds)'
  BY <1>1, <1>2, <1>3, <1>4 DEF PipeOf
<1>6. \A i \in 1..Len(Pipe') : Pipe'[i].cmd \in Own
  BY <1>1, <1>3, <1>4 DEF PipeOf, PipeInv, OwnPipe
<1>7. PipeKinds(t)'
  <2>1. Pipe'[1].cmd = cmds => k \in TextKinds(op[t])
    BY <1>1, <1>3 DEF PipeOf, PipeInv, PipeKinds, Payloads
  <2> QED BY <1>1, <1>2, <1>3, <1>4, <2>1 DEF PipeOf, PipeInv, PipeKinds
<1>8. AtEnd(t)'
  <2> SUFFICES ASSUME NEW i \in 1..Len(Pipe'), Pipe'[i].cmd = cmds
               PROVE  \/ i = Len(Pipe')
                      \/ /\ Pipe'[i].kind # "payload" /\ i = Len(Pipe') - 1 /\ Pipe'[Len(Pipe')].kind = "payload"
                         /\ op[t] \in DataOps => Pipe'[Len(Pipe')].cmd = cmds
    BY <1>2 DEF AtEnd
  <2>1. CASE i = 1
    <3>1. Pipe[1].cmd = cmds
      BY <1>3, <2>1
    <3>2. \/ 1 = Len(Pipe)
          \/ /\ 1 = Len(Pipe) - 1 /\ Pipe[Len(Pipe)].kind = "payload"
             /\ op[t] \in DataOps => Pipe[Len(Pipe)].cmd = cmds
      BY <1>1, <3>1 DEF PipeOf, PipeInv, AtEnd
    <3>3. CASE Len(Pipe') = 1
      BY <2>1, <3>3
    <3>4. CASE Len(Pipe') # 1
      <4>0. Len(Pipe) \in Nat /\ Len(Pipe') = Len(Pipe) - d /\ d \in {0, 1} /\ Len(Pipe) >= d + 1
        BY <1>1
      <4>1. d = 0 /\ Len(Pipe) = 2 /\ Len(Pipe') = 2
        <5>1. Len(Pipe) = 2
          <6>1. Len(Pipe) # 1
            BY <4>0, <3>4
          <6> QED BY <4>0, <3>2, <6>1
        <5> QED BY <4>0, <3>4, <5>1
      <4>2. Pipe'[2] = Pipe[2]
        BY <1>4, <4>1
      <4> QED BY <1>3, <2>1, <3>2, <4>1, <4>2
    <3> QED BY <3>3, <3>4
  <2>2. CASE i # 1
    <3>1. i \in 2..Len(Pipe') /\ i + d \in 1..Len(Pipe) /\ Pipe'[i] = Pipe[i + d]
      BY <1>1, <1>4, <2>2
    <3>2. \/ i + d = Len(Pipe)
          \/ /\ Pipe[i + d].kind # "payload" /\ i + d = Len(Pipe) - 1 /\ Pipe[Len(Pipe)].kind = "payload"
             /\ op[t] \in DataOps => Pipe[Len(Pipe)].cmd = cmds
      BY <1>2, <3>1 DEF PipeOf, PipeInv, AtEnd
    <3>3. Len(Pipe') \in 2..Len(Pipe') /\ Len(Pipe') + d = Len(Pipe)
      BY <1>1, <3>1
    <3>4. Pipe'[Len(Pipe')] = Pipe[Len(Pipe)]
      BY <1>4, <3>3
    <3>5. (i + d = Len(Pipe) => i = Len(Pipe')) /\ (i + d = Len(Pipe) - 1 => i = Len(Pipe') - 1)
      BY <1>1, <3>1, <3>3
    <3> QED BY <3>1, <3>2, <3>4, <3>5
  <2> QED BY <2>1, <2>2
<1>9. (dataMode.cmd \notin Own \cup {0} => \A i \in 1..Len(Pipe) : Pipe[i].kind \notin {"send", "publish"})'
  BY <1>1, <1>2, <1>3, <1>4 DEF PipeOf
<1>10. (dataMode.cmd # 0 /\ pc[t] # "dataWait" =>
         \A i \in 1..Len(Pipe) : Pipe[i].cmd = cmds => i = Len(Pipe) /\ Pipe[i].kind \notin {"payload", "publishing"})'
  <2> SUFFICES ASSUME dataMode.cmd # 0, pc[t] # "dataWait", NEW i \in 1..Len(Pipe'), Pipe'[i].cmd = cmds
               PROVE  i = Len(Pipe') /\ Pipe'[i].kind \notin {"payload", "publishing"}
    BY <1>2
  <2>1. CASE i = 1
    <3>1. 1 = Len(Pipe)
      BY <1>1, <1>3, <2>1 DEF PipeOf
    <3>0. Len(Pipe) \in Nat /\ Len(Pipe') = Len(Pipe) - d /\ d \in {0, 1} /\ Len(Pipe) >= d + 1
      BY <1>1
    <3>2. \A a \in Nat : \A b : a = 1 /\ b = a - d /\ a >= d + 1 /\ d \in {0, 1} => d = 0 /\ b = 1
      OBVIOUS
    <3>3. d = 0 /\ Len(Pipe') = 1
      BY <3>0, <3>1, <3>2
    <3> QED BY <1>3, <2>1, <3>3
  <2>2. CASE i # 1
    <3>1. i \in 2..Len(Pipe') /\ i + d \in 1..Len(Pipe) /\ Pipe'[i] = Pipe[i + d]
      BY <1>1, <1>4, <2>2
    <3>2. i + d = Len(Pipe) /\ Pipe[i + d].kind \notin {"payload", "publishing"}
      BY <3>1 DEF PipeOf
    <3> QED BY <1>1, <3>1, <3>2
  <2> QED BY <2>1, <2>2
<1>11. (pc[t] \in Unsent => \A i \in 1..Len(Pipe) : Pipe[i].cmd # cmds)'
  <2> SUFFICES ASSUME pc[t] \in Unsent, NEW i \in 1..Len(Pipe') PROVE Pipe'[i].cmd # cmds
    BY <1>2
  <2>1. \A j \in 1..Len(Pipe) : Pipe[j].cmd # cmds
    BY DEF PipeOf
  <2> QED BY <1>1, <1>3, <1>4, <2>1
<1>12. OwnPipe'
  BY <1>1, <1>6 DEF OwnPipe
<1> QED BY <1>5, <1>6, <1>7, <1>8, <1>9, <1>10, <1>11, <1>12 DEF PipeOf, PipeInv

(* The received lines are lines, each with the number of a request. *)
LEMMA RxFacts ==
    ASSUME TypeOK
    PROVE  /\ Len(rxBffr) \in Nat /\ rxBffr \in Seq(Lines) /\ Rx \subseteq Lines /\ Seen \subseteq Lines
           /\ \A i \in 1..Len(rxBffr) : rxBffr[i] \in Rx /\ rxBffr[i] \in Seen
           /\ \A x \in Rx : \E i \in 1..Len(rxBffr) : x = rxBffr[i]
           /\ rxBffr = <<>> => Rx = {}
           /\ \A x \in Lines : x.cmd \in Cmds
<1>1. rxBffr \in Seq(Lines) /\ rawResponse \subseteq Lines /\ Len(rxBffr) \in Nat
  BY DEF TypeOK, LinkTypeOK, AtcmdTypeOK
<1>2. Rx = {rxBffr[i] : i \in 1..Len(rxBffr)}
  BY DEF Rx, LinesOf
<1>3. \A i \in 1..Len(rxBffr) : rxBffr[i] \in Lines
  BY <1>1
<1>4. rxBffr = <<>> => Rx = {}
  BY <1>2
<1>5. \A x \in Lines : x.cmd \in Cmds
  BY DEF Lines
<1> QED BY <1>1, <1>2, <1>3, <1>4, <1>5 DEF Seen

(* One more line is received. *)
LEMMA SaysFacts ==
    ASSUME TypeOK, NEW k \in Parsers \cup {"ERROR", "PROMPT"}, NEW c \in Cmds, Says(k, c), rawResponse' = rawResponse
    PROVE  LET x == [kind |-> k, cmd |-> c]
           IN  /\ Len(rxBffr') = Len(rxBffr) + 1 /\ rxBffr'[Len(rxBffr) + 1] = x
               /\ \A i \in 1..Len(rxBffr) : rxBffr'[i] = rxBffr[i]
               /\ Rx' = Rx \cup {x} /\ Seen' = Seen \cup {x}
<1> DEFINE x == [kind |-> k, cmd |-> c]
<1>1. x \in Lines /\ rxBffr \in Seq(Lines) /\ Len(rxBffr) \in Nat
  BY RxFacts DEF Lines
<1> HIDE DEF x
<1>2. /\ rxBffr' = Append(rxBffr, x) /\ Len(rxBffr') = Len(rxBffr) + 1 /\ rxBffr'[Len(rxBffr) + 1] = x
      /\ \A i \in 1..Len(rxBffr) : rxBffr'[i] = rxBffr[i]
  BY <1>1, AppendProperties DEF Says, x
<1>3. Rx' = Rx \cup {x}
  <2>1. Rx' = {rxBffr'[i] : i \in 1..Len(rxBffr')} /\ Rx = {rxBffr[i] : i \in 1..Len(rxBffr)}
    BY DEF Rx, LinesOf
  <2>2. 1..Len(rxBffr') = 1..Len(rxBffr) \cup {Len(rxBffr) + 1}
    BY <1>1, <1>2
  <2> QED BY <1>2, <2>1, <2>2
<1>4. Seen' = Seen \cup {x}
  BY <1>3 DEF Seen
<1> QED BY <1>2, <1>3, <1>4 DEF x

(* The last line or the result came: the module does not answer any more. *)
LEMMA Silence ==
    ASSUME TypeOK, NEW t, RxOf(t), Len(Pipe) >= 1, Pipe[1].kind \notin Payloads
    PROVE  /\ ~Exhausted /\ ~(from = cmds /\ cmds # 0)
           /\ \A x \in Seen : ~Final(x, op[t])
<1>1. Len(Pipe) \in Nat /\ 1 \in 1..Len(Pipe)
  BY PipeType DEF TypeOK
<1>2. ~Exhausted
  BY <1>1 DEF Exhausted
<1> QED BY <1>2 DEF RxOf, RxInv, LastLine, HasAnswer

(* The new line is one that the properties allow. *)
LEMMA SaysKeeps ==
    ASSUME TypeOK, NEW t \in Tasks, RxOf(t), SameCall, Len(Pipe) >= 1, Pipe[1].kind \notin Payloads,
           NEW k \in Parsers \cup {"ERROR", "PROMPT"}, NEW c \in Cmds, Says(k, c),
           c \in Own, c <= cmds, c = cmds => k \in LineKinds(op[t]), c = cmds => pc[t] \notin Unsent,
           dataMode.cmd \notin Own \cup {0} => k # "PROMPT",
           dataMode.cmd # 0 /\ pc[t] # "dataWait" /\ c = cmds /\ op[t] \in DataOps => k \notin {"SEND_OK", "QMTPUB", "OK"},
           Final([kind |-> k, cmd |-> c], op[t]) => Exhausted' /\ (dataMode.cmd # 0 /\ pc[t] # "dataWait" => Len(Pipe') = 0),
           k = "PROMPT" => modem' # <<>> /\ modem'[1].kind \in Inputs /\ modem'[1].cmd = c,
           modem[1].kind \in Inputs => k \in {"OK", "SEND_OK"} /\ c = modem[1].cmd
    PROVE  RxOf(t)'
<1> DEFINE x == [kind |-> k, cmd |-> c]
<1>1. UNCHANGED <<cmds, op, abandoned, dataMode, pc, from, rawResponse>> /\ Own' = Own
  BY DEF SameCall, Own
<1>2. /\ Len(rxBffr') = Len(rxBffr) + 1 /\ rxBffr'[Len(rxBffr) + 1] = x
      /\ \A i \in 1..Len(rxBffr) : rxBffr'[i] = rxBffr[i]
      /\ Rx' = Rx \cup {x} /\ Seen' = Seen \cup {x}
  BY <1>1, SaysFacts
<1>3. x.kind = k /\ x.cmd = c /\ Len(rxBffr) \in Nat
  BY RxFacts
<1>4. ~(from = cmds /\ cmds # 0) /\ \A y \in Seen : ~Final(y, op[t])
  BY Silence
<1>5. Final(x, op[t]) => Exhausted' /\ (dataMode.cmd # 0 /\ pc[t] # "dataWait" => Len(Pipe') = 0)
  OBVIOUS
<1> HIDE DEF x
<1>6. (\A y \in Seen : y.cmd <= cmds)'
  BY <1>1, <1>2, <1>3 DEF RxOf
<1>7. OwnRx' /\ SeenKinds(t)'
  BY <1>1, <1>2, <1>3 DEF RxOf, RxInv, OwnRx, SeenKinds
<1>8. LastLine(t)'
  <2>1. \A y \in Seen' : Final(y, op[t])' => y = x
    BY <1>1, <1>2, <1>4 DEF Final
  <2>2. Final(x, op[t])' => Exhausted' /\ (dataMode'.cmd # 0 /\ pc'[t] # "dataWait" => Len(Pipe') = 0)
    BY <1>1, <1>5 DEF Final
  <2>3. ASSUME NEW i \in 1..Len(rxBffr'), Final(rxBffr[i], op[t])' PROVE i = Len(rxBffr')
    <3>1. i \notin 1..Len(rxBffr)
      BY <1>1, <1>2, <1>4, <2>3, RxFacts DEF Final
    <3> QED BY <1>2, <1>3, <3>1
  <2> QED BY <2>1, <2>2, <2>3 DEF LastLine
<1>9. HasAnswer'
  BY <1>1, <1>4 DEF HasAnswer
<1>10. Prompts'
  <2> SUFFICES ASSUME NEW i \in 1..Len(rxBffr'), rxBffr'[i].kind = "PROMPT"
               PROVE  \/ i < Len(rxBffr') /\ rxBffr'[i + 1].kind \in {"OK", "SEND_OK"} /\ rxBffr'[i + 1].cmd = rxBffr'[i].cmd
                      \/ i = Len(rxBffr') /\ modem' # <<>> /\ modem'[1].kind \in Inputs /\ modem'[1].cmd = rxBffr'[i].cmd
    BY DEF Prompts
  <2>1. CASE i = Len(rxBffr) + 1
    BY <1>2, <1>3, <2>1
  <2>2. CASE i \in 1..Len(rxBffr)
    <3>1. rxBffr'[i] = rxBffr[i]
      BY <1>2, <2>2
    <3>2. \/ i < Len(rxBffr) /\ rxBffr[i + 1].kind \in {"OK", "SEND_OK"} /\ rxBffr[i + 1].cmd = rxBffr[i].cmd
          \/ i = Len(rxBffr) /\ modem # <<>> /\ modem[1].kind \in Inputs /\ modem[1].cmd = rxBffr[i].cmd
      BY <2>2, <3>1 DEF RxOf, RxInv, Prompts
    <3>3. CASE i < Len(rxBffr)
      <4>1. i + 1 \in 1..Len(rxBffr) /\ i < Len(rxBffr') /\ i # Len(rxBffr)
        BY <1>2, <1>3, <2>2, <3>3
      <4> QED BY <1>2, <3>1, <3>2, <4>1
    <3>4. CASE i = Len(rxBffr)
      <4>1. i < Len(rxBffr') /\ rxBffr'[i + 1] = x /\ ~(i < Len(rxBffr))
        BY <1>2, <1>3, <3>4
      <4> QED BY <1>3, <3>1, <3>2, <4>1
    <3> QED BY <3>2, <3>3, <3>4
  <2>3. i = Len(rxBffr) + 1 \/ i \in 1..Len(rxBffr)
    BY <1>2, <1>3
  <2> QED BY <2>1, <2>2, <2>3
<1>11. (dataMode.cmd \notin Own \cup {0} => \A y \in Rx : y.kind # "PROMPT")'
  BY <1>1, <1>2, <1>3 DEF RxOf
<1>12. (dataMode.cmd # 0 /\ pc[t] # "dataWait" => \A y \in Seen : ~Given(y, op[t]))'
  BY <1>1, <1>2, <1>3 DEF RxOf, Given
<1>13. (pc[t] \in Unsent => \A y \in Seen : y.cmd # cmds)'
  <2> SUFFICES ASSUME pc[t] \in Unsent, NEW y \in Seen' PROVE y.cmd # cmds
    BY <1>1
  <2>1. \A z \in Seen : z.cmd # cmds
    BY DEF RxOf
  <2> QED BY <1>2, <1>3, <2>1
<1>14. (pc[t] = "dataWait" => rxBffr # <<>> /\ rxBffr[1].kind = "PROMPT")'
  <2> SUFFICES ASSUME pc[t] = "dataWait" PROVE rxBffr' # <<>> /\ rxBffr'[1].kind = "PROMPT"
    BY <1>1
  <2>1. rxBffr # <<>> /\ rxBffr[1].kind = "PROMPT"
    BY DEF RxOf
  <2>2. 1 \in 1..Len(rxBffr)
    BY <2>1, RxFacts
  <2> QED BY <1>2, <1>3, <2>1, <2>2
<1>15. RxInv(t)'
  BY <1>7, <1>8, <1>10 DEF RxInv
<1> QED BY <1>6, <1>9, <1>11, <1>12, <1>13, <1>14, <1>15 DEF RxOf

(* The command's text is gone: at most its data is left. *)
LEMMA GoneEnds ==
    ASSUME LinkTypeOK, NEW t \in Tasks, PipeOf(t), NEW d \in 1..2, Gone(d),
           NEW j \in 1..d, Pipe[j].cmd = cmds
    PROVE  Exhausted' /\ (dataMode.cmd # 0 /\ pc[t] # "dataWait" => Len(Pipe') = 0)
<1>1. /\ Len(Pipe) \in Nat /\ Len(Pipe) >= d /\ Len(Pipe') = Len(Pipe) - d /\ j \in 1..Len(Pipe) /\ Len(Pipe') \in Nat
      /\ d \in Nat /\ j \in Nat /\ j <= d
  BY PipeType DEF Gone
<1>2. \/ j = Len(Pipe)
      \/ j = Len(Pipe) - 1 /\ Pipe[Len(Pipe)].kind = "payload"
  BY <1>1 DEF PipeOf, PipeInv, AtEnd
<1>3. Len(Pipe') <= 1
  BY <1>1, <1>2
<1>4. ASSUME NEW i \in 1..Len(Pipe') PROVE Pipe'[i].kind \in Payloads
  <2>1. i = 1 /\ Len(Pipe') = 1
    BY <1>1, <1>3
  <2>2. Len(Pipe) = d + 1 /\ j # Len(Pipe)
    <3>1. \A a, e, f \in Nat : 1 = a - e /\ f <= e => a = e + 1 /\ f # a
      OBVIOUS
    <3> QED BY <1>1, <2>1, <3>1
  <2>3. Pipe'[1] = Pipe[1 + d] /\ 1 + d = Len(Pipe)
    BY <1>1, <2>1, <2>2 DEF Gone
  <2> QED BY <1>2, <2>1, <2>2, <2>3 DEF Payloads
<1>5. dataMode.cmd # 0 /\ pc[t] # "dataWait" => Len(Pipe') = 0
  <2> SUFFICES ASSUME dataMode.cmd # 0, pc[t] # "dataWait" PROVE Len(Pipe') = 0
    OBVIOUS
  <2>1. j = Len(Pipe)
    BY <1>1 DEF PipeOf
  <2> QED BY <1>1, <2>1
<1> QED BY <1>3, <1>4, <1>5 DEF Exhausted

(* Nothing new is received. *)
LEMMA QuietKeeps ==
    ASSUME TypeOK, NEW t \in Tasks, RxOf(t), rxBffr' = rxBffr, SameCall,
           Exhausted => Exhausted' /\ (Len(Pipe) = 0 => Len(Pipe') = 0),
           modem # <<>> /\ modem[1].kind \in Inputs =>
               modem' # <<>> /\ modem'[1].kind \in Inputs /\ modem'[1].cmd = modem[1].cmd
    PROVE  RxOf(t)'
<1>1. UNCHANGED <<cmds, op, abandoned, dataMode, pc, from, rawResponse, rxBffr>> /\ Own' = Own /\ Rx' = Rx /\ Seen' = Seen
  BY DEF SameCall, Own, Rx, Seen
<1>2. OwnRx' /\ SeenKinds(t)'
  BY <1>1 DEF RxOf, RxInv, OwnRx, SeenKinds
<1>3. LastLine(t)'
  BY <1>1 DEF RxOf, RxInv, LastLine, Final
<1>4. HasAnswer'
  BY <1>1 DEF RxOf, HasAnswer
<1>5. Prompts'
  BY <1>1 DEF RxOf, RxInv, Prompts
<1>6. /\ (\A x \in Seen : x.cmd <= cmds)'
      /\ (dataMode.cmd \notin Own \cup {0} => \A x \in Rx : x.kind # "PROMPT")'
      /\ (pc[t] = "dataWait" => rxBffr # <<>> /\ rxBffr[1].kind = "PROMPT")'
  BY <1>1 DEF RxOf
<1>7. (dataMode.cmd # 0 /\ pc[t] # "dataWait" => \A x \in Seen : ~Given(x, op[t]))'
  BY <1>1 DEF RxOf, Given
<1>8. (pc[t] \in Unsent => \A x \in Seen : x.cmd # cmds)'
  BY <1>1 DEF RxOf
<1> QED BY <1>2, <1>3, <1>4, <1>5, <1>6, <1>7, <1>8 DEF RxOf, RxInv

(* The first text in the pipe, when it is not data. *)
LEMMA FirstText ==
    ASSUME TypeOK, NEW t \in Tasks, PipeOf(t), Len(Pipe) >= 1, modem # <<>>
    PROVE  /\ 1 \in 1..Len(Pipe) /\ Pipe[1] \in Sends /\ Pipe[1].cmd \in Cmds /\ Pipe[1].cmd <= cmds /\ modem[1] = Pipe[1]
           /\ Pipe[1].kind \notin Payloads => Pipe[1].cmd \in Own
           /\ Pipe[1].cmd = cmds => pc[t] \notin Unsent
           /\ Pipe[1].cmd = cmds /\ Pipe[1].kind \notin Payloads => Pipe[1].kind \in TextKinds(op[t])
           /\ Pipe[1].cmd = cmds /\ dataMode.cmd # 0 /\ pc[t] # "dataWait" =>
                Len(Pipe) = 1 /\ Pipe[1].kind # "publishing"
<1>1. Len(Pipe) \in Nat /\ 1 \in 1..Len(Pipe) /\ Pipe[1] \in Sends /\ Pipe[1].cmd \in Cmds /\ modem[1] = Pipe[1]
  BY PipeType DEF TypeOK
<1>2. Pipe[1].kind \notin Payloads => Pipe[1].cmd \in Own
  BY <1>1 DEF PipeOf, PipeInv, OwnPipe
<1>3. Pipe[1].cmd = cmds => pc[t] \notin Unsent
  BY <1>1 DEF PipeOf
<1>4. Pipe[1].cmd = cmds /\ Pipe[1].kind \notin Payloads => Pipe[1].kind \in TextKinds(op[t])
  BY <1>1 DEF PipeOf, PipeInv, PipeKinds, Payloads
<1>5. Pipe[1].cmd = cmds /\ dataMode.cmd # 0 /\ pc[t] # "dataWait" => Len(Pipe) = 1 /\ Pipe[1].kind # "publishing"
  BY <1>1 DEF PipeOf
<1>6. Pipe[1].cmd <= cmds
  BY <1>1 DEF PipeOf
<1> QED BY <1>1, <1>2, <1>3, <1>4, <1>5, <1>6

(* The kinds of texts and lines that are never each other. *)
LEMMA KindsApart ==
    /\ \A k \in Orders \cup Stages \cup {"cut"} : k \notin Payloads
    /\ \A k \in Orders \cup {"opening", "publishing", "cut"} : k \notin Inputs
    /\ \A o \in AllOps : "ERROR" \in LineKinds(o)
    /\ \A o \in AllOps : Parser(o) # "PROMPT"
  BY DEF Orders, Stages, Payloads, Inputs, LineKinds, Parser

(* The module refuses a command. *)
LEMMA Refusal ==
    ASSUME TypeOK, NEW t \in Tasks, PipeOf(t), RxOf(t), SameCall, Len(Pipe) >= 1, modem # <<>>, Refuses
    PROVE  RxOf(t)'
<1> DEFINE c == Pipe[1].cmd
<1>1. Pipe[1].kind \in Orders /\ Gone(1) /\ Says("ERROR", c)
  BY DEF Refuses
<1>2. Pipe[1].kind \notin Payloads /\ Pipe[1].kind \notin Inputs
  BY <1>1, KindsApart
<1>3. c \in Cmds /\ c <= cmds /\ c \in Own /\ (c = cmds => pc[t] \notin Unsent) /\ modem[1] = Pipe[1]
  BY <1>2, FirstText
<1>4. op[t] \in AllOps
  BY DEF TypeOK, CallTypeOK
<1>5. c = cmds => Exhausted' /\ (dataMode.cmd # 0 /\ pc[t] # "dataWait" => Len(Pipe') = 0)
  BY <1>1, GoneEnds DEF TypeOK
<1>6. Final([kind |-> "ERROR", cmd |-> c], op[t]) => c = cmds
  BY DEF Final
<1> HIDE DEF c
<1> QED BY <1>1, <1>2, <1>3, <1>4, <1>5, <1>6, KindsApart, SaysKeeps

(* It completes one. *)
LEMMA Completion ==
    ASSUME TypeOK, NEW t \in Tasks, PipeOf(t), RxOf(t), SameCall, Len(Pipe) >= 1, modem # <<>>, Completes
    PROVE  RxOf(t)'
<1> DEFINE c == Pipe[1].cmd
<1>1. PICK kk \in {<<"plain", "OK">>, <<"opening", "QIOPEN">>, <<"publishing", "QMTPUB">>} :
          Pipe[1].kind = kk[1] /\ Gone(1) /\ Says(kk[2], Pipe[1].cmd)
  BY DEF Completes
<1> DEFINE k == kk[2]
<1>2. Pipe[1].kind \notin Payloads /\ Pipe[1].kind \notin Inputs /\ k \in Parsers /\ k # "PROMPT"
  BY <1>1 DEF Payloads, Inputs, Parsers
<1>3. /\ c \in Cmds /\ c <= cmds /\ c \in Own /\ (c = cmds => pc[t] \notin Unsent) /\ modem[1] = Pipe[1]
      /\ c = cmds => Pipe[1].kind \in TextKinds(op[t])
      /\ c = cmds /\ dataMode.cmd # 0 /\ pc[t] # "dataWait" => Pipe[1].kind # "publishing"
  BY <1>2, FirstText
<1>4. c = cmds => k \in LineKinds(op[t])
  BY <1>1, <1>3 DEF TextKinds, LineKinds
<1>5. c = cmds => Exhausted' /\ (dataMode.cmd # 0 /\ pc[t] # "dataWait" => Len(Pipe') = 0)
  BY <1>1, GoneEnds DEF TypeOK
<1>6. Final([kind |-> k, cmd |-> c], op[t]) => c = cmds
  BY DEF Final
<1>7. dataMode.cmd # 0 /\ pc[t] # "dataWait" /\ c = cmds /\ op[t] \in DataOps => k \notin {"SEND_OK", "QMTPUB", "OK"}
  <2> SUFFICES ASSUME dataMode.cmd # 0, pc[t] # "dataWait", c = cmds, op[t] \in DataOps PROVE k \notin {"SEND_OK", "QMTPUB", "OK"}
    OBVIOUS
  <2>1. Pipe[1].kind \in TextKinds(op[t]) /\ Pipe[1].kind # "publishing"
    BY <1>3
  <2> QED BY <1>1, <2>1 DEF TextKinds, DataOps
<1>8. Says(k, c)
  BY <1>1
<1> HIDE DEF c, k
<1> QED BY <1>2, <1>3, <1>4, <1>5, <1>6, <1>7, <1>8, SaysKeeps

(* It goes on to the next stage of one, or prompts for its data. *)
LEMMA Advance ==
    ASSUME TypeOK, NEW t \in Tasks, PipeOf(t), RxOf(t), SameCall, Len(Pipe) >= 1, modem # <<>>, Advances,
           modem' # <<>> => modem'[1] = Pipe'[1]
    PROVE  RxOf(t)' /\ PipeOf(t)'
<1> DEFINE c == Pipe[1].cmd
<1>1. PICK kk \in {<<"open", "opening", "OK">>, <<"send", "sendInput", "PROMPT">>, <<"publish", "publishInput", "PROMPT">>} :
          Pipe[1].kind = kk[1] /\ Turned(0, kk[2]) /\ Says(kk[3], Pipe[1].cmd)
  BY DEF Advances
<1> DEFINE k == kk[3]
           stage == kk[2]
<1>2. /\ Pipe[1].kind \notin Payloads /\ Pipe[1].kind \notin Inputs /\ k \in Parsers \cup {"ERROR", "PROMPT"}
      /\ k = "PROMPT" => stage \in Inputs
      /\ stage \notin {"payload", "send", "publish", "publishing"}
      /\ k = "PROMPT" => Pipe[1].kind \in {"send", "publish"}
      /\ k # "PROMPT" => k = "OK" /\ Pipe[1].kind = "open"
  BY <1>1 DEF Payloads, Inputs, Parsers
<1>3. /\ 1 \in 1..Len(Pipe) /\ Pipe[1] \in Sends
      /\ c \in Cmds /\ c <= cmds /\ c \in Own /\ (c = cmds => pc[t] \notin Unsent) /\ modem[1] = Pipe[1]
      /\ c = cmds => Pipe[1].kind \in TextKinds(op[t])
  BY <1>2, FirstText
<1>4. Pipe[1].kind \in TextKinds(op[t]) => stage \in TextKinds(op[t]) /\ k \in LineKinds(op[t]) /\ k # Parser(op[t])
  BY <1>1 DEF TextKinds, LineKinds, Parser
<1>5. Says(k, c) /\ Turned(0, stage)
  BY <1>1
<1>6. ~Final([kind |-> k, cmd |-> c], op[t])
  BY <1>2, <1>3, <1>4 DEF Final
<1>7. dataMode.cmd # 0 /\ pc[t] # "dataWait" /\ c = cmds /\ op[t] \in DataOps => k \notin {"SEND_OK", "QMTPUB", "OK"}
  <2> SUFFICES ASSUME c = cmds, op[t] \in DataOps PROVE k \notin {"SEND_OK", "QMTPUB", "OK"}
    OBVIOUS
  <2>1. Pipe[1].kind \in TextKinds(op[t])
    BY <1>3
  <2> QED BY <1>1, <2>1 DEF TextKinds, DataOps
<1>8. dataMode.cmd \notin Own \cup {0} => k # "PROMPT"
  BY <1>2, <1>3 DEF PipeOf
<1>9. modem' # <<>> /\ modem'[1].kind = stage /\ modem'[1].cmd = c
  BY <1>3, <1>5 DEF Turned, Sends
<1> HIDE DEF c, k, stage
<1>10. PipeOf(t)'
  BY <1>2, <1>4, <1>5, TurnedPipe DEF TypeOK
<1>11. RxOf(t)'
  BY <1>2, <1>3, <1>4, <1>5, <1>6, <1>7, <1>8, <1>9, SaysKeeps
<1> QED BY <1>10, <1>11

(* It takes the data of AT+QISEND. *)
LEMMA DataTaken ==
    ASSUME TypeOK, NEW t \in Tasks, PipeOf(t), RxOf(t), SameCall, Len(Pipe) >= 1, modem # <<>>, Sent
    PROVE  RxOf(t)'
<1> DEFINE c == Pipe[1].cmd
<1>1. Pipe[1].kind = "sendInput" /\ Gone(2) /\ Says("SEND_OK", c) /\ Len(Pipe) >= 2
  BY DEF Sent, Gone
<1>2. Pipe[1].kind \notin Payloads /\ "SEND_OK" \in Parsers
  BY <1>1 DEF Payloads, Parsers
<1>3. /\ c \in Cmds /\ c <= cmds /\ c \in Own /\ (c = cmds => pc[t] \notin Unsent) /\ modem[1] = Pipe[1]
      /\ c = cmds => Pipe[1].kind \in TextKinds(op[t])
      /\ c = cmds /\ dataMode.cmd # 0 /\ pc[t] # "dataWait" => Len(Pipe) = 1
  BY <1>2, FirstText
<1>4. c = cmds => "SEND_OK" \in LineKinds(op[t])
  BY <1>1, <1>3 DEF TextKinds, LineKinds
<1>5. c = cmds => Exhausted' /\ (dataMode.cmd # 0 /\ pc[t] # "dataWait" => Len(Pipe') = 0)
  BY <1>1, GoneEnds DEF TypeOK
<1>6. Final([kind |-> "SEND_OK", cmd |-> c], op[t]) => c = cmds
  BY DEF Final
<1>7. ~(c = cmds /\ dataMode.cmd # 0 /\ pc[t] # "dataWait") /\ c = modem[1].cmd
  <2>1. Len(Pipe) # 1
    BY <1>1, PipeType DEF TypeOK
  <2> QED BY <1>3, <2>1
<1> HIDE DEF c
<1> QED BY <1>1, <1>2, <1>3, <1>4, <1>5, <1>6, <1>7, SaysKeeps

(* It takes the data of AT+QMTPUB. *)
LEMMA DataPublished ==
    ASSUME TypeOK, NEW t \in Tasks, PipeOf(t), RxOf(t), SameCall, Len(Pipe) >= 1, modem # <<>>, Published
    PROVE  RxOf(t)' /\ PipeOf(t)'
<1> DEFINE c == Pipe[1].cmd
<1>1. Pipe[1].kind = "publishInput" /\ Turned(1, "publishing") /\ Says("OK", c) /\ Len(Pipe) >= 2
  BY DEF Published, Turned
<1>2. Pipe[1].kind \notin Payloads /\ "OK" \in Parsers
  BY <1>1 DEF Payloads, Parsers
<1>3. /\ c \in Cmds /\ c <= cmds /\ c \in Own /\ (c = cmds => pc[t] \notin Unsent) /\ modem[1] = Pipe[1]
      /\ c = cmds => Pipe[1].kind \in TextKinds(op[t])
      /\ c = cmds /\ dataMode.cmd # 0 /\ pc[t] # "dataWait" => Len(Pipe) = 1
  BY <1>2, FirstText
<1>4. Pipe[1].kind \in TextKinds(op[t]) => "OK" \in LineKinds(op[t]) /\ Parser(op[t]) # "OK" /\ "publishing" \in TextKinds(op[t])
  BY <1>1 DEF TextKinds, LineKinds, Parser
<1>5. ~Final([kind |-> "OK", cmd |-> c], op[t])
  BY <1>3, <1>4 DEF Final
<1>6. ~(c = cmds /\ dataMode.cmd # 0 /\ pc[t] # "dataWait") /\ c = modem[1].cmd
  <2>1. Len(Pipe) # 1
    BY <1>1, PipeType DEF TypeOK
  <2> QED BY <1>3, <2>1
<1> HIDE DEF c
<1>7. PipeOf(t)'
  BY <1>1, <1>2, <1>4, TurnedPipe DEF TypeOK
<1>8. RxOf(t)'
  BY <1>1, <1>2, <1>3, <1>4, <1>5, <1>6, SaysKeeps
<1> QED BY <1>7, <1>8

(* What follows a text that was cut short is not understood. *)
LEMMA Spoiled ==
    ASSUME TypeOK, NEW t \in Tasks, PipeOf(t), RxOf(t), SameCall, Len(Pipe) >= 1, modem # <<>>, Spoils
    PROVE  RxOf(t)'
<1> DEFINE c == Pipe[2].cmd
<1>1. Pipe[1].kind = "cut" /\ Gone(2) /\ Says("ERROR", c) /\ Len(Pipe) >= 2
  BY DEF Spoils, Gone
<1>2. Pipe[1].kind \notin Payloads /\ Pipe[1].kind \notin Inputs
  BY <1>1 DEF Payloads, Inputs
<1>3. 2 \in 1..Len(Pipe) /\ c \in Cmds
  BY <1>1, PipeType DEF TypeOK
<1>4. c <= cmds /\ c \in Own /\ (c = cmds => pc[t] \notin Unsent) /\ modem[1] = Pipe[1]
  <2>1. c <= cmds /\ c \in Own
    BY <1>3 DEF PipeOf, PipeInv, OwnPipe
  <2>2. c = cmds => pc[t] \notin Unsent
    BY <1>3 DEF PipeOf
  <2> QED BY <2>1, <2>2, FirstText
<1>5. c = cmds => Exhausted' /\ (dataMode.cmd # 0 /\ pc[t] # "dataWait" => Len(Pipe') = 0)
  BY <1>1, GoneEnds DEF TypeOK
<1>6. Final([kind |-> "ERROR", cmd |-> c], op[t]) => c = cmds
  BY DEF Final
<1>7. op[t] \in AllOps
  BY DEF TypeOK, CallTypeOK
<1> HIDE DEF c
<1> QED BY <1>1, <1>2, <1>3, <1>4, <1>5, <1>6, <1>7, KindsApart, SaysKeeps

(* Data nobody asked for is no command. *)
LEMMA Forgotten ==
    ASSUME TypeOK, NEW t \in Tasks, PipeOf(t), RxOf(t), SameCall, Len(Pipe) >= 1, modem # <<>>, Forgets
    PROVE  RxOf(t)'
<1>1. Pipe[1].kind \in Payloads /\ Gone(1) /\ rxBffr' = rxBffr /\ modem[1] = Pipe[1]
  BY FirstText DEF Forgets
<1>2. Pipe[1].kind \notin Inputs
  BY <1>1 DEF Payloads, Inputs
<1>3. Len(Pipe) \in Nat /\ Len(Pipe') = Len(Pipe) - 1
  BY <1>1, PipeType DEF Gone, TypeOK
<1>4. Exhausted => Exhausted' /\ Len(Pipe') = 0
  <2> SUFFICES ASSUME Exhausted PROVE Exhausted' /\ Len(Pipe') = 0
    OBVIOUS
  <2>1. Len(Pipe') = 0
    BY <1>3 DEF Exhausted
  <2> QED BY <2>1 DEF Exhausted
<1> QED BY <1>1, <1>2, <1>4, QuietKeeps

(* A text without an end is continued by another one. *)
LEMMA Swallowed ==
    ASSUME TypeOK, NEW t \in Tasks, PipeOf(t), RxOf(t), SameCall, Len(Pipe) >= 1, modem # <<>>, Swallows,
           modem' # <<>> => modem'[1] = Pipe'[1]
    PROVE  RxOf(t)' /\ PipeOf(t)'
<1>1. /\ Pipe[1].kind \in Inputs \cup {"cut"} /\ Turned(1, Pipe[1].kind) /\ rxBffr' = rxBffr
      /\ modem[1] = Pipe[1] /\ Pipe[1] \in Sends /\ 1 \in 1..Len(Pipe)
  BY FirstText DEF Swallows
<1>2. Pipe[1].kind \notin Payloads /\ Pipe[1].kind \notin {"payload", "send", "publish", "publishing"}
  BY <1>1 DEF Payloads, Inputs
<1>3. ~Exhausted
  BY <1>1, <1>2 DEF Exhausted
<1>4. modem' # <<>> /\ modem'[1].kind = Pipe[1].kind /\ modem'[1].cmd = Pipe[1].cmd
  BY <1>1 DEF Turned, Sends
<1>5. PipeOf(t)'
  BY <1>1, <1>2, TurnedPipe DEF TypeOK
<1>6. RxOf(t)'
  BY <1>1, <1>3, <1>4, QuietKeeps
<1> QED BY <1>5, <1>6

(* Every step of the module keeps what is said of the pipe and the lines. *)
LEMMA ModemTraffic ==
    ASSUME TypeOK, TypeOK', NEW t \in Tasks, PipeOf(t), RxOf(t), ModemStep
    PROVE  PipeOf(t)' /\ RxOf(t)'
<1>1. SameCall
  BY ModemKeeps
<1>2. /\ Len(Pipe) >= 1 /\ modem # <<>>
      /\ Forgets \/ Refuses \/ Completes \/ Advances \/ Sent \/ Published \/ Spoils \/ Swallows
  BY ModemMoves DEF TypeOK
<1>3. modem' # <<>> => modem'[1] = Pipe'[1]
  <2> SUFFICES ASSUME modem' # <<>> PROVE modem'[1] = Pipe'[1]
    OBVIOUS
  <2>1. modem' \in Seq(Sends) /\ tx' \in Sends \cup {NoTx}
    BY DEF TypeOK, LinkTypeOK
  <2>2. 1 \in 1..Len(modem')
    BY <2>1, HeadTailProperties
  <2> QED BY <2>1, <2>2, JoinedFacts DEF Pipe
<1>4. Gone(1) \/ Gone(2) => PipeOf(t)'
  BY <1>1, GonePipe DEF TypeOK
<1>5. CASE Forgets
  BY <1>1, <1>2, <1>4, <1>5, Forgotten DEF Forgets
<1>6. CASE Refuses
  BY <1>1, <1>2, <1>4, <1>6, Refusal DEF Refuses
<1>7. CASE Completes
  BY <1>1, <1>2, <1>4, <1>7, Completion DEF Completes
<1>8. CASE Advances
  BY <1>1, <1>2, <1>3, <1>8, Advance
<1>9. CASE Sent
  BY <1>1, <1>2, <1>4, <1>9, DataTaken DEF Sent
<1>10. CASE Published
  BY <1>1, <1>2, <1>10, DataPublished
<1>11. CASE Spoils
  BY <1>1, <1>2, <1>4, <1>11, Spoiled DEF Spoils
<1>12. CASE Swallows
  BY <1>1, <1>2, <1>3, <1>12, Swallowed
<1> QED BY <1>2, <1>5, <1>6, <1>7, <1>8, <1>9, <1>10, <1>11, <1>12

-----------------------------------------------------------------------------
(* The steps of the caller.                                                *)
(* What is said of the call holds when nothing of it changes. *)
LEMMA CallKeeps ==
    ASSUME NEW t \in Tasks, CallOf(t), SameCall PROVE CallOf(t)'
<1>1. UNCHANGED <<cmds, cmd, op, abandoned, dataMode, pc, from, resultCode, respParser, rawResponse, isOpenLocked, last>> /\ Own' = Own
  BY DEF SameCall, Own
<1>2. Modes(t)'
  BY <1>1 DEF CallOf, Modes
<1>3. OwnText(t)'
  BY <1>1 DEF CallOf, OwnText
<1>4. OwnParser(t)' /\ Outcome(t)' /\ Reported(t)'
  BY <1>1 DEF CallOf, OwnParser, Outcome, Reported
<1>5. /\ (cmd[t] = cmds /\ from <= cmds /\ dataMode.cmd <= cmds)'
      /\ (\A a \in abandoned : a <= cmds)'
      /\ (pc[t] \in Unsent => from # cmds)'
  BY <1>1 DEF CallOf
<1> QED BY <1>2, <1>3, <1>4, <1>5 DEF CallOf

(* The pipe is the same, and so is what is said of it. *)
LEMMA PipeSame ==
    ASSUME NEW t \in Tasks, PipeOf(t), Pipe' = Pipe, UNCHANGED <<cmds, op>>, Own' = Own,
           dataMode'.cmd \in {0, dataMode.cmd}, pc'[t] \in Unsent => pc[t] \in Unsent,
           dataMode'.cmd # 0 /\ pc'[t] # "dataWait" => pc[t] # "dataWait"
    PROVE  PipeOf(t)'
<1>1. OwnPipe' /\ PipeKinds(t)'
  BY DEF PipeOf, PipeInv, OwnPipe, PipeKinds
<1>2. AtEnd(t)'
  BY DEF PipeOf, PipeInv, AtEnd
<1>3. (\A i \in 1..Len(Pipe) : Pipe[i].cmd <= cmds)'
  BY DEF PipeOf
<1>4. (dataMode.cmd \notin Own \cup {0} => \A i \in 1..Len(Pipe) : Pipe[i].kind \notin {"send", "publish"})'
  BY DEF PipeOf
<1>5. (dataMode.cmd # 0 /\ pc[t] # "dataWait" =>
         \A i \in 1..Len(Pipe) : Pipe[i].cmd = cmds => i = Len(Pipe) /\ Pipe[i].kind \notin {"payload", "publishing"})'
  BY DEF PipeOf
<1>6. (pc[t] \in Unsent => \A i \in 1..Len(Pipe) : Pipe[i].cmd # cmds)'
  BY DEF PipeOf
<1> QED BY <1>1, <1>2, <1>3, <1>4, <1>5, <1>6 DEF PipeOf, PipeInv

(* The lines received are the same, and so is what is said of them; more   *)
(* can be said when the request has no answer yet.                         *)
LEMMA RxSame ==
    ASSUME NEW t \in Tasks, RxOf(t), UNCHANGED <<rxBffr, rawResponse, cmds, op, modem>>, Own' = Own, Pipe' = Pipe,
           dataMode' = dataMode, from' \in {from, 0}, pc'[t] \in Unsent => pc[t] \in Unsent,
           pc[t] = "dataWait" <=> pc'[t] = "dataWait"
    PROVE  RxOf(t)'
<1>1. Rx' = Rx /\ Seen' = Seen /\ (Exhausted' <=> Exhausted)
  BY DEF Rx, Seen, Exhausted
<1>2. OwnRx' /\ SeenKinds(t)'
  BY <1>1 DEF RxOf, RxInv, OwnRx, SeenKinds
<1>3. LastLine(t)'
  BY <1>1 DEF RxOf, RxInv, LastLine, Final
<1>4. HasAnswer'
  BY <1>1 DEF RxOf, HasAnswer
<1>5. Prompts'
  BY <1>1 DEF RxOf, RxInv, Prompts
<1>6. /\ (\A x \in Seen : x.cmd <= cmds)'
      /\ (dataMode.cmd \notin Own \cup {0} => \A x \in Rx : x.kind # "PROMPT")'
      /\ (pc[t] = "dataWait" => rxBffr # <<>> /\ rxBffr[1].kind = "PROMPT")'
  BY <1>1 DEF RxOf
<1>7. (dataMode.cmd # 0 /\ pc[t] # "dataWait" => \A x \in Seen : ~Given(x, op[t]))'
  BY <1>1 DEF RxOf, Given
<1>8. (pc[t] \in Unsent => \A x \in Seen : x.cmd # cmds)'
  BY <1>1 DEF RxOf
<1> QED BY <1>2, <1>3, <1>4, <1>5, <1>6, <1>7, <1>8 DEF RxOf, RxInv

(* Before the command is sent nothing received is its own. *)
LEMMA RxUnsent ==
    ASSUME TypeOK, NEW t \in Tasks, RxOf(t), pc[t] \in Unsent, from # cmds, cmds # 0,
           UNCHANGED <<rxBffr, cmds, op, modem, dataMode>>, rawResponse' \subseteq rawResponse, Own' = Own,
           from' \in {from, 0}, pc'[t] # "dataWait"
    PROVE  RxOf(t)'
<1>1. Rx' = Rx /\ Seen' \subseteq Seen /\ from' # cmds
  BY DEF Rx, Seen
<1>2. \A x \in Seen : x.cmd # cmds
  BY DEF RxOf
<1>3. \A i \in 1..Len(rxBffr) : rxBffr[i].cmd # cmds
  BY <1>2, RxFacts
<1>4. OwnRx' /\ SeenKinds(t)'
  BY <1>1, <1>2 DEF RxOf, RxInv, OwnRx, SeenKinds
<1>5. LastLine(t)'
  BY <1>1, <1>2, <1>3 DEF LastLine, Final
<1>6. HasAnswer'
  BY <1>1 DEF HasAnswer
<1>7. Prompts'
  BY DEF RxOf, RxInv, Prompts
<1>8. /\ (\A x \in Seen : x.cmd <= cmds)'
      /\ (dataMode.cmd \notin Own \cup {0} => \A x \in Rx : x.kind # "PROMPT")'
      /\ (pc[t] = "dataWait" => rxBffr # <<>> /\ rxBffr[1].kind = "PROMPT")'
      /\ (pc[t] \in Unsent => \A x \in Seen : x.cmd # cmds)'
  BY <1>1, <1>2 DEF RxOf
<1>9. (dataMode.cmd # 0 /\ pc[t] # "dataWait" => \A x \in Seen : ~Given(x, op[t]))'
  BY <1>1, <1>2 DEF Given
<1> QED BY <1>4, <1>5, <1>6, <1>7, <1>8, <1>9 DEF RxOf, RxInv

(* atcmd_reset() in a call that has sent nothing yet. *)
LEMMA PipeTruncated ==
    ASSUME TypeOK, NEW t \in Tasks, PipeOf(t), pc[t] \in Unsent, tx' \in Truncated, modem' = modem,
           UNCHANGED <<cmds, op, dataMode>>, Own' = Own
    PROVE  PipeOf(t)' /\ \A i \in 1..Len(Pipe') : Pipe'[i].cmd # cmds
<1>1. modem \in Seq(Sends) /\ tx \in Sends \cup {NoTx}
  BY DEF TypeOK, LinkTypeOK
<1>2. \A i \in 1..Len(Pipe) : Pipe[i].cmd # cmds
  BY DEF PipeOf
<1>3. CASE tx' = tx
  <2>1. Pipe' = Pipe
    BY <1>3 DEF Pipe
  <2>2. \A i \in 1..Len(Pipe') : Pipe'[i].cmd # cmds
    BY <1>2, <2>1
  <2>3. OwnPipe' /\ PipeKinds(t)' /\ AtEnd(t)'
    BY <1>2, <2>1 DEF PipeOf, PipeInv, OwnPipe, PipeKinds, AtEnd
  <2> QED BY <1>2, <2>1, <2>2, <2>3 DEF PipeOf, PipeInv
<1>4. CASE tx \in Sends /\ tx' = CutShort(tx)
  <2>1. /\ Len(Pipe) \in Nat \ {0} /\ Len(Pipe') = Len(Pipe) /\ Pipe'[Len(Pipe)] = CutShort(Pipe[Len(Pipe)])
        /\ \A i \in 1..(Len(Pipe) - 1) : Pipe'[i] = Pipe[i]
    BY <1>1, <1>4, JoinedCut DEF Pipe
  <2>2. \A i \in 1..Len(Pipe) : Pipe[i] \in Sends
    BY PipeType DEF TypeOK
  <2>3. ASSUME NEW i \in 1..Len(Pipe')
        PROVE  /\ i \in 1..Len(Pipe) /\ Pipe'[i].cmd = Pipe[i].cmd
               /\ Pipe[i].kind \in Payloads => Pipe'[i].kind \in Payloads
               /\ Pipe'[i].kind \in {"send", "publish"} => Pipe'[i].kind = Pipe[i].kind
    <3>1. i \in 1..Len(Pipe) /\ Len(Pipe) \in 1..Len(Pipe)
      BY <2>1
    <3>2. CASE i = Len(Pipe)
      BY <2>1, <2>2, <3>1, <3>2 DEF CutShort, Sends, Payloads
    <3>3. CASE i # Len(Pipe)
      <4>1. i \in 1..(Len(Pipe) - 1)
        BY <2>1, <3>1, <3>3
      <4> QED BY <2>1, <3>1, <4>1
    <3> QED BY <3>2, <3>3
  <2>4. \A i \in 1..Len(Pipe') : Pipe'[i].cmd # cmds
    BY <1>2, <2>3
  <2>5. OwnPipe'
    BY <2>3 DEF PipeOf, PipeInv, OwnPipe
  <2>6. PipeKinds(t)' /\ AtEnd(t)'
    BY <2>4 DEF PipeKinds, AtEnd
  <2>7. (\A i \in 1..Len(Pipe) : Pipe[i].cmd <= cmds)'
    BY <2>3 DEF PipeOf
  <2>8. (dataMode.cmd \notin Own \cup {0} => \A i \in 1..Len(Pipe) : Pipe[i].kind \notin {"send", "publish"})'
    BY <2>3 DEF PipeOf
  <2> QED BY <2>4, <2>5, <2>6, <2>7, <2>8 DEF PipeOf, PipeInv
<1> QED BY <1>1, <1>3, <1>4 DEF Truncated

(* The UART takes a text. *)
LEMMA GrownFacts ==
    ASSUME TypeOK, tx = NoTx, NEW x \in Sends, tx' = x, modem' = modem
    PROVE  /\ Len(Pipe) \in Nat /\ Len(Pipe') = Len(Pipe) + 1 /\ Pipe'[Len(Pipe) + 1] = x
           /\ \A i \in 1..Len(Pipe) : Pipe'[i] = Pipe[i]
           /\ \A i \in 1..Len(Pipe') : i \in 1..Len(Pipe) \/ i = Len(Pipe) + 1
<1>1. modem \in Seq(Sends)
  BY DEF TypeOK, LinkTypeOK
<1>2. /\ Len(Pipe') = Len(Pipe) + 1 /\ Pipe'[Len(Pipe) + 1] = x
      /\ \A i \in 1..Len(Pipe) : Pipe'[i] = Pipe[i]
  BY <1>1, JoinedGrown DEF Pipe
<1>3. Len(Pipe) \in Nat
  BY PipeType DEF TypeOK
<1>4. \A i \in 1..Len(Pipe') : i \in 1..Len(Pipe) \/ i = Len(Pipe) + 1
  BY <1>2, <1>3
<1> QED BY <1>2, <1>3, <1>4

(* The text of the command goes behind everything else. *)
LEMMA PipeSent ==
    ASSUME TypeOK, NEW t \in Tasks, PipeOf(t), pc[t] \in Unsent, pc'[t] = "read", cmds \in Cmds,
           tx = NoTx, tx' = [kind |-> Order(op[t]), cmd |-> cmds], modem' = modem,
           UNCHANGED <<cmds, op, dataMode>>, Own' = Own,
           op[t] \in DataOps => dataMode.cmd \in {0, cmds}
    PROVE  PipeOf(t)'
<1> DEFINE x == [kind |-> Order(op[t]), cmd |-> cmds]
<1>1. x \in Sends /\ x.cmd = cmds /\ x.kind = Order(op[t])
  BY KindType DEF Sends
<1>2. tx' = x
  OBVIOUS
<1> HIDE DEF x
<1>3. /\ Len(Pipe) \in Nat /\ Len(Pipe') = Len(Pipe) + 1 /\ Pipe'[Len(Pipe) + 1] = x
      /\ \A i \in 1..Len(Pipe) : Pipe'[i] = Pipe[i]
      /\ \A i \in 1..Len(Pipe') : i \in 1..Len(Pipe) \/ i = Len(Pipe) + 1
  BY <1>1, <1>2, GrownFacts
<1>4. \A i \in 1..Len(Pipe) : Pipe[i].cmd # cmds /\ Pipe[i].cmd <= cmds
  BY DEF PipeOf
<1>5. Order(op[t]) \in TextKinds(op[t]) /\ Order(op[t]) \notin {"payload", "publishing"}
  BY DEF Order, TextKinds
<1>6. Order(op[t]) \in {"send", "publish"} => op[t] \in DataOps
  BY DEF Order, DataOps
<1>7. \A i \in 1..Len(Pipe') : Pipe'[i].cmd = cmds => i = Len(Pipe') /\ Pipe'[i] = x
  BY <1>3, <1>4
<1>8. cmds \in Own /\ cmds <= cmds
  <2>1. cmds \in Nat
    BY AtCmdAssumption DEF Cmds
  <2> QED BY <2>1 DEF Own
<1>9. OwnPipe'
  <2> SUFFICES ASSUME NEW i \in 1..Len(Pipe') PROVE Pipe'[i].cmd \in Own \/ (i = 1 /\ Pipe'[i].kind \in Payloads)
    BY DEF OwnPipe
  <2>1. CASE i \in 1..Len(Pipe)
    BY <1>3, <2>1 DEF PipeOf, PipeInv, OwnPipe
  <2>2. CASE i = Len(Pipe) + 1
    BY <1>1, <1>3, <1>8, <2>2
  <2> QED BY <1>3, <2>1, <2>2
<1>10. PipeKinds(t)' /\ AtEnd(t)'
  BY <1>1, <1>5, <1>7 DEF PipeKinds, AtEnd
<1>11. (\A i \in 1..Len(Pipe) : Pipe[i].cmd <= cmds)'
  BY <1>1, <1>3, <1>4, <1>8
<1>12. (dataMode.cmd \notin Own \cup {0} => \A i \in 1..Len(Pipe) : Pipe[i].kind \notin {"send", "publish"})'
  <2> SUFFICES ASSUME dataMode.cmd \notin Own \cup {0}, NEW i \in 1..Len(Pipe') PROVE Pipe'[i].kind \notin {"send", "publish"}
    OBVIOUS
  <2>1. CASE i \in 1..Len(Pipe)
    BY <1>3, <2>1 DEF PipeOf
  <2>2. CASE i = Len(Pipe) + 1
    <3>1. op[t] \notin DataOps
      BY <1>8
    <3> QED BY <1>1, <1>3, <1>6, <2>2, <3>1
  <2> QED BY <1>3, <2>1, <2>2
<1>13. (dataMode.cmd # 0 /\ pc[t] # "dataWait" =>
         \A i \in 1..Len(Pipe) : Pipe[i].cmd = cmds => i = Len(Pipe) /\ Pipe[i].kind \notin {"payload", "publishing"})'
  BY <1>1, <1>5, <1>7
<1>14. (pc[t] \in Unsent => \A i \in 1..Len(Pipe) : Pipe[i].cmd # cmds)'
  BY DEF Unsent
<1> QED BY <1>9, <1>10, <1>11, <1>12, <1>13, <1>14 DEF PipeOf, PipeInv

(* A new request: the one before it is over, or was given up. *)
LEMMA PipeRenewed ==
    ASSUME TypeOK, NEW t \in Tasks, PipeOf(t), RxOf(t), CallOf(t), Pipe' = Pipe,
           cmds' = cmds + 1, abandoned \subseteq abandoned', cmds \in abandoned' \cup {0} \/ from = cmds,
           op'[t] \in DataOps => dataMode'.cmd = cmds', dataMode' = dataMode \/ dataMode'.cmd = cmds',
           pc'[t] # "dataWait"
    PROVE  PipeOf(t)'
<1>1. cmds \in Nat /\ cmds' \in Nat /\ cmds < cmds' /\ Own' = abandoned' \cup {cmds'} /\ dataMode.cmd \in Nat
  BY AtCmdAssumption DEF TypeOK, HistTypeOK, AtcmdTypeOK, Own, Cmds0
<1>2. \A i \in 1..Len(Pipe) : Pipe[i].cmd \in Nat \ {0} /\ Pipe[i].cmd <= cmds /\ Pipe[i].cmd # cmds'
  <2>1. \A i \in 1..Len(Pipe) : Pipe[i].cmd \in Cmds
    BY PipeType DEF TypeOK
  <2>2. \A i \in 1..Len(Pipe) : Pipe[i].cmd \in Nat \ {0}
    BY <2>1, AtCmdAssumption DEF Cmds
  <2>3. \A i \in 1..Len(Pipe) : Pipe[i].cmd <= cmds
    BY DEF PipeOf
  <2> QED BY <1>1, <2>2, <2>3
<1>3. CASE from = cmds /\ cmds # 0
  <2>1. Exhausted /\ (dataMode.cmd # 0 => Len(Pipe) = 0)
    BY <1>3 DEF RxOf, HasAnswer
  <2>2. Len(Pipe) \in Nat
    BY PipeType DEF TypeOK
  <2>3. \A i \in 1..Len(Pipe) : i = 1 /\ Pipe[i].kind \in Payloads
    BY <2>1, <2>2 DEF Exhausted
  <2>4. OwnPipe' /\ (\A i \in 1..Len(Pipe) : Pipe[i].kind \notin {"send", "publish"})'
    BY <2>3 DEF OwnPipe, Payloads
  <2> QED BY <1>1, <1>2, <2>4 DEF PipeOf, PipeInv, PipeKinds, AtEnd
<1>4. CASE cmds \in abandoned' \cup {0}
  <2>1. \A i \in 1..Len(Pipe) : Pipe[i].cmd \in Own => Pipe[i].cmd \in Own'
    BY <1>1, <1>2, <1>4 DEF Own
  <2>2. OwnPipe'
    BY <2>1 DEF PipeOf, PipeInv, OwnPipe
  <2>3. dataMode'.cmd \notin Own' \cup {0} => dataMode.cmd \notin Own \cup {0}
    BY <1>1, <1>4 DEF Own
  <2>4. (dataMode.cmd \notin Own \cup {0} => \A i \in 1..Len(Pipe) : Pipe[i].kind \notin {"send", "publish"})'
    BY <2>3 DEF PipeOf
  <2> QED BY <1>1, <1>2, <2>2, <2>4 DEF PipeOf, PipeInv, PipeKinds, AtEnd
<1>5. cmds \in abandoned' \cup {0} \/ (from = cmds /\ cmds # 0)
  OBVIOUS
<1> QED BY <1>3, <1>4, <1>5

(* Nothing received is an answer to the new request. *)
LEMMA RxRenewed ==
    ASSUME TypeOK, NEW t \in Tasks, PipeOf(t), RxOf(t), CallOf(t), UNCHANGED <<rxBffr, rawResponse, modem, from>>,
           cmds' = cmds + 1, abandoned \subseteq abandoned', cmds \in abandoned' \cup {0} \/ from = cmds,
           op'[t] \in DataOps => dataMode'.cmd = cmds', dataMode' = dataMode \/ dataMode'.cmd = cmds',
           pc'[t] # "dataWait"
    PROVE  RxOf(t)' /\ from' # cmds'
<1>1. /\ cmds \in Nat /\ cmds' \in Nat /\ cmds < cmds' /\ Own' = abandoned' \cup {cmds'} /\ dataMode.cmd \in Nat
      /\ from \in Nat /\ from <= cmds
  BY AtCmdAssumption DEF TypeOK, HistTypeOK, AtcmdTypeOK, Own, Cmds0, CallOf
<1>2. \A x \in Seen : x.cmd \in Nat \ {0} /\ x.cmd <= cmds /\ x.cmd # cmds'
  <2>1. \A x \in Seen : x.cmd \in Cmds
    BY RxFacts
  <2>2. \A x \in Seen : x.cmd \in Nat \ {0}
    BY <2>1, AtCmdAssumption DEF Cmds
  <2>3. \A x \in Seen : x.cmd <= cmds
    BY DEF RxOf
  <2> QED BY <1>1, <2>2, <2>3
<1>3. Rx' = Rx /\ Seen' = Seen /\ from' # cmds' /\ Rx \subseteq Seen
  BY <1>1 DEF Rx, Seen
<1>4. OwnRx' /\ (dataMode.cmd \notin Own \cup {0} => \A x \in Rx : x.kind # "PROMPT")'
  <2>1. CASE from = cmds /\ cmds # 0
    <3>1. Rx = {}
      BY <2>1, RxFacts DEF RxOf, HasAnswer
    <3> QED BY <1>3, <3>1 DEF OwnRx
  <2>2. CASE cmds \in abandoned' \cup {0}
    <3>1. \A x \in Rx : x.cmd \in Own => x.cmd \in Own'
      BY <1>1, <1>2, <1>3, <2>2 DEF Own
    <3>2. dataMode'.cmd \notin Own' \cup {0} => dataMode.cmd \notin Own \cup {0}
      BY <1>1, <2>2 DEF Own
    <3> QED BY <1>3, <3>1, <3>2 DEF RxOf, RxInv, OwnRx
  <2>3. cmds \in abandoned' \cup {0} \/ (from = cmds /\ cmds # 0)
    OBVIOUS
  <2> QED BY <2>1, <2>2, <2>3
<1>5. SeenKinds(t)'
  BY <1>2, <1>3 DEF SeenKinds
<1>6. LastLine(t)'
  <2>1. \A i \in 1..Len(rxBffr) : rxBffr[i].cmd # cmds'
    BY <1>2, RxFacts
  <2> QED BY <1>2, <1>3, <2>1 DEF LastLine, Final
<1>7. HasAnswer'
  BY <1>3 DEF HasAnswer
<1>8. Prompts'
  BY DEF RxOf, RxInv, Prompts
<1>9. (dataMode.cmd # 0 /\ pc[t] # "dataWait" => \A x \in Seen : ~Given(x, op[t]))'
  BY <1>2, <1>3 DEF Given
<1>10. (\A x \in Seen : x.cmd <= cmds)' /\ (pc[t] \in Unsent => \A x \in Seen : x.cmd # cmds)'
  BY <1>1, <1>2, <1>3
<1> QED BY <1>3, <1>4, <1>5, <1>6, <1>7, <1>8, <1>9, <1>10 DEF RxOf, RxInv

(* Nor is anything else of the control block from it. *)
LEMMA CallRenewed ==
    ASSUME TypeOK, NEW t \in Tasks, CallOf(t), UNCHANGED <<from, last>>,
           cmds' = cmds + 1, cmd'[t] = cmds', abandoned \subseteq abandoned', abandoned' \subseteq abandoned \cup {cmds},
           op'[t] \in DataOps => dataMode'.cmd = cmds',
           dataMode' = dataMode \/ (dataMode' = [cmd |-> cmds', skip |-> op'[t] \in SkipOps] /\ op'[t] \in DataOps),
           pc'[t] \in {"try", "lock", "reuse"}, OwnText(t)'
    PROVE  CallOf(t)'
<1>1. cmds \in Nat /\ cmds' \in Nat /\ cmds < cmds' /\ cmds <= cmds' /\ dataMode.cmd \in Nat /\ from \in Nat /\ abandoned \subseteq Nat
  BY AtCmdAssumption DEF TypeOK, HistTypeOK, AtcmdTypeOK, Cmds0
<1>2. from <= cmds /\ dataMode.cmd <= cmds /\ \A a \in abandoned : a <= cmds
  BY DEF CallOf
<1>3. from' # cmds' /\ from' <= cmds' /\ dataMode'.cmd <= cmds' /\ \A a \in abandoned' : a <= cmds'
  BY <1>1, <1>2
<1>4. Modes(t)'
  <2>1. dataMode'.cmd = cmds' => op'[t] \in DataOps /\ dataMode'.skip = (op'[t] \in SkipOps)
    <3> SUFFICES ASSUME dataMode'.cmd = cmds' PROVE op'[t] \in DataOps /\ dataMode'.skip = (op'[t] \in SkipOps)
      OBVIOUS
    <3>1. dataMode' # dataMode
      BY <1>1, <1>2
    <3> QED BY <3>1
  <2> QED BY <1>3, <2>1 DEF Modes
<1>5. OwnParser(t)' /\ Outcome(t)'
  BY <1>1 DEF OwnParser, Outcome, Reading
<1>6. Reported(t)'
  BY DEF CallOf, Reported
<1> QED BY <1>3, <1>4, <1>5, <1>6 DEF CallOf

(* The application calls. *)
LEMMA CallTraffic ==
    ASSUME TypeOK, NEW t \in Tasks, NEW o \in Ops, Traffic(t), Call(t, o) PROVE Traffic(t)'
<1>1. PipeOf(t) /\ RxOf(t) /\ CallOf(t) /\ pc[t] = "idle"
  BY DEF Traffic, Call
<1>2. /\ UNCHANGED <<rxBffr, rawResponse, modem, tx, from, abandoned, last, isOpenLocked>>
      /\ cmds' = cmds + 1 /\ cmd'[t] = cmds' /\ op'[t] = o
  BY DEF Call, NewRequest, TypeOK, HistTypeOK, CallTypeOK
<1>3. Pipe' = Pipe
  BY <1>2 DEF Pipe
<1>4. cmds \in abandoned' \cup {0} \/ from = cmds
  BY <1>1, <1>2 DEF CallOf, Outcome
<1>5. \/ dataMode' = dataMode /\ o \notin DataOps
      \/ dataMode' = [cmd |-> cmds', skip |-> o \in SkipOps] /\ o \in DataOps
  BY <1>2 DEF Call, ConfigDataMode
<1>6. \/ o \in ManualOps /\ pc'[t] = "lock"
      \/ o \notin ManualOps /\ pc'[t] = "try"
  BY DEF Call, Goto, TypeOK, CallTypeOK
<1>7. OwnText(t)'
  <2>1. isOpenLocked => \A x \in rawResponse : x.cmd \in abandoned
    BY <1>1 DEF CallOf, OwnText
  <2>2. o \in ManualOps => o \notin AutoOps
    BY OpFacts
  <2> QED BY <1>2, <1>6, <2>1, <2>2 DEF OwnText, Reading
<1>8. /\ op'[t] \in DataOps => dataMode'.cmd = cmds'
      /\ dataMode' = dataMode \/ dataMode'.cmd = cmds'
      /\ dataMode' = dataMode \/ (dataMode' = [cmd |-> cmds', skip |-> op'[t] \in SkipOps] /\ op'[t] \in DataOps)
      /\ pc'[t] \in {"try", "lock", "reuse"} /\ pc'[t] # "dataWait"
  <2>1. pc'[t] \in {"try", "lock", "reuse"} /\ pc'[t] # "dataWait"
    BY <1>6
  <2>2. CASE dataMode' = dataMode /\ o \notin DataOps
    <3>1. op'[t] \notin DataOps
      BY <1>2, <2>2
    <3>2. op'[t] \in DataOps => dataMode'.cmd = cmds'
      BY <3>1
    <3>3. dataMode' = dataMode
      BY <2>2
    <3> QED BY <2>1, <3>2, <3>3
  <2>3. CASE dataMode' = [cmd |-> cmds', skip |-> o \in SkipOps] /\ o \in DataOps
    BY <1>2, <2>1, <2>3
  <2> QED BY <1>5, <2>2, <2>3
<1>9. PipeOf(t)'
  BY <1>1, <1>2, <1>3, <1>4, <1>8, PipeRenewed
<1>10. RxOf(t)'
  BY <1>1, <1>2, <1>4, <1>8, RxRenewed
<1>11. CallOf(t)'
  BY <1>1, <1>2, <1>7, <1>8, CallRenewed
<1> QED BY <1>9, <1>10, <1>11 DEF Traffic

(* The lock is not to be had. *)
LEMMA NotInvokedTraffic ==
    ASSUME TypeOK, NEW t \in Tasks, Traffic(t), TryInvokeLocked(t) \/ LockTimeout(t) PROVE Traffic(t)'
<1>1. PipeOf(t) /\ RxOf(t) /\ CallOf(t) /\ pc[t] \in {"try", "lockYield"} /\ NotInvoked(t)
      /\ (pc[t] = "try" => isOpenLocked) /\ op[t] \in AllOps
  BY DEF Traffic, TryInvokeLocked, LockTimeout, LockIsFree, TypeOK, CallTypeOK
<1>2. UNCHANGED <<dataMode, rawResponse, rxBffr, tx, modem, op, cmds, cmd, from, resultCode>>
  BY DEF TryInvokeLocked, LockTimeout
<1>3. pc[t] \in Unsent /\ Pipe' = Pipe /\ from # cmds /\ cmds # 0 /\ cmds \in Nat
  BY <1>1, <1>2, AtCmdAssumption DEF Unsent, Pipe, CallOf, Outcome, TypeOK, HistTypeOK, Cmds0
<1>4. CASE op[t] \in UncheckedOps
  <2>1. pc'[t] = "read" /\ respParser' = Parser(op[t]) /\ UNCHANGED <<isOpenLocked, abandoned, last>>
    BY <1>1, <1>4 DEF NotInvoked, Goto, TypeOK, CallTypeOK
  <2>2. Own' = Own
    BY <1>2, <2>1 DEF Own
  <2>3. PipeOf(t)'
    BY <1>1, <1>2, <1>3, <2>1, <2>2, PipeSame DEF Unsent
  <2>4. RxOf(t)'
    BY <1>1, <1>2, <1>3, <2>1, <2>2, RxUnsent
  <2>5. OwnText(t)'
    <3>1. op[t] \in AutoOps
      BY <1>4, OpFacts
    <3>2. \A x \in rawResponse : x.cmd \in Own
      BY <1>1, <3>1 DEF CallOf, OwnText, Own
    <3> QED BY <1>2, <2>1, <2>2, <3>2 DEF OwnText
  <2>6. OwnParser(t)' /\ Outcome(t)'
    BY <1>2, <1>3, <2>1 DEF OwnParser, Outcome
  <2>7. Reported(t)' /\ Modes(t)'
    BY <1>1, <1>2, <1>3, <2>1 DEF CallOf, Reported, Modes
  <2>8. CallOf(t)'
    BY <1>1, <1>2, <1>3, <2>1, <2>5, <2>6, <2>7 DEF CallOf
  <2> QED BY <2>3, <2>4, <2>8 DEF Traffic
<1>5. CASE op[t] \notin UncheckedOps
  <2>1. /\ isOpenLocked' => isOpenLocked
        /\ abandoned' = abandoned \cup {cmd[t]} /\ respParser' = respParser
        /\ \E c \in {"undefined", "none", "conflict"} : Finish(t, c, 0)
    BY <1>1, <1>5 DEF NotInvoked, TypeOK, AtcmdTypeOK
  <2>2. /\ pc'[t] = "idle" /\ last'[t].cmd = cmd[t] /\ last'[t].code \notin {"success", "cmError"}
    BY <2>1 DEF Finish, Goto, TypeOK, CallTypeOK, HistTypeOK
  <2>3. Own' = Own /\ abandoned' = abandoned \cup {cmds} /\ cmd[t] = cmds
    BY <1>1, <1>2, <2>1 DEF Own, CallOf
  <2>4. PipeOf(t)'
    BY <1>1, <1>2, <1>3, <2>2, <2>3, PipeSame DEF Unsent
  <2>5. RxOf(t)'
    BY <1>1, <1>2, <1>3, <2>2, <2>3, RxUnsent
  <2>6. OwnText(t)'
    <3>1. isOpenLocked => \A x \in rawResponse : x.cmd \in abandoned
      BY <1>1 DEF CallOf, OwnText
    <3> QED BY <1>2, <2>1, <2>2, <3>1 DEF OwnText, Reading
  <2>7. OwnParser(t)' /\ Outcome(t)' /\ Reported(t)'
    BY <1>2, <2>2, <2>3 DEF OwnParser, Outcome, Reported, Reading
  <2>8. Modes(t)'
    BY <1>1, <1>2, <1>3, <2>2 DEF CallOf, Modes
  <2>9. CallOf(t)'
    <3>1. from' <= cmds' /\ dataMode'.cmd <= cmds' /\ cmd'[t] = cmds' /\ from' # cmds'
      BY <1>1, <1>2, <1>3, <2>3 DEF CallOf
    <3>2. \A a \in abandoned' : a <= cmds'
      BY <1>1, <1>2, <1>3, <2>3 DEF CallOf
    <3> QED BY <2>6, <2>7, <2>8, <3>1, <3>2 DEF CallOf
  <2> QED BY <2>4, <2>5, <2>9 DEF Traffic
<1> QED BY <1>4, <1>5

(* The control block is cleared for a new command. *)
LEMMA TryInvokeTraffic ==
    ASSUME TypeOK, NEW t \in Tasks, Traffic(t), TryInvoke(t) PROVE Traffic(t)'
<1>1. PipeOf(t) /\ RxOf(t) /\ CallOf(t) /\ pc[t] = "try" /\ pc[t] \in Unsent
  BY DEF Traffic, TryInvoke, Unsent
<1>2. /\ UNCHANGED <<dataMode, rxBffr, modem, op, cmds, cmd, abandoned, last>>
      /\ tx' \in Truncated /\ ~isOpenLocked' /\ rawResponse' = {} /\ from' = 0 /\ resultCode' = "none"
      /\ pc'[t] = "lock"
  BY DEF TryInvoke, Reset, Goto, TypeOK, CallTypeOK
<1>3. from # cmds /\ cmds # 0 /\ cmds \in Nat /\ Own' = Own
  BY <1>1, <1>2, AtCmdAssumption DEF CallOf, Outcome, TypeOK, HistTypeOK, Cmds0, Own
<1>4. PipeOf(t)'
  BY <1>1, <1>2, <1>3, PipeTruncated
<1>5. RxOf(t)'
  BY <1>1, <1>2, <1>3, RxUnsent
<1>6. OwnText(t)' /\ OwnParser(t)' /\ Outcome(t)'
  BY <1>2, <1>3 DEF OwnText, OwnParser, Outcome, Reading
<1>7. Modes(t)' /\ Reported(t)'
  BY <1>1, <1>2, <1>3 DEF CallOf, Modes, Reported
<1>8. CallOf(t)'
  BY <1>1, <1>2, <1>3, <1>6, <1>7 DEF CallOf
<1> QED BY <1>4, <1>5, <1>8 DEF Traffic

(* The wait for the lock, and its end. *)
LEMMA LockTraffic ==
    ASSUME TypeOK, NEW t \in Tasks, Traffic(t), TestLock(t) \/ TakeLock(t) \/ RetryLock(t) \/ ReuseLockAssert(t)
    PROVE  Traffic(t)'
<1>1. PipeOf(t) /\ RxOf(t) /\ CallOf(t) /\ pc[t] \in {"lock", "take", "lockYield", "reuse"} /\ pc[t] \in Unsent
      /\ op[t] \in AllOps
  BY DEF Traffic, TestLock, TakeLock, RetryLock, ReuseLockAssert, Unsent, TypeOK, CallTypeOK
<1>2. UNCHANGED <<dataMode, rxBffr, rawResponse, modem, tx, op, cmds, cmd, abandoned, last, from, resultCode, respParser>>
  BY DEF TestLock, TakeLock, RetryLock, ReuseLockAssert, atcmdVars, histVars
<1>3. \/ pc[t] = "lock" /\ pc'[t] \in {"take", "lockYield"} /\ isOpenLocked' = isOpenLocked
      \/ pc[t] = "lockYield" /\ pc'[t] = "lock" /\ isOpenLocked' = isOpenLocked
      \/ pc[t] = "take" /\ (IF op[t] \in ManualOps THEN pc'[t] = "reuse" ELSE pc'[t] = "send")
      \/ pc'[t] = "halt"
  BY DEF TestLock, TakeLock, RetryLock, ReuseLockAssert, atcmdVars, Goto, TypeOK, CallTypeOK
<1>4. from # cmds /\ cmds # 0 /\ cmds \in Nat /\ Own' = Own /\ Pipe' = Pipe
  BY <1>1, <1>2, AtCmdAssumption DEF CallOf, Outcome, TypeOK, HistTypeOK, Cmds0, Own, Pipe
<1>5. pc'[t] \notin Reading /\ pc'[t] \notin {"idle", "pollDelay"}
  BY <1>3 DEF Reading
<1>6. PipeOf(t)'
  BY <1>1, <1>2, <1>4, <1>5, PipeSame DEF Unsent, Reading
<1>7. RxOf(t)'
  BY <1>1, <1>2, <1>4, <1>5, RxUnsent DEF Reading
<1>8. OwnText(t)'
  <2>1. CASE op[t] \in ManualOps
    <3>1. op[t] \notin AutoOps
      BY <2>1, OpFacts
    <3> QED BY <1>1, <1>2, <1>3, <1>5, <2>1, <3>1 DEF CallOf, OwnText
  <2>2. CASE op[t] \in AutoOps
    <3>1. CASE pc'[t] = "halt"
      BY <3>1 DEF OwnText, Reading
    <3>2. CASE pc'[t] # "halt"
      <4>1. pc[t] \in {"lock", "lockYield", "take"}
        BY <1>3, <3>2
      <4>2. rawResponse' = {}
        BY <1>1, <1>2, <2>2, <4>1 DEF CallOf, OwnText
      <4> QED BY <4>2 DEF OwnText
    <3> QED BY <3>1, <3>2
  <2> QED BY <1>1, <2>1, <2>2, OpFacts
<1>9. OwnParser(t)' /\ Outcome(t)'
  BY <1>4, <1>2, <1>5 DEF OwnParser, Outcome, Reading
<1>10. Modes(t)' /\ Reported(t)'
  <2>1. Modes(t)'
    <3>1. pc'[t] # "dataWait" /\ from' # cmds'
      BY <1>2, <1>4, <1>5 DEF Reading
    <3> QED BY <1>1, <1>2, <3>1 DEF CallOf, Modes
  <2>2. Reported(t)'
    BY <1>1, <1>2, <1>5 DEF CallOf, Reported
  <2> QED BY <2>1, <2>2
<1>11. CallOf(t)'
  BY <1>1, <1>2, <1>4, <1>8, <1>9, <1>10 DEF CallOf
<1> QED BY <1>6, <1>7, <1>11 DEF Traffic

(* The command goes to the UART, or is dropped there. *)
LEMMA SendTraffic ==
    ASSUME OneCaller, LockInv1, NEW t \in Tasks, Traffic(t), Send(t) \/ InvokeReuseLock(t) PROVE Traffic(t)'
<1>1. /\ TypeOK /\ HasRequest /\ AutomaticLock(t) /\ op[t] \in AllOps
      /\ PipeOf(t) /\ RxOf(t) /\ CallOf(t) /\ pc[t] \in {"send", "reuse"} /\ pc[t] \in Unsent /\ pc'[t] = "read"
  BY DEF Traffic, LockInv1, TypeInv, CallerInv, Send, InvokeReuseLock, Unsent, Goto, TypeOK, CallTypeOK
<1>2. UNCHANGED <<dataMode, rxBffr, modem, op, cmds, cmd, abandoned, last>>
  BY DEF Send, InvokeReuseLock, histVars
<1>3. from # cmds /\ cmds # 0 /\ cmds \in Nat /\ cmds \in Cmds /\ Own' = Own /\ cmd[t] = cmds
  BY <1>1, <1>2 , AtCmdAssumption DEF CallOf, Outcome, TypeOK, HistTypeOK, HasRequest, Cmds, Own
<1>4. from' \in {from, 0} /\ rawResponse' \subseteq rawResponse
  BY DEF Send, InvokeReuseLock, Reset, histVars
<1>5. rawResponse' = {} /\ respParser' = Parser(op[t])
  <2>1. CASE Send(t)
    <3>1. pc[t] = "send" /\ op[t] \in AutoOps
      BY <1>1, <2>1 DEF Send, AutomaticLock
    <3> QED BY <1>1, <2>1, <3>1 DEF Send, CallOf, OwnText
  <2>2. CASE InvokeReuseLock(t)
    <3>1. op[t] \in ManualOps
      BY <1>1, <2>2 DEF InvokeReuseLock, AutomaticLock
    <3>2. Parser(op[t]) = "OK"
      BY <3>1 DEF ManualOps, Parser
    <3> QED BY <2>2, <3>2 DEF InvokeReuseLock, Reset
  <2> QED BY <2>1, <2>2
<1>6. PipeOf(t)'
  <2>1. CASE tx = NoTx
    <3>1. tx' = [kind |-> Order(op[t]), cmd |-> cmds]
      BY <1>3, <2>1 DEF Send, InvokeReuseLock, StartTx
    <3>2. op[t] \in DataOps => dataMode.cmd \in {0, cmds}
      BY <1>1 DEF CallOf, Modes
    <3> QED BY <1>1, <1>2, <1>3, <2>1, <3>1, <3>2, PipeSent
  <2>2. CASE tx # NoTx
    <3>1. tx' \in Truncated
      BY <2>2 DEF Send, InvokeReuseLock, StartTx, Truncated
    <3> QED BY <1>1, <1>2, <1>3, <3>1, PipeTruncated
  <2> QED BY <2>1, <2>2
<1>7. RxOf(t)'
  BY <1>1, <1>2, <1>3, <1>4, RxUnsent
<1>8. OwnText(t)' /\ OwnParser(t)' /\ Outcome(t)'
  BY <1>1, <1>2, <1>3, <1>5 DEF OwnText, OwnParser, Outcome
<1>9. Modes(t)' /\ Reported(t)'
  <2>1. from' # cmds'
    BY <1>2, <1>3, <1>4
  <2>2. Modes(t)'
    BY <1>1, <1>2, <2>1 DEF CallOf, Modes
  <2>3. Reported(t)'
    BY <1>1, <1>2 DEF CallOf, Reported
  <2> QED BY <2>2, <2>3
<1>10. from' <= cmds' /\ from' # cmds'
  BY <1>1, <1>2, <1>3, <1>4 DEF CallOf
<1>11. CallOf(t)'
  <2>1. cmd'[t] = cmds' /\ dataMode'.cmd <= cmds' /\ \A a \in abandoned' : a <= cmds'
    BY <1>1, <1>2, <1>3 DEF CallOf
  <2> QED BY <1>8, <1>9, <1>10, <2>1 DEF CallOf
<1> QED BY <1>6, <1>7, <1>11 DEF Traffic

Concluded == {"success", "cmError", "internalError", "timeout", "unknown"}

(* The end of a pass of S__readResult(). *)
LEMMA ConcludeFacts ==
    ASSUME TypeOK, NEW t \in Tasks, NEW c \in Concluded, NEW f, Conclude(t, c, f)
    PROVE  /\ pc'[t] \in {"readYield", "return"} /\ from' \in {0, f}
           /\ resultCode' \in {"success", "cmError"} => resultCode' = c /\ from' = f
<1>1. pc \in [Tasks -> PCs]
  BY DEF TypeOK, CallTypeOK
<1>2. CASE cancellationRequest
  BY <1>1, <1>2 DEF Conclude, Goto
<1>3. CASE ~cancellationRequest
  BY <1>1, <1>3 DEF Conclude, Goto, Recorded
<1> QED BY <1>2, <1>3

(* A pass of S__readResult(), whatever it found. *)
LEMMA PassTraffic ==
    ASSUME TypeOK, NEW t \in Tasks, Traffic(t), pc[t] \in {"read", "dataWait"},
           NEW c \in Concluded, NEW f \in Cmds0, Conclude(t, c, f),
           UNCHANGED <<op, cmds, cmd, abandoned, last, respParser, tx, modem>>,
           Rx' \subseteq Rx, Seen' \subseteq Seen, Prompts',
           \A i \in 1..Len(rxBffr') : ~(rxBffr'[i].cmd = cmds /\ rxBffr'[i].kind \in {"ERROR", Parser(op[t])}) \/ i = Len(rxBffr'),
           dataMode' = NoData \/ (dataMode' = dataMode /\ pc[t] = "read"),
           c \in {"success", "cmError"} => f \in Own /\ f # 0,
           c \notin {"success", "cmError"} => f = 0,
           f = cmds /\ cmds # 0 => rxBffr' = <<>> /\ Exhausted /\ (dataMode'.cmd # 0 => Len(Pipe) = 0),
           f = cmds /\ dataMode'.cmd # 0 /\ op[t] \in DataOps => c # "success"
    PROVE  Traffic(t)'
<1>1. PipeOf(t) /\ RxOf(t) /\ CallOf(t) /\ op[t] \in AllOps /\ pc[t] \in Reading /\ pc[t] \notin Unsent
  BY DEF Traffic, TypeOK, CallTypeOK, Reading, Unsent
<1>2. /\ pc'[t] \in {"readYield", "return"} /\ from' \in {0, f}
      /\ resultCode' \in {"success", "cmError"} => resultCode' = c /\ from' = f
  BY ConcludeFacts
<1>3. /\ pc'[t] \in Reading /\ pc'[t] \notin Unsent /\ pc'[t] # "dataWait" /\ pc'[t] # "idle" /\ pc'[t] # "pollDelay"
  BY <1>2 DEF Reading, Unsent
<1>4. /\ Own' = Own /\ Pipe' = Pipe /\ (Exhausted' <=> Exhausted)
      /\ dataMode'.cmd \in {0, dataMode.cmd} /\ (dataMode'.cmd # 0 => dataMode' = dataMode /\ pc[t] = "read" /\ pc[t] # "dataWait")
  <2>1. Own' = Own /\ Pipe' = Pipe
    BY DEF Own, Pipe
  <2>2. Exhausted' <=> Exhausted
    BY <2>1 DEF Exhausted
  <2> QED BY <2>1, <2>2 DEF NoData
<1>5. cmds \in Nat /\ cmds # 0
  BY <1>1, AtCmdAssumption DEF TypeOK, HistTypeOK, Cmds0, CallOf, Outcome, Reading
<1>6. PipeOf(t)'
  BY <1>1, <1>3, <1>4, PipeSame
<1>7. RxOf(t)'
  <2>1. OwnRx' /\ SeenKinds(t)'
    BY <1>1, <1>4 DEF RxOf, RxInv, OwnRx, SeenKinds
  <2>2. LastLine(t)'
    <3>1. \A x \in Seen' : Final(x, op[t])' => Final(x, op[t])
      BY DEF Final
    <3>2. \A x \in Seen' : Final(x, op[t])' => Exhausted' /\ (dataMode'.cmd # 0 => Len(Pipe') = 0)
      BY <1>1, <1>4, <3>1 DEF RxOf, RxInv, LastLine
    <3>3. (\A i \in 1..Len(rxBffr) : Final(rxBffr[i], op[t]) => i = Len(rxBffr))'
      BY DEF Final
    <3> QED BY <3>2, <3>3 DEF LastLine
  <2>3. HasAnswer'
    BY <1>2, <1>4, <1>5 DEF HasAnswer
  <2>4. (\A x \in Seen : x.cmd <= cmds)'
    BY <1>1 DEF RxOf
  <2>5. (dataMode.cmd \notin Own \cup {0} => \A x \in Rx : x.kind # "PROMPT")'
    BY <1>1, <1>4 DEF RxOf
  <2>6. (dataMode.cmd # 0 /\ pc[t] # "dataWait" => \A x \in Seen : ~Given(x, op[t]))'
    BY <1>1, <1>4 DEF RxOf, Given
  <2> QED BY <1>3, <2>1, <2>2, <2>3, <2>4, <2>5, <2>6 DEF RxOf, RxInv
<1>8. OwnText(t)'
  <2>1. \A x \in rawResponse : x.cmd \in Own
    BY <1>1 DEF CallOf, OwnText
  <2>2. \A x \in Seen : x.cmd \in Own
    BY <1>1, <2>1 DEF RxOf, RxInv, OwnRx, Seen
  <2>3. \A x \in rawResponse' : x.cmd \in Own'
    BY <1>4, <2>2 DEF Seen
  <2> QED BY <1>2, <2>3 DEF OwnText
<1>9. OwnParser(t)'
  BY <1>1 DEF CallOf, OwnParser
<1>10. Outcome(t)'
  BY <1>2, <1>3, <1>4, <1>5 DEF Outcome
<1>11. Modes(t)'
  <2>1. dataMode'.cmd # 0 /\ from' = cmds' /\ op'[t] \in DataOps => resultCode' # "success"
    BY <1>2, <1>5
  <2>2. dataMode'.cmd = cmds' /\ cmds' # 0 => op'[t] \in DataOps /\ dataMode'.skip = (op'[t] \in SkipOps)
    BY <1>1, <1>4 DEF CallOf, Modes
  <2>3. op'[t] \in DataOps => dataMode'.cmd \in {0, cmds'}
    BY <1>1, <1>4 DEF CallOf, Modes
  <2> QED BY <1>3, <2>1, <2>2, <2>3 DEF Modes
<1>12. Reported(t)'
  BY <1>1, <1>3 DEF CallOf, Reported
<1>13. CallOf(t)'
  <2>1. cmd'[t] = cmds' /\ \A a \in abandoned' : a <= cmds'
    BY <1>1 DEF CallOf
  <2>2. dataMode'.cmd <= cmds'
    BY <1>1, <1>4, <1>5 DEF CallOf
  <2>3. from' <= cmds'
    <3>1. f <= cmds
      <4>1. CASE c \in {"success", "cmError"}
        BY <1>1, <1>5, <4>1 DEF CallOf, Own
      <4>2. CASE c \notin {"success", "cmError"}
        BY <1>5, <4>2
      <4> QED BY <4>1, <4>2
    <3> QED BY <1>2, <1>5, <3>1
  <2> QED BY <1>3, <1>8, <1>9, <1>10, <1>11, <1>12, <2>1, <2>2, <2>3 DEF CallOf
<1> QED BY <1>6, <1>7, <1>13 DEF Traffic

(* The line that decides the result, when it is one of the request's own,  *)
(* is its last.                                                            *)
LEMMA SettleFacts ==
    ASSUME TypeOK, NEW t \in Tasks, Traffic(t), pc[t] \in {"read", "dataWait"},
           NEW lines \in SUBSET Seen, NEW b \in BOOLEAN, Settle(t, lines, b)
    PROVE  \E c \in Concluded : \E f \in Cmds0 :
             /\ Conclude(t, c, f)
             /\ c \in {"success", "cmError"} =>
                  \E x \in lines : /\ x.cmd = f /\ f # 0
                                   /\ f = cmds => Final(x, op[t]) /\ (c = "success" => x.kind = Parser(op[t]))
             /\ c \notin {"success", "cmError"} => f = 0
<1>1. RxOf(t) /\ CallOf(t) /\ respParser = Parser(op[t]) /\ op[t] \in AllOps
  BY DEF Traffic, CallOf, OwnParser, Reading, TypeOK, CallTypeOK
<1>2. \A x \in lines : x.cmd \in Cmds0 /\ x.cmd # 0
  <2>1. \A x \in lines : x.cmd \in Cmds
    BY RxFacts
  <2> QED BY <2>1, AtCmdAssumption, CmdsFacts DEF Cmds
<1>3. \A x \in lines : x.cmd = cmds /\ Ends(x.kind) => x.kind = Parser(op[t])
  <2> SUFFICES ASSUME NEW x \in lines, x.cmd = cmds, Ends(x.kind) PROVE x.kind = Parser(op[t])
    OBVIOUS
  <2>1. x.kind \in LineKinds(op[t])
    BY <1>1 DEF RxOf, RxInv, SeenKinds
  <2>2. x.kind = Parser(op[t]) \/ (x.kind = "SEND_OK" /\ Parser(op[t]) = "OK")
    BY <1>1 DEF Ends
  <2>3. Parser(op[t]) = "OK" => "SEND_OK" \notin LineKinds(op[t])
    BY DEF Parser, LineKinds
  <2> QED BY <2>1, <2>2, <2>3
<1>4. CASE \E x \in lines : x.kind = "ERROR" /\ Conclude(t, "cmError", x.cmd)
  <2>1. PICK x \in lines : x.kind = "ERROR" /\ Conclude(t, "cmError", x.cmd)
    BY <1>4
  <2>2. x.cmd = cmds => Final(x, op[t])
    BY <2>1 DEF Final
  <2>3. x.cmd \in Cmds0 /\ x.cmd # 0 /\ "cmError" \in Concluded
    BY <1>2 DEF Concluded
  <2> QED BY <2>1, <2>2, <2>3
<1>5. CASE \E x \in lines : Ends(x.kind) /\ Conclude(t, "success", x.cmd)
  <2>1. PICK x \in lines : Ends(x.kind) /\ Conclude(t, "success", x.cmd)
    BY <1>5
  <2>2. x.cmd = cmds => Final(x, op[t]) /\ x.kind = Parser(op[t])
    BY <1>3, <2>1 DEF Final
  <2>3. x.cmd \in Cmds0 /\ x.cmd # 0 /\ "success" \in Concluded
    BY <1>2 DEF Concluded
  <2> QED BY <2>1, <2>2, <2>3
<1>6. CASE \E c \in {"internalError", "timeout", "unknown"} : Conclude(t, c, 0)
  <2>1. PICK c \in {"internalError", "timeout", "unknown"} : Conclude(t, c, 0)
    BY <1>6
  <2>2. c \in Concluded /\ c \notin {"success", "cmError"} /\ 0 \in Cmds0
    BY CmdsFacts DEF Concluded
  <2> QED BY <2>1, <2>2
<1> QED BY <1>4, <1>5, <1>6 DEF Settle

(* A call that waits sees its own lines, or those of a request given up. *)
LEMMA SeenOwn ==
    ASSUME NEW t \in Tasks, Traffic(t), pc[t] \in Reading PROVE \A x \in Seen : x.cmd \in Own
  BY DEF Traffic, RxOf, RxInv, OwnRx, CallOf, OwnText, Seen

(* A pass that moves what was received to rawResponse and parses it. *)
LEMMA ParseTraffic ==
    ASSUME TypeOK, NEW t \in Tasks, Traffic(t), pc[t] \in {"read", "dataWait"},
           NEW b \in BOOLEAN, rawResponse' \subseteq Seen, Settle(t, rawResponse', b), rxBffr' = <<>>,
           dataMode' = NoData \/ (dataMode' = dataMode /\ pc[t] = "read"),
           UNCHANGED <<op, cmds, cmd, abandoned, last, respParser, tx, modem>>
    PROVE  Traffic(t)'
<1>1. RxOf(t) /\ CallOf(t) /\ pc[t] \in Reading
  BY DEF Traffic, Reading
<1>2. PICK c \in Concluded, f \in Cmds0 :
         /\ Conclude(t, c, f)
         /\ c \in {"success", "cmError"} =>
              \E x \in rawResponse' : /\ x.cmd = f /\ f # 0
                                      /\ f = cmds => Final(x, op[t]) /\ (c = "success" => x.kind = Parser(op[t]))
         /\ c \notin {"success", "cmError"} => f = 0
  BY SettleFacts
<1>3. Rx' = {} /\ Seen' = rawResponse'
  BY DEF Rx, Seen, LinesOf
<1>4. Prompts' /\ \A i \in 1..Len(rxBffr') : ~(rxBffr'[i].cmd = cmds /\ rxBffr'[i].kind \in {"ERROR", Parser(op[t])}) \/ i = Len(rxBffr')
  <2>1. 1..Len(rxBffr') = {}
    OBVIOUS
  <2> QED BY <2>1 DEF Prompts
<1>5. c \in {"success", "cmError"} => f \in Own /\ f # 0
  BY <1>1, <1>2, SeenOwn
<1>6. f = cmds /\ cmds # 0 => rxBffr' = <<>> /\ Exhausted /\ (dataMode'.cmd # 0 => Len(Pipe) = 0)
  <2> SUFFICES ASSUME f = cmds, cmds # 0 PROVE Exhausted /\ (dataMode'.cmd # 0 => Len(Pipe) = 0)
    OBVIOUS
  <2>1. PICK x \in Seen : Final(x, op[t])
    BY <1>2
  <2>2. Exhausted /\ (dataMode.cmd # 0 /\ pc[t] # "dataWait" => Len(Pipe) = 0)
    BY <1>1, <2>1 DEF RxOf, RxInv, LastLine
  <2> QED BY <2>2 DEF NoData
<1>7. f = cmds /\ dataMode'.cmd # 0 /\ op[t] \in DataOps => c # "success"
  <2> SUFFICES ASSUME f = cmds, dataMode'.cmd # 0, op[t] \in DataOps, c = "success" PROVE FALSE
    OBVIOUS
  <2>1. PICK x \in Seen : x.cmd = cmds /\ x.kind = Parser(op[t])
    BY <1>2
  <2>2. Given(x, op[t])
    BY <2>1 DEF Given, Parser, DataOps
  <2>3. dataMode.cmd # 0 /\ pc[t] # "dataWait"
    BY DEF NoData
  <2> QED BY <1>1, <2>2, <2>3 DEF RxOf
<1>8. Rx' \subseteq Rx /\ Seen' \subseteq Seen
  BY <1>3
<1> QED BY <1>2, <1>4, <1>5, <1>6, <1>7, <1>8, PassTraffic

(* S__readResult() reads, or the data handler gives up. *)
LEMMA ReadTraffic ==
    ASSUME TypeOK, NEW t \in Tasks, Traffic(t), ReadResult(t) \/ DataTimeout(t) PROVE Traffic(t)'
<1>1. /\ pc[t] \in {"read", "dataWait"} /\ rxBffr' = <<>> /\ rawResponse' = Seen
      /\ UNCHANGED <<op, cmds, cmd, abandoned, last, respParser, tx, modem>>
      /\ dataMode' = NoData \/ (dataMode' = dataMode /\ pc[t] = "read")
  BY DEF ReadResult, DataTimeout, Seen, Rx, ClearDataMode
<1>2. \E b \in BOOLEAN : Settle(t, rawResponse', b)
  BY DEF ReadResult, DataTimeout
<1> QED BY <1>1, <1>2, ParseTraffic

(* What a cut of the receive buffer leaves. *)
LEMMA FromFacts ==
    ASSUME TypeOK, NEW i \in 1..(Len(rxBffr) + 1)
    PROVE  /\ RxFrom(i) \in Seq(Lines) /\ Len(RxFrom(i)) = Len(rxBffr) - i + 1
           /\ \A j \in 1..Len(RxFrom(i)) : i + j - 1 \in 1..Len(rxBffr) /\ RxFrom(i)[j] = rxBffr[i + j - 1]
           /\ LinesOf(RxFrom(i)) \subseteq Rx
<1>1. rxBffr \in Seq(Lines) /\ Len(rxBffr) \in Nat
  BY RxFacts
<1>2. /\ RxFrom(i) \in Seq(Lines) /\ Len(RxFrom(i)) = Len(rxBffr) - i + 1
      /\ \A j \in 1..(Len(rxBffr) - i + 1) : RxFrom(i)[j] = rxBffr[i + j - 1]
  BY <1>1 DEF RxFrom
<1>3. \A j \in 1..Len(RxFrom(i)) : i + j - 1 \in 1..Len(rxBffr) /\ RxFrom(i)[j] = rxBffr[i + j - 1]
  BY <1>1, <1>2
<1>4. LinesOf(RxFrom(i)) \subseteq Rx
  BY <1>3, RxFacts DEF LinesOf
<1> QED BY <1>2, <1>3, <1>4

(* What is left after a cut keeps its order: a prompt and the line after it *)
(* stay together, and the last line is the last.                           *)
LEMMA CutKeeps ==
    ASSUME TypeOK, NEW t \in Tasks, RxOf(t), NEW i \in 1..(Len(rxBffr) + 1), rxBffr' = RxFrom(i),
           UNCHANGED <<cmds, op, modem>>
    PROVE  /\ Prompts' /\ Rx' \subseteq Rx
           /\ \A j \in 1..Len(rxBffr') : ~(rxBffr'[j].cmd = cmds /\ rxBffr'[j].kind \in {"ERROR", Parser(op[t])}) \/ j = Len(rxBffr')
<1>1. /\ Len(rxBffr') = Len(rxBffr) - i + 1 /\ Len(rxBffr) \in Nat
      /\ \A j \in 1..Len(rxBffr') : i + j - 1 \in 1..Len(rxBffr) /\ rxBffr'[j] = rxBffr[i + j - 1]
  BY FromFacts, RxFacts
<1>2. Rx' \subseteq Rx
  BY FromFacts DEF Rx
<1>3. Prompts'
  <2> SUFFICES ASSUME NEW j \in 1..Len(rxBffr'), rxBffr'[j].kind = "PROMPT"
               PROVE  \/ j < Len(rxBffr') /\ rxBffr'[j + 1].kind \in {"OK", "SEND_OK"} /\ rxBffr'[j + 1].cmd = rxBffr'[j].cmd
                      \/ j = Len(rxBffr') /\ modem # <<>> /\ modem[1].kind \in Inputs /\ modem[1].cmd = rxBffr'[j].cmd
    BY DEF Prompts
  <2>1. /\ i + j - 1 \in 1..Len(rxBffr) /\ rxBffr'[j] = rxBffr[i + j - 1]
        /\ i + j - 1 = Len(rxBffr) <=> j = Len(rxBffr')
        /\ i + j - 1 < Len(rxBffr) <=> j < Len(rxBffr')
    BY <1>1
  <2>2. \/ i + j - 1 < Len(rxBffr) /\ rxBffr[(i + j - 1) + 1].kind \in {"OK", "SEND_OK"} /\ rxBffr[(i + j - 1) + 1].cmd = rxBffr[i + j - 1].cmd
        \/ i + j - 1 = Len(rxBffr) /\ modem # <<>> /\ modem[1].kind \in Inputs /\ modem[1].cmd = rxBffr[i + j - 1].cmd
    BY <2>1 DEF RxOf, RxInv, Prompts
  <2>3. CASE j < Len(rxBffr')
    <3>1. j + 1 \in 1..Len(rxBffr') /\ i + (j + 1) - 1 = (i + j - 1) + 1
      BY <1>1, <2>3
    <3>2. rxBffr'[j + 1] = rxBffr[(i + j - 1) + 1]
      BY <1>1, <3>1
    <3>3. i + j - 1 # Len(rxBffr)
      BY <1>1, <2>1, <2>3
    <3> QED BY <2>1, <2>2, <2>3, <3>2, <3>3
  <2>4. CASE j = Len(rxBffr')
    <3>1. ~(i + j - 1 < Len(rxBffr))
      BY <1>1, <2>4
    <3> QED BY <2>1, <2>2, <2>4, <3>1
  <2>5. j < Len(rxBffr') \/ j = Len(rxBffr')
    <3>1. Len(rxBffr') \in Nat
      BY <1>1
    <3>2. \A a \in Nat : \A b \in 1..a : b < a \/ b = a
      OBVIOUS
    <3> QED BY <3>1, <3>2
  <2> QED BY <2>3, <2>4, <2>5
<1>4. ASSUME NEW j \in 1..Len(rxBffr'), rxBffr'[j].cmd = cmds, rxBffr'[j].kind \in {"ERROR", Parser(op[t])}
      PROVE  j = Len(rxBffr')
  <2>1. i + j - 1 \in 1..Len(rxBffr) /\ rxBffr'[j] = rxBffr[i + j - 1]
    BY <1>1
  <2>2. i + j - 1 = Len(rxBffr)
    BY <1>4, <2>1 DEF RxOf, RxInv, LastLine, Final
  <2> QED BY <1>1, <2>2
<1> QED BY <1>2, <1>3, <1>4

(* The acknowledgement of the data that is found first belongs to the      *)
(* prompt that stands before it.                                           *)
LEMMA Acknowledged ==
    ASSUME TypeOK, NEW t \in Tasks, Traffic(t), pc[t] = "dataWait", NEW i \in FirstRx({"OK", "SEND_OK"})
    PROVE  /\ i = 2 /\ i \in 1..Len(rxBffr) /\ rxBffr[1].kind = "PROMPT" /\ rxBffr[2].cmd = rxBffr[1].cmd
           /\ rxBffr[2].kind \in {"OK", "SEND_OK"}
<1>1. /\ i \in 1..Len(rxBffr) /\ rxBffr[i].kind \in {"OK", "SEND_OK"}
      /\ \A j \in 1..(i - 1) : rxBffr[j].kind \notin {"OK", "SEND_OK"}
  BY DEF FirstRx
<1>2. rxBffr # <<>> /\ rxBffr[1].kind = "PROMPT" /\ Len(rxBffr) \in Nat /\ 1 \in 1..Len(rxBffr)
  BY <1>1, RxFacts DEF Traffic, RxOf
<1>3. i # 1
  BY <1>1, <1>2
<1>4. 1 < Len(rxBffr)
  BY <1>1, <1>2, <1>3
<1>5. rxBffr[1 + 1].kind \in {"OK", "SEND_OK"} /\ rxBffr[1 + 1].cmd = rxBffr[1].cmd
  <2>1. Len(rxBffr) # 1
    <3>1. \A a \in Nat : 1 < a => a # 1
      OBVIOUS
    <3> QED BY <1>2, <1>4, <3>1
  <2> QED BY <1>2, <2>1 DEF Traffic, RxOf, RxInv, Prompts
<1>6. i = 2
  <2>1. ~(2 \in 1..(i - 1))
    BY <1>1, <1>5
  <2> QED BY <1>1, <1>2, <1>3, <2>1
<1> QED BY <1>1, <1>2, <1>5, <1>6

(* The data was sent and acknowledged. *)
LEMMA DataSentTraffic ==
    ASSUME TypeOK, NEW t \in Tasks, Traffic(t), DataSent(t) PROVE Traffic(t)'
<1>1. /\ pc[t] = "dataWait" /\ pc[t] \in {"read", "dataWait"} /\ pc[t] \in Reading /\ dataMode' = NoData
      /\ UNCHANGED <<op, cmds, cmd, abandoned, last, respParser, tx, modem>>
      /\ RxOf(t) /\ CallOf(t) /\ op[t] \in AllOps
  BY DEF DataSent, ClearDataMode, Traffic, Reading, TypeOK, CallTypeOK
<1>2. PICK i \in FirstRx({"OK", "SEND_OK"}) :
        \/ /\ dataMode.skip /\ rxBffr' = RxFrom(i + 1)
           /\ Conclude(t, "success", rxBffr[i].cmd)
           /\ UNCHANGED rawResponse
        \/ /\ rxBffr' = <<>>
           /\ rawResponse' = rawResponse \cup LinesOf(RxFrom(i + 1))
           /\ Settle(t, rawResponse \cup LinesOf(RxFrom(i + 1)), TRUE)
  BY DEF DataSent
<1>3. /\ i = 2 /\ i \in 1..Len(rxBffr) /\ rxBffr[1].kind = "PROMPT" /\ rxBffr[2].cmd = rxBffr[1].cmd
      /\ rxBffr[2].kind \in {"OK", "SEND_OK"}
  BY <1>1, Acknowledged
<1>4. Len(rxBffr) \in Nat /\ i + 1 \in 1..(Len(rxBffr) + 1) /\ 1 \in 1..Len(rxBffr) /\ 2 \in 1..Len(rxBffr)
  BY <1>3, RxFacts
<1>5. CASE /\ rxBffr' = <<>>
           /\ rawResponse' = rawResponse \cup LinesOf(RxFrom(i + 1))
           /\ Settle(t, rawResponse \cup LinesOf(RxFrom(i + 1)), TRUE)
  <2>1. rawResponse' \subseteq Seen
    BY <1>4, <1>5, FromFacts DEF Seen
  <2>2. Settle(t, rawResponse', TRUE) /\ TRUE \in BOOLEAN
    BY <1>5
  <2> QED BY <1>1, <1>5, <2>1, <2>2, ParseTraffic
<1>6. CASE /\ dataMode.skip /\ rxBffr' = RxFrom(i + 1)
           /\ Conclude(t, "success", rxBffr[i].cmd)
           /\ UNCHANGED rawResponse
  <2> DEFINE f == rxBffr[2].cmd
  <2>1. Conclude(t, "success", f) /\ "success" \in Concluded
    BY <1>3, <1>6 DEF Concluded
  <2>2. /\ Prompts' /\ Rx' \subseteq Rx
        /\ \A j \in 1..Len(rxBffr') : ~(rxBffr'[j].cmd = cmds /\ rxBffr'[j].kind \in {"ERROR", Parser(op[t])}) \/ j = Len(rxBffr')
    BY <1>1, <1>4, <1>6, CutKeeps
  <2>3. Seen' \subseteq Seen
    BY <1>6, <2>2 DEF Seen
  <2>4. rxBffr[1] \in Seen /\ rxBffr[2] \in Seen /\ rxBffr[2] \in Lines
    BY <1>4, RxFacts
  <2>5. f \in Own /\ f \in Cmds0 /\ f # 0
    <3>1. f \in Cmds
      BY <2>4, RxFacts
    <3>2. f \in Own
      BY <1>1, <2>4, SeenOwn
    <3> QED BY <3>1, <3>2, CmdsFacts, AtCmdAssumption DEF Cmds
  <2>6. ASSUME f = cmds, cmds # 0 PROVE rxBffr' = <<>> /\ Exhausted
    <3>1. rxBffr[1].cmd = cmds /\ rxBffr[1].kind \in LineKinds(op[t]) /\ rxBffr[2].kind \in LineKinds(op[t])
      BY <1>1, <1>3, <2>4, <2>6 DEF RxOf, RxInv, SeenKinds
    <3>2. op[t] \in DataOps
      BY <1>3, <3>1 DEF LineKinds, DataOps
    <3>3. dataMode.cmd = cmds
      BY <1>1, <3>2 DEF CallOf, Modes
    <3>4. op[t] \in SkipOps
      BY <1>1, <1>6, <2>6, <3>3 DEF CallOf, Modes
    <3>5. rxBffr[2].kind = "SEND_OK" /\ Parser(op[t]) = "SEND_OK"
      BY <1>3, <3>1, <3>4 DEF SkipOps, LineKinds, Parser
    <3>6. Final(rxBffr[2], op[t])
      BY <2>6, <3>5 DEF Final
    <3>7. Exhausted /\ 2 = Len(rxBffr)
      BY <1>1, <1>4, <2>4, <3>6 DEF RxOf, RxInv, LastLine
    <3>8. rxBffr' \in Seq(Lines) /\ Len(rxBffr') = 0
      <4>1. rxBffr' \in Seq(Lines) /\ Len(rxBffr') = Len(rxBffr) - (i + 1) + 1
        BY <1>4, <1>6, FromFacts
      <4> QED BY <1>3, <1>4, <3>7, <4>1
    <3>9. rxBffr' = <<>>
      BY <3>8
    <3> QED BY <3>7, <3>9
  <2>7. dataMode'.cmd = 0
    BY <1>1 DEF NoData
  <2> HIDE DEF f
  <2> QED BY <1>1, <2>1, <2>2, <2>3, <2>5, <2>6, <2>7, PassTraffic
<1> QED BY <1>2, <1>5, <1>6

(* The loop of atcmd_awaitResult() goes on or ends. *)
LEMMA ResumeAwaitTraffic ==
    ASSUME TypeOK, NEW t \in Tasks, Traffic(t), ResumeAwait(t) PROVE Traffic(t)'
<1>1. PipeOf(t) /\ RxOf(t) /\ CallOf(t) /\ pc[t] = "readYield" /\ pc[t] \in Reading
  BY DEF Traffic, ResumeAwait, Reading
<1>2. UNCHANGED <<dataMode, rxBffr, rawResponse, modem, tx, op, cmds, cmd, abandoned, last, from, resultCode, respParser, isOpenLocked>>
  BY DEF ResumeAwait, atcmdVars, histVars
<1>3. pc'[t] \in {"read", "return"}
  BY DEF ResumeAwait, Goto, TypeOK, CallTypeOK
<1>4. pc'[t] \in Reading /\ pc'[t] \notin Unsent /\ Own' = Own /\ Pipe' = Pipe
  BY <1>2, <1>3 DEF Reading, Unsent, Own, Pipe
<1>5. PipeOf(t)'
  BY <1>1, <1>2, <1>4, PipeSame
<1>6. RxOf(t)'
  BY <1>1, <1>2, <1>3, <1>4, RxSame
<1>7. OwnText(t)'
  BY <1>1, <1>2, <1>3, <1>4 DEF CallOf, OwnText
<1>8. OwnParser(t)' /\ Outcome(t)'
  BY <1>1, <1>2, <1>3, <1>4 DEF CallOf, OwnParser, Outcome
<1>9. Modes(t)' /\ Reported(t)'
  BY <1>1, <1>2, <1>3 DEF CallOf, Modes, Reported
<1>10. CallOf(t)'
  BY <1>1, <1>2, <1>4, <1>7, <1>8, <1>9 DEF CallOf
<1> QED BY <1>5, <1>6, <1>10 DEF Traffic

(* The data goes out, unless the UART is still busy. *)
LEMMA EnterTraffic ==
    ASSUME TypeOK, NEW t \in Tasks, Traffic(t), EnterDataMode(t) PROVE Traffic(t)'
<1>1. PipeOf(t) /\ RxOf(t) /\ CallOf(t) /\ pc[t] = "read" /\ pc[t] \in Reading /\ pc'[t] = "dataWait" /\ dataMode.cmd # 0
      /\ pc'[t] \in Reading /\ pc'[t] \notin Unsent
  BY DEF Traffic, EnterDataMode, DataTriggered, Reading, Unsent, Goto, TypeOK, CallTypeOK
<1>2. /\ UNCHANGED <<dataMode, rawResponse, modem, op, cmds, cmd, abandoned, last, respParser>>
      /\ from' = 0 /\ resultCode' = "none"
  BY DEF EnterDataMode
<1>3. PICK i \in FirstRx({"PROMPT"}) : rxBffr' = RxFrom(i)
  BY DEF EnterDataMode
<1>4. i \in 1..Len(rxBffr) /\ i \in 1..(Len(rxBffr) + 1) /\ Len(rxBffr) \in Nat /\ rxBffr[i].kind = "PROMPT" /\ rxBffr[i] \in Rx
  <2>1. i \in 1..Len(rxBffr) /\ rxBffr[i].kind \in {"PROMPT"}
    BY DEF FirstRx
  <2> QED BY <2>1, RxFacts
<1>5. /\ Prompts' /\ Rx' \subseteq Rx /\ Seen' \subseteq Seen
      /\ \A j \in 1..Len(rxBffr') : ~(rxBffr'[j].cmd = cmds /\ rxBffr'[j].kind \in {"ERROR", Parser(op[t])}) \/ j = Len(rxBffr')
  <2>1. /\ Prompts' /\ Rx' \subseteq Rx
        /\ \A j \in 1..Len(rxBffr') : ~(rxBffr'[j].cmd = cmds /\ rxBffr'[j].kind \in {"ERROR", Parser(op[t])}) \/ j = Len(rxBffr')
    BY <1>1, <1>2, <1>3, <1>4, CutKeeps
  <2> QED BY <1>2, <2>1 DEF Seen
<1>6. rxBffr' # <<>> /\ rxBffr'[1].kind = "PROMPT"
  <2>1. /\ rxBffr' \in Seq(Lines) /\ Len(rxBffr') = Len(rxBffr) - i + 1
        /\ \A j \in 1..Len(rxBffr') : rxBffr'[j] = rxBffr[i + j - 1]
    BY <1>3, <1>4, FromFacts
  <2>2. 1 \in 1..Len(rxBffr') /\ i + 1 - 1 = i
    BY <1>4, <2>1
  <2> QED BY <1>4, <2>1, <2>2
<1>7. /\ Own' = Own /\ cmds \in Nat /\ cmds # 0 /\ dataMode.cmd \in Own /\ dataMode.cmd \in Cmds /\ dataMode.cmd <= cmds
  <2>1. dataMode.cmd \in Own
    BY <1>1, <1>4 DEF RxOf
  <2>2. dataMode.cmd \in Cmds
    BY <1>1 DEF TypeOK, AtcmdTypeOK, Cmds0, Cmds
  <2>3. cmds \in Nat /\ cmds # 0
    BY <1>1, AtCmdAssumption DEF TypeOK, HistTypeOK, Cmds0, CallOf, Outcome, Reading
  <2> QED BY <1>1, <1>2, <2>1, <2>2, <2>3 DEF Own, CallOf
<1>8. \A j \in 1..Len(Pipe) : Pipe[j].cmd = cmds => j = Len(Pipe) /\ Pipe[j].kind \notin {"payload", "publishing"}
  BY <1>1 DEF PipeOf
<1>9. dataMode.cmd = cmds => op[t] \in DataOps
  BY <1>1, <1>7 DEF CallOf, Modes
<1>10. op[t] \in DataOps => dataMode.cmd = cmds
  BY <1>1 DEF CallOf, Modes
<1>11. PipeOf(t)' /\ Len(Pipe) \in Nat /\ (Len(Pipe) = 0 => Exhausted')
  <2>0. Len(Pipe) \in Nat
    BY PipeType DEF TypeOK
  <2>1. CASE tx # NoTx
    <3>1. Pipe' = Pipe
      BY <1>2, <2>1 DEF EnterDataMode, StartTx, Pipe
    <3>2. PipeOf(t)'
      BY <1>1, <1>2, <1>7, <3>1, PipeSame
    <3>3. Len(Pipe) = 0 => Exhausted'
      BY <3>1 DEF Exhausted
    <3> QED BY <2>0, <3>2, <3>3
  <2>2. CASE tx = NoTx
    <3> DEFINE x == [kind |-> "payload", cmd |-> dataMode.cmd]
    <3>1. x \in Sends /\ tx' = x /\ x.kind = "payload" /\ x.cmd = dataMode.cmd
      BY <1>7, <2>2 DEF Sends, EnterDataMode, StartTx
    <3> HIDE DEF x
    <3>2. /\ Len(Pipe') = Len(Pipe) + 1 /\ Pipe'[Len(Pipe) + 1] = x
          /\ \A j \in 1..Len(Pipe) : Pipe'[j] = Pipe[j]
          /\ \A j \in 1..Len(Pipe') : j \in 1..Len(Pipe) \/ j = Len(Pipe) + 1
      BY <1>2, <2>2, <3>1, GrownFacts
    <3>3. OwnPipe'
      <4> SUFFICES ASSUME NEW j \in 1..Len(Pipe') PROVE Pipe'[j].cmd \in Own \/ (j = 1 /\ Pipe'[j].kind \in Payloads)
        BY <1>7 DEF OwnPipe
      <4>1. CASE j \in 1..Len(Pipe)
        BY <1>1, <3>2, <4>1 DEF PipeOf, PipeInv, OwnPipe
      <4>2. CASE j = Len(Pipe) + 1
        BY <1>7, <3>1, <3>2, <4>2
      <4> QED BY <3>2, <4>1, <4>2
    <3>4. PipeKinds(t)'
      <4> SUFFICES ASSUME NEW j \in 1..Len(Pipe'), Pipe'[j].cmd = cmds
                   PROVE  Pipe'[j].kind \in TextKinds(op[t]) \/ (Pipe'[j].kind = "payload" /\ op[t] \in DataOps)
        BY <1>2 DEF PipeKinds
      <4>1. CASE j \in 1..Len(Pipe)
        BY <1>1, <3>2, <4>1 DEF PipeOf, PipeInv, PipeKinds
      <4>2. CASE j = Len(Pipe) + 1
        BY <1>9, <3>1, <3>2, <4>2
      <4> QED BY <3>2, <4>1, <4>2
    <3>5. AtEnd(t)'
      <4> SUFFICES ASSUME NEW j \in 1..Len(Pipe'), Pipe'[j].cmd = cmds
                   PROVE  \/ j = Len(Pipe')
                          \/ /\ Pipe'[j].kind # "payload" /\ j = Len(Pipe') - 1 /\ Pipe'[Len(Pipe')].kind = "payload"
                             /\ op[t] \in DataOps => Pipe'[Len(Pipe')].cmd = cmds
        BY <1>2 DEF AtEnd
      <4>1. CASE j \in 1..Len(Pipe)
        <5>1. j = Len(Pipe) /\ Pipe'[j].kind # "payload"
          BY <1>8, <3>2, <4>1
        <5>2. j = Len(Pipe') - 1
          BY <2>0, <3>2, <5>1
        <5> QED BY <1>10, <3>1, <3>2, <5>1, <5>2
      <4>2. CASE j = Len(Pipe) + 1
        BY <3>2, <4>2
      <4> QED BY <3>2, <4>1, <4>2
    <3>6. (\A j \in 1..Len(Pipe) : Pipe[j].cmd <= cmds)'
      <4> SUFFICES ASSUME NEW j \in 1..Len(Pipe') PROVE Pipe'[j].cmd <= cmds
        BY <1>2
      <4>1. CASE j \in 1..Len(Pipe)
        BY <1>1, <3>2, <4>1 DEF PipeOf
      <4>2. CASE j = Len(Pipe) + 1
        BY <1>7, <3>1, <3>2, <4>2
      <4> QED BY <3>2, <4>1, <4>2
    <3>7. dataMode'.cmd \in Own'
      BY <1>2, <1>7
    <3>8. PipeOf(t)'
      BY <1>1, <3>3, <3>4, <3>5, <3>6, <3>7 DEF PipeOf, PipeInv
    <3>9. Len(Pipe) = 0 => Exhausted'
      <4> SUFFICES ASSUME Len(Pipe) = 0 PROVE Exhausted'
        OBVIOUS
      <4>1. Len(Pipe') = 1 /\ Pipe'[1] = x
        BY <3>2
      <4>2. \A j \in 1..Len(Pipe') : j = 1
        BY <4>1
      <4> QED BY <3>1, <4>1, <4>2 DEF Exhausted, Payloads
    <3> QED BY <2>0, <3>8, <3>9
  <2> QED BY <2>1, <2>2
<1>12. RxOf(t)'
  <2>1. OwnRx' /\ SeenKinds(t)'
    BY <1>1, <1>2, <1>5, <1>7 DEF RxOf, RxInv, OwnRx, SeenKinds
  <2>2. LastLine(t)'
    <3>1. \A x \in Seen' : Final(x, op[t])' => Exhausted'
      <4> SUFFICES ASSUME NEW x \in Seen', Final(x, op[t])' PROVE Exhausted'
        OBVIOUS
      <4>1. Final(x, op[t]) /\ x \in Seen
        BY <1>2, <1>5 DEF Final
      <4>2. Len(Pipe) = 0
        BY <1>1, <4>1 DEF RxOf, RxInv, LastLine
      <4> QED BY <1>11, <4>2
    <3>2. (\A j \in 1..Len(rxBffr) : Final(rxBffr[j], op[t]) => j = Len(rxBffr))'
      BY <1>2, <1>5 DEF Final
    <3> QED BY <1>1, <3>1, <3>2 DEF LastLine
  <2>3. HasAnswer'
    BY <1>2, <1>7 DEF HasAnswer
  <2>4. (\A x \in Seen : x.cmd <= cmds)'
    BY <1>1, <1>2, <1>5 DEF RxOf
  <2>5. dataMode'.cmd \in Own'
    BY <1>2, <1>7
  <2> QED BY <1>1, <1>5, <1>6, <2>1, <2>2, <2>3, <2>4, <2>5 DEF RxOf, RxInv
<1>13. OwnText(t)'
  <2>1. \A x \in rawResponse' : x.cmd \in Own'
    BY <1>1, <1>2, <1>7 DEF CallOf, OwnText
  <2> QED BY <1>1, <2>1 DEF OwnText
<1>14. OwnParser(t)' /\ Outcome(t)'
  BY <1>1, <1>2, <1>7 DEF CallOf, OwnParser, Outcome
<1>15. Modes(t)' /\ Reported(t)'
  BY <1>1, <1>2 DEF CallOf, Modes, Reported
<1>16. CallOf(t)'
  <2>1. from' <= cmds'
    BY <1>2, <1>7
  <2> QED BY <1>1, <1>2, <1>13, <1>14, <1>15, <2>1 DEF CallOf
<1> QED BY <1>11, <1>12, <1>16 DEF Traffic

(* A call is over, or waits to poll again: its request was answered, or    *)
(* is given up.                                                            *)
LEMMA ReturnedTraffic ==
    ASSUME TypeOK, NEW t \in Tasks, Traffic(t), pc[t] \in {"return", "pollDelay"},
           UNCHANGED <<op, cmds, cmd, resultCode, dataMode, rawResponse, rxBffr, tx, modem, from>>,
           abandoned' = abandoned \/ abandoned' = abandoned \cup {cmds}, cmds \in abandoned' \/ from = cmds,
           pc'[t] \in {"idle", "pollDelay"},
           pc'[t] = "idle" /\ isOpenLocked' => pc[t] = "return" /\ cmds \in abandoned',
           pc'[t] = "pollDelay" => last' = last,
           pc'[t] = "idle" => last'[t].cmd = cmds,
           pc'[t] = "idle" /\ last'[t].code \in {"success", "cmError"} =>
               pc[t] = "return" /\ last'[t].code = resultCode /\ last'[t].from = from
    PROVE  Traffic(t)'
<1>1. PipeOf(t) /\ RxOf(t) /\ CallOf(t)
  BY DEF Traffic
<1>2. cmds \in Nat /\ cmds # 0 /\ Own' = Own /\ Pipe' = Pipe
  BY <1>1, AtCmdAssumption DEF TypeOK, HistTypeOK, Cmds0, CallOf, Outcome, Own, Pipe
<1>3. pc'[t] \notin Reading /\ pc'[t] \notin Unsent /\ pc'[t] # "dataWait" /\ pc[t] # "dataWait"
  BY DEF Reading, Unsent
<1>4. PipeOf(t)'
  BY <1>1, <1>2, <1>3, PipeSame
<1>5. RxOf(t)'
  BY <1>1, <1>2, <1>3, RxSame
<1>6. OwnText(t)'
  <2> SUFFICES ASSUME pc'[t] = "idle", isOpenLocked' PROVE \A x \in rawResponse : x.cmd \in abandoned'
    BY <1>3 DEF OwnText
  <2>1. pc[t] \in Reading /\ cmds \in abandoned'
    BY DEF Reading
  <2> QED BY <1>1, <2>1 DEF CallOf, OwnText, Own
<1>7. OwnParser(t)' /\ Outcome(t)'
  BY <1>2, <1>3 DEF OwnParser, Outcome
<1>8. Modes(t)'
  BY <1>1, <1>3 DEF CallOf, Modes
<1>9. Reported(t)'
  <2>1. CASE pc'[t] = "pollDelay"
    <3>1. last[t].code \in {"success", "cmError"} => last[t].from = last[t].cmd \/ last[t].from \in abandoned
      BY <1>1 DEF CallOf, Reported
    <3> QED BY <2>1, <3>1 DEF Reported
  <2>2. CASE pc'[t] = "idle" /\ last'[t].code \notin {"success", "cmError"}
    BY <2>2 DEF Reported
  <2>3. CASE pc'[t] = "idle" /\ last'[t].code \in {"success", "cmError"}
    <3>1. pc[t] = "return" /\ last'[t].code = resultCode /\ last'[t].from = from /\ last'[t].cmd = cmds
      BY <2>3
    <3>2. from \in Own
      BY <1>1, <2>3, <3>1 DEF CallOf, Outcome
    <3>3. last'[t].from = last'[t].cmd \/ last'[t].from \in abandoned'
      BY <3>1, <3>2 DEF Own
    <3>4. resultCode = "success" /\ from = cmds => dataMode.cmd # cmds
      BY <1>1, <1>2, <3>1 DEF CallOf, Modes
    <3> QED BY <3>1, <3>3, <3>4 DEF Reported
  <2> QED BY <2>1, <2>2, <2>3
<1>10. CallOf(t)'
  <2>1. cmd'[t] = cmds' /\ from' <= cmds' /\ dataMode'.cmd <= cmds'
    BY <1>1 DEF CallOf
  <2>2. \A a \in abandoned' : a <= cmds'
    BY <1>1, <1>2 DEF CallOf
  <2> QED BY <1>3, <1>6, <1>7, <1>8, <1>9, <2>1, <2>2 DEF CallOf
<1> QED BY <1>4, <1>5, <1>10 DEF Traffic

(* A sequence goes on to its next command. *)
LEMMA RenewedTraffic ==
    ASSUME TypeOK, NEW t \in Tasks, Traffic(t), op[t] \notin DataOps, NewRequest(t), pc'[t] = "reuse",
           UNCHANGED <<op, resultCode, dataMode, rawResponse, rxBffr, tx, modem, from, last>>,
           abandoned' = abandoned \/ abandoned' = abandoned \cup {cmds}, cmds \in abandoned' \cup {0} \/ from = cmds
    PROVE  Traffic(t)'
<1>1. PipeOf(t) /\ RxOf(t) /\ CallOf(t)
  BY DEF Traffic
<1>2. cmds' = cmds + 1 /\ cmd'[t] = cmds' /\ Pipe' = Pipe
  BY DEF NewRequest, TypeOK, HistTypeOK, Pipe
<1>3. op'[t] \notin DataOps /\ pc'[t] # "dataWait" /\ pc'[t] \in {"try", "lock", "reuse"}
  OBVIOUS
<1>4. OwnText(t)'
  BY DEF OwnText, Reading
<1>5. PipeOf(t)'
  BY <1>1, <1>2, <1>3, PipeRenewed
<1>6. RxOf(t)'
  BY <1>1, <1>2, <1>3, RxRenewed
<1>7. CallOf(t)'
  BY <1>1, <1>2, <1>3, <1>4, CallRenewed
<1> QED BY <1>5, <1>6, <1>7 DEF Traffic

(* What the operations do with the result. *)
LEMMA ResumeTraffic ==
    ASSUME OneCaller, LockInv1, NEW t \in Tasks, Traffic(t), Resume(t) PROVE Traffic(t)'
<1>1. TypeOK /\ CallOf(t) /\ cmd[t] = cmds /\ AutomaticLock(t)
  BY DEF LockInv1, TypeInv, CallerInv, Traffic, CallOf
<1>2. pc[t] \in {"return", "pollDelay"}
      /\ UNCHANGED <<op, resultCode, dataMode, rawResponse, rxBffr, tx, modem, from>>
  BY DEF Resume, ReturnAuto, ReturnSequence, ReturnProvider, PollProvider, AwaitReturns
<1>3. /\ abandoned' = abandoned \/ abandoned' = abandoned \cup {cmds}
      /\ cmds \in abandoned' \/ from = cmds
      /\ pc[t] = "return" /\ resultCode = "cancelled" => cmds \in abandoned'
  <2>1. CASE AwaitReturns(t)
    BY <1>1, <2>1 DEF AwaitReturns
  <2>2. CASE PollProvider(t)
    <3>1. pc[t] = "pollDelay" /\ abandoned' = abandoned
      BY <2>2 DEF PollProvider
    <3>2. cmds # 0 /\ (cmds \in abandoned \/ from = cmds)
      BY <1>1, <3>1 DEF CallOf, Outcome
    <3> QED BY <3>1, <3>2
  <2> QED BY <2>1, <2>2 DEF Resume, ReturnAuto, ReturnSequence, ReturnProvider
<1>4. pc[t] = "return" /\ pc'[t] = "idle" /\ resultCode # "cancelled" => ~isOpenLocked'
  BY CallerResume
<1>5. /\ op[t] \in ManualOps => op[t] \notin DataOps
      /\ "file_getFSInfo" \in ManualOps /\ "ntwk_awaitProvider" \in ManualOps
  BY DEF ManualOps, DataOps
<1>6. pc \in [Tasks -> PCs] /\ last \in [Tasks -> [code : Codes, cmd : Cmds0, from : Cmds0]]
  BY <1>1 DEF TypeOK, CallTypeOK, HistTypeOK
<1>7. ASSUME NEW c, NEW f, Finish(t, c, f)
      PROVE  pc'[t] = "idle" /\ last'[t].code = c /\ last'[t].cmd = cmds /\ last'[t].from = f
  BY <1>1, <1>6, <1>7 DEF Finish, Goto
<1>8. CASE ReturnAuto(t)
  <2>1. pc[t] = "return" /\ UNCHANGED <<cmds, cmd>>
    BY <1>8 DEF ReturnAuto, AwaitReturns
  <2>2. PICK c : Finish(t, c, from) /\ c \in {resultCode, "conflict"}
    BY <1>8 DEF ReturnAuto
  <2>3. pc'[t] = "idle" /\ last'[t].code = c /\ last'[t].cmd = cmds /\ last'[t].from = from
    BY <1>7, <2>2
  <2> QED BY <1>1, <1>2, <1>3, <1>4, <2>1, <2>2, <2>3, ReturnedTraffic
<1>9. CASE ReturnSequence(t)
  <2>1. pc[t] = "return" /\ op[t] = "file_getFSInfo" /\ op[t] \notin DataOps
    BY <1>5, <1>9 DEF ReturnSequence, AwaitReturns
  <2>2. CASE NewRequest(t) /\ Goto(t, "reuse") /\ last' = last
    <3>1. pc'[t] = "reuse"
      BY <1>6, <2>2 DEF Goto
    <3> QED BY <1>1, <1>2, <1>3, <2>1, <2>2, <3>1, RenewedTraffic
  <2>3. CASE Finish(t, resultCode, from) /\ UNCHANGED <<cmds, cmd>>
    <3>1. pc'[t] = "idle" /\ last'[t].code = resultCode /\ last'[t].cmd = cmds /\ last'[t].from = from
      BY <1>7, <2>3
    <3> QED BY <1>1, <1>2, <1>3, <1>4, <2>1, <2>3, <3>1, ReturnedTraffic
  <2> QED BY <1>9, <2>2, <2>3 DEF ReturnSequence
<1>10. CASE ReturnProvider(t)
  <2>1. pc[t] = "return" /\ op[t] = "ntwk_awaitProvider" /\ op[t] \notin DataOps
    BY <1>5, <1>10 DEF ReturnProvider, AwaitReturns
  <2>2. CASE NewRequest(t) /\ Goto(t, "reuse") /\ last' = last
    <3>1. pc'[t] = "reuse"
      BY <1>6, <2>2 DEF Goto
    <3> QED BY <1>1, <1>2, <1>3, <2>1, <2>2, <3>1, RenewedTraffic
  <2>3. CASE Finish(t, "none", from) /\ UNCHANGED <<cmds, cmd>>
    <3>1. pc'[t] = "idle" /\ last'[t].code = "none" /\ last'[t].cmd = cmds
      BY <1>7, <2>3
    <3> QED BY <1>1, <1>2, <1>3, <1>4, <2>1, <2>3, <3>1, ReturnedTraffic
  <2>4. CASE Goto(t, "pollDelay") /\ UNCHANGED <<last, cmds, cmd>>
    <3>1. pc'[t] = "pollDelay"
      BY <1>6, <2>4 DEF Goto
    <3> QED BY <1>1, <1>2, <1>3, <2>1, <2>4, <3>1, ReturnedTraffic
  <2> QED BY <1>10, <2>2, <2>3, <2>4 DEF ReturnProvider
<1>11. CASE PollProvider(t)
  <2>1. pc[t] = "pollDelay" /\ op[t] = "ntwk_awaitProvider" /\ op[t] \notin DataOps
    BY <1>1, <1>5, <1>11 DEF PollProvider, AutomaticLock
  <2>2. CASE NewRequest(t) /\ Goto(t, "reuse") /\ last' = last
    <3>1. pc'[t] = "reuse"
      BY <1>6, <2>2 DEF Goto
    <3> QED BY <1>1, <1>2, <1>3, <2>1, <2>2, <3>1, RenewedTraffic
  <2>3. CASE Finish(t, "none", 0) /\ isOpenLocked' = FALSE /\ UNCHANGED <<cmds, cmd>>
    <3>1. pc'[t] = "idle" /\ last'[t].code = "none" /\ last'[t].cmd = cmds
      BY <1>7, <2>3
    <3> QED BY <1>1, <1>2, <1>3, <2>1, <2>3, <3>1, ReturnedTraffic
  <2> QED BY <1>11, <2>2, <2>3 DEF PollProvider
<1> QED BY <1>8, <1>9, <1>10, <1>11 DEF Resume

(* The UART has sent a text: the module has it now. *)
LEMMA TxDoneTraffic ==
    ASSUME TypeOK, NEW t \in Tasks, Traffic(t), TxDone PROVE Traffic(t)'
<1>1. PipeOf(t) /\ RxOf(t) /\ CallOf(t) /\ SameCall /\ rxBffr' = rxBffr
  BY ModemKeeps DEF Traffic, TxDone
<1>2. modem \in Seq(Sends) /\ tx \in Sends /\ modem' = Append(modem, tx) /\ tx' = NoTx
  BY DEF TypeOK, LinkTypeOK, TxDone
<1>3. Pipe' = Pipe
  BY <1>2, JoinedSent DEF Pipe
<1>4. Exhausted => Exhausted' /\ (Len(Pipe) = 0 => Len(Pipe') = 0)
  BY <1>3 DEF Exhausted
<1>5. modem # <<>> => modem' # <<>> /\ modem'[1] = modem[1]
  <2> SUFFICES ASSUME modem # <<>> PROVE modem' # <<>> /\ modem'[1] = modem[1]
    OBVIOUS
  <2>1. 1 \in 1..Len(modem) /\ Len(modem) \in Nat
    BY <1>2, HeadTailProperties
  <2>2. modem' \in Seq(Sends) /\ Len(modem') = Len(modem) + 1 /\ modem'[1] = modem[1]
    BY <1>2, <2>1, AppendProperties
  <2>3. Len(modem') # 0
    BY <2>1, <2>2
  <2> QED BY <2>2, <2>3
<1>6. Own' = Own /\ UNCHANGED <<cmds, op, dataMode, pc>>
  BY <1>1 DEF SameCall, Own
<1>7. PipeOf(t)'
  BY <1>1, <1>3, <1>6, PipeSame
<1>8. RxOf(t)'
  BY <1>1, <1>4, <1>5, QuietKeeps
<1>9. CallOf(t)'
  BY <1>1, CallKeeps
<1> QED BY <1>7, <1>8, <1>9 DEF Traffic

(* Time, the scheduler and the application's flag touch none of it. *)
LEMMA AsideTraffic ==
    ASSUME TypeOK, NEW t \in Tasks, Traffic(t),
           Elapse \/ RequestCancel \/ (\E u \in Tasks : Switch(u)) \/ UNCHANGED vars
    PROVE  Traffic(t)'
<1>1. UNCHANGED <<cmds, cmd, op, abandoned, dataMode, pc, from, resultCode, respParser, rawResponse,
                  isOpenLocked, last, rxBffr, tx, modem>>
  BY DEF Elapse, RequestCancel, Switch, vars, atcmdVars, callVars, histVars
<1>2. PipeOf(t) /\ RxOf(t) /\ CallOf(t) /\ SameCall
  BY <1>1 DEF Traffic, SameCall
<1>3. Pipe' = Pipe /\ Own' = Own
  BY <1>1 DEF Pipe, Own
<1>4. PipeOf(t)'
  BY <1>1, <1>2, <1>3, PipeSame
<1>5. RxOf(t)'
  BY <1>1, <1>2, <1>3, RxSame
<1>6. CallOf(t)'
  BY <1>2, CallKeeps
<1> QED BY <1>4, <1>5, <1>6 DEF Traffic

-----------------------------------------------------------------------------
(* The invariant, and what follows from it.                                *)
(* Nothing was sent and nothing received at the beginning. *)
LEMMA TrafficInit == ASSUME Init, NEW t \in Tasks PROVE Traffic(t)
<1>1. /\ Pipe = <<>> /\ rxBffr = <<>> /\ Rx = {} /\ Seen = {} /\ Len(Pipe) = 0 /\ Len(rxBffr) = 0
  <2>1. rxBffr = <<>> /\ modem = <<>> /\ tx = NoTx /\ rawResponse = {}
    BY DEF Init
  <2>2. Pipe = <<>>
    <3>1. <<>> \in Seq(Sends)
      OBVIOUS
    <3> QED BY <2>1, <3>1, ConcatEmptySeq DEF Pipe, Joined
  <2>3. Rx = {} /\ Seen = {}
    BY <2>1 DEF Rx, Seen, LinesOf
  <2> QED BY <2>1, <2>2, <2>3
<1>2. \A i \in 1..Len(Pipe) : FALSE
  BY <1>1
<1>3. \A i \in 1..Len(rxBffr) : FALSE
  BY <1>1
<1>4. /\ cmds = 0 /\ cmd[t] = 0 /\ from = 0 /\ dataMode.cmd = 0 /\ abandoned = {} /\ pc[t] = "idle"
      /\ op[t] = "file_close" /\ last[t].code = "none" /\ last[t].cmd = 0 /\ ~isOpenLocked
  BY DEF Init, NoData
<1>5. PipeOf(t)
  BY <1>2, <1>4 DEF PipeOf, PipeInv, OwnPipe, PipeKinds, AtEnd, Unsent
<1>6. RxOf(t)
  BY <1>1, <1>3, <1>4 DEF RxOf, RxInv, OwnRx, SeenKinds, LastLine, Prompts, HasAnswer, Unsent
<1>7. CallOf(t)
  <2>1. Modes(t) /\ OwnText(t) /\ OwnParser(t)
    BY <1>4 DEF Modes, OwnText, OwnParser, Reading, DataOps
  <2>2. Outcome(t) /\ Reported(t)
    BY <1>4 DEF Outcome, Reported
  <2> QED BY <1>4, <2>1, <2>2 DEF CallOf, Unsent
<1> QED BY <1>5, <1>6, <1>7 DEF Traffic

(* The whole of it is kept by every step. *)
LEMMA TrafficInductive == OneCaller /\ TrafficInv /\ [Next]_vars => TrafficInv'
<1> SUFFICES ASSUME OneCaller, TrafficInv, [Next]_vars, NEW t \in Tasks PROVE Traffic(t)'
  BY CallerInductive DEF TrafficInv
<1>1. LockInv1 /\ LockInv1' /\ TypeOK /\ TypeOK' /\ Traffic(t) /\ \A u \in Tasks : u = t
  BY CallerInductive DEF TrafficInv, LockInv1, TypeInv, OneCaller
<1>2. ASSUME NEW o \in Ops, Call(t, o) PROVE Traffic(t)'
  BY <1>1, <1>2, CallTraffic
<1>3. CASE Invoke(t)
  BY <1>1, <1>3, NotInvokedTraffic, TryInvokeTraffic, LockTraffic, SendTraffic DEF Invoke
<1>4. CASE Await(t)
  BY <1>1, <1>4, ReadTraffic, EnterTraffic, DataSentTraffic, ResumeAwaitTraffic DEF Await
<1>5. CASE Resume(t)
  BY <1>1, <1>5, ResumeTraffic
<1>6. CASE ModemStep
  <2>1. PipeOf(t)' /\ RxOf(t)'
    BY <1>1, <1>6, ModemTraffic DEF Traffic
  <2>2. CallOf(t)'
    BY <1>1, <1>6, ModemKeeps, CallKeeps DEF Traffic
  <2> QED BY <2>1, <2>2 DEF Traffic
<1>7. CASE TxDone
  BY <1>1, <1>7, TxDoneTraffic
<1>8. CASE Elapse \/ RequestCancel \/ (\E u \in Tasks : Switch(u)) \/ UNCHANGED vars
  BY <1>1, <1>8, AsideTraffic
<1> QED BY <1>1, <1>2, <1>3, <1>4, <1>5, <1>6, <1>7, <1>8 DEF Next, Caller, Outside

(* What a prompt will be answered with, when the module has it already.    *)
LEMMA PromptedData ==
    ASSUME TypeOK, NEW t \in Tasks, Traffic(t), Len(modem) > 1, modem[1].kind \in Inputs
    PROVE  modem[2] = [kind |-> "payload", cmd |-> modem[1].cmd] \/ modem[1].cmd \in abandoned
<1>1. PipeOf(t)
  BY DEF Traffic
<1>2. modem \in Seq(Sends) /\ tx \in Sends \cup {NoTx} /\ Len(modem) \in Nat
  BY DEF TypeOK, LinkTypeOK
<1>3. /\ Len(Pipe) = Len(modem) + (IF tx = NoTx THEN 0 ELSE 1)
      /\ \A i \in 1..Len(modem) : Pipe[i] = modem[i]
  BY <1>2, JoinedFacts DEF Pipe
<1>4. /\ 1 \in 1..Len(Pipe) /\ 2 \in 1..Len(Pipe) /\ Len(Pipe) \in Nat /\ Len(Pipe) # 1
      /\ Pipe[1] = modem[1] /\ Pipe[2] = modem[2] /\ Pipe[2] \in Sends
  <2>1. 1 \in 1..Len(modem) /\ 2 \in 1..Len(modem)
    BY <1>2
  <2>2. Len(Pipe) \in Nat /\ Len(Pipe) >= Len(modem)
    BY <1>2, <1>3
  <2>3. 1 \in 1..Len(Pipe) /\ 2 \in 1..Len(Pipe) /\ Len(Pipe) # 1
    <3>1. \A a, b \in Nat : a > 1 /\ b >= a => 1 \in 1..b /\ 2 \in 1..b /\ b # 1
      OBVIOUS
    <3> QED BY <1>2, <2>2, <3>1
  <2>4. Pipe[1] = modem[1] /\ Pipe[2] = modem[2]
    BY <1>3, <2>1
  <2>5. modem[2] \in Sends
    BY <1>2, <2>1
  <2> QED BY <2>2, <2>3, <2>4, <2>5
<1>5. Pipe[1].kind \notin Payloads /\ Pipe[1].kind # "payload"
  BY <1>4 DEF Inputs, Payloads
<1>6. SUFFICES ASSUME Pipe[1].cmd \notin abandoned PROVE Pipe[2] = [kind |-> "payload", cmd |-> Pipe[1].cmd]
  BY <1>4
<1>7. Pipe[1].cmd = cmds
  BY <1>1, <1>4, <1>5, <1>6 DEF PipeOf, PipeInv, OwnPipe, Own
<1>8. op[t] \in DataOps
  <2>1. Pipe[1].kind \in TextKinds(op[t])
    BY <1>1, <1>4, <1>5, <1>7 DEF PipeOf, PipeInv, PipeKinds
  <2> QED BY <1>4, <2>1 DEF TextKinds, Inputs, DataOps
<1>9. 1 = Len(Pipe) - 1 /\ Pipe[Len(Pipe)].kind = "payload" /\ Pipe[Len(Pipe)].cmd = cmds
  BY <1>1, <1>4, <1>7, <1>8 DEF PipeOf, PipeInv, AtEnd
<1>10. Len(Pipe) = 2
  BY <1>4, <1>9
<1>11. Pipe[2].kind = "payload" /\ Pipe[2].cmd = Pipe[1].cmd
  BY <1>7, <1>9, <1>10
<1> QED BY <1>4, <1>11 DEF Sends

(* Theorem 6.  With one caller, a result that atcmd_awaitResult() reports  *)
(* was decided by the module's answer to that command, or by the late one  *)
(* to a request that was given up before.                                  *)
THEOREM AnswersOwn ==
    ASSUME OneCaller PROVE Spec => []AnswerIsOwn
<1>1. Init => TrafficInv
  BY CallerInit, TrafficInit DEF TrafficInv
<1>2. TrafficInv /\ [Next]_vars => TrafficInv'
  BY TrafficInductive
<1>3. TrafficInv => AnswerIsOwn
  BY DEF TrafficInv, Traffic, CallOf, Reported, AnswerIsOwn
<1> QED BY <1>1, <1>2, <1>3, PTL DEF Spec

(* Theorem 7.  With one caller, the data that answers a prompt is the one  *)
(* configured for the command that prompted, unless that was given up.     *)
THEOREM PayloadReaches ==
    ASSUME OneCaller PROVE Spec => []PayloadReachesItsCommand
<1>1. Init => TrafficInv
  BY CallerInit, TrafficInit DEF TrafficInv
<1>2. TrafficInv /\ [Next]_vars => TrafficInv'
  BY TrafficInductive
<1>3. TrafficInv => PayloadReachesItsCommand
  <2> SUFFICES ASSUME TrafficInv, Len(modem) > 1, modem[1].kind \in Inputs
               PROVE  \/ modem[2] = [kind |-> "payload", cmd |-> modem[1].cmd]
                      \/ modem[1].cmd \in abandoned
    BY DEF PayloadReachesItsCommand, Inputs
  <2>1. TypeOK /\ cpu \in Tasks /\ Traffic(cpu)
    BY DEF TrafficInv, LockInv1, TypeInv, TypeOK, CallTypeOK
  <2> QED BY <2>1, PromptedData
<1> QED BY <1>1, <1>2, <1>3, PTL DEF Spec

(* Theorem 8.  With one caller, a call that succeeded on the module's own  *)
(* answer has used up the data mode settings it made.                      *)
THEOREM DataModeEnds ==
    ASSUME OneCaller PROVE Spec => []DataModeEndsWithSuccess
<1>1. Init => TrafficInv
  BY CallerInit, TrafficInit DEF TrafficInv
<1>2. TrafficInv /\ [Next]_vars => TrafficInv'
  BY TrafficInductive
<1>3. TrafficInv => DataModeEndsWithSuccess
  BY DEF TrafficInv, Traffic, CallOf, Reported, DataModeEndsWithSuccess
<1> QED BY <1>1, <1>2, <1>3, PTL DEF Spec
=============================================================================
