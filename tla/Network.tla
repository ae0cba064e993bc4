------------------------------ MODULE Network ------------------------------
(***************************************************************************)
(* The network part of LTEmC (ltemc-network.c): ntwk_awaitProvider(), which *)
(* polls for a provider and fills the table of packet networks from two    *)
(* kinds of answers, while the network changes the contexts.  The device   *)
(* start-up ends in it (module Device); an application calls it too, and   *)
(* reads the table at any yield.                                           *)
(***************************************************************************)
EXTENDS Integers, Sequences, FiniteSetsExt, SequencesExt

CONSTANTS
    Contexts,       \* ids of packet contexts
    TableSize,      \* ntwk__pdpContextCnt
    MaxGiven,       \* bound on the addresses the network gives
    MaxCancels      \* bound on the cancellations the application asks for

ASSUME NetworkAssumption ==
    /\ IsFiniteSet(Contexts) /\ Contexts \subseteq 1..16
    /\ TableSize \in Nat \ {0} /\ MaxGiven \in Nat /\ MaxCancels \in Nat

VARIABLES
    providerName,           \* providerInfo has the name of a provider
    networks, networkCnt,   \* providerInfo
    step,                   \* where ntwk_awaitProvider() is, "off" when it is not called
    answer, ntwk,           \* its last AT+CGACT? answer; entries to go through, entry in hand
    cancellationRequest, cancels,
    active,                 \* module: contexts in use
    given                   \* module: the contexts addresses have been given to, in turn

tableVars   == <<providerName, networks, networkCnt>>
cancelVars  == <<cancellationRequest, cancels>>
contextVars == <<active, given>>
netVars == <<tableVars, step, answer, ntwk, cancelVars, contextVars>>

(* An address is the place of its giving in given. *)
Empty    == -1      \* zero-filled
ZeroIp   == 0       \* 0.0.0.0
NoEntry  == [pdpContextId |-> 0, isActive |-> FALSE, ipAddress |-> Empty]
NoAnswer == <<>>
NotAsked == [count |-> 0, at |-> 0]

NetInit ==
    /\ providerName = FALSE /\ networks = [i \in 1..TableSize |-> NoEntry] /\ networkCnt = 0
    /\ step = "off" /\ answer = NoAnswer /\ ntwk = NotAsked
    /\ cancellationRequest = FALSE /\ cancels = 0
    /\ active = {} /\ given = <<>>

-----------------------------------------------------------------------------
(* The lock is free for the only caller; what else can hold it is in       *)
(* module AtCmd.  S__clearProviderInfo() clears as many networks as the    *)
(* count says, with one row too many the memory behind the table, too;     *)
(* then the structure.                                                     *)
AwaitProvider ==
    /\ step = "clear"
    /\ providerName' = FALSE /\ networks' = [i \in 1..TableSize |-> NoEntry] /\ networkCnt' = 0
    /\ step' = "cops" /\ answer' = NoAnswer /\ ntwk' = NotAsked
    /\ UNCHANGED <<cancelVars, contextVars>>

(* AT+COPS? answered with a provider; with none, or not at all, the loop   *)
(* goes on while the wait lasts, and while a cancellation is asked for.    *)
FoundProvider(answers) ==
    /\ step = "cops" /\ answers
    /\ providerName' = TRUE /\ step' = "cgact"
    /\ UNCHANGED <<networks, networkCnt, answer, ntwk, cancelVars, contextVars>>

WaitOver == ~cancellationRequest

GiveUpProvider ==
    /\ step = "cops" /\ WaitOver
    /\ step' = "off"
    /\ UNCHANGED <<tableVars, answer, ntwk, cancelVars, contextVars>>

(* AT+CGACT?: a line for every context defined, in the order of their ids; *)
(* which are, others may change, but those in use are.                     *)
Listings ==
    {ids \in UNION {[1..n -> Contexts] : n \in 0..Cardinality(Contexts)} :
        /\ \A i, j \in DOMAIN ids : i < j => ids[i] < ids[j]
        /\ active \subseteq Range(ids)}
Lines(ids) == [i \in DOMAIN ids |-> [id |-> ids[i], isActive |-> ids[i] \in active]]

(* The number of entries the rest of the call goes through, for n lines:   *)
(* ntwkIndx stays on the last one, so without lines there still is one;    *)
(* the table full and lines left, it stands behind the table.  Mutant: the *)
(* index is advanced before the search for the next line.                  *)
EntriesAdvanced(n) == IF n > TableSize THEN TableSize + 1 ELSE n + 1
Entries(n)         == IF n > TableSize THEN TableSize + 1 ELSE IF n = 0 THEN 1 ELSE n

Filled(lines) ==
    [i \in 1..TableSize |->
        IF i <= Len(lines)
        THEN [pdpContextId |-> lines[i].id, isActive |-> lines[i].isActive, ipAddress |-> Empty]
        ELSE networks[i]]

(* When the count is written.  Mutant: with the entries, before the        *)
(* addresses are asked for.                                                *)
CountEarly(n) == n
CountLater(n) == networkCnt

QueryContexts(answers) ==
    /\ step = "cgact"
    /\ \/ /\ answers
          /\ answer' \in {Lines(ids) : ids \in Listings}
          /\ networks' = Filled(answer')
          /\ ntwk' = [count |-> Entries(Len(answer')), at |-> 1]
       \/ /\ ntwk' = [count |-> Entries(0), at |-> 1]
          /\ UNCHANGED <<answer, networks>>
    /\ networkCnt' = CountLater(ntwk'.count)
    /\ step' = "cgpaddr"
    /\ UNCHANGED <<providerName, cancelVars, contextVars>>

(* AT+CGPADDR=<id> answers with the address the context has now.  Mutant:  *)
(* asked for by position.                                                  *)
AskedByPosition(i) == i
Asked(i)           == networks[i].pdpContextId
AddressOf(c) == IF c \in active THEN Max({k \in DOMAIN given : given[k] = c}) ELSE ZeroIp
SetIp(i, ip) == networks' = [networks EXCEPT ![i].ipAddress = ip]

QueryAddress(answers) ==
    LET i == ntwk.at
    IN  /\ step = "cgpaddr" /\ i <= ntwk.count
        /\ IF i > TableSize                 \* whatever is there is read and may be written
           THEN UNCHANGED networks
           ELSE IF networks[i].isActive
           THEN \/ answers /\ Asked(i) \in Contexts /\ SetIp(i, AddressOf(Asked(i)))
                \/ UNCHANGED networks
           ELSE SetIp(i, ZeroIp)
        /\ ntwk' = [ntwk EXCEPT !.at = i + 1]
        /\ UNCHANGED <<providerName, networkCnt, step, answer, cancelVars, contextVars>>

AddressesDone ==
    /\ step = "cgpaddr" /\ ntwk.at > ntwk.count
    /\ networkCnt' = ntwk.count /\ step' = "off" /\ ntwk' = NotAsked
    /\ UNCHANGED <<providerName, networks, answer, cancelVars, contextVars>>

ProviderStep(answers) ==
    \/ AwaitProvider \/ FoundProvider(answers) \/ GiveUpProvider
    \/ QueryContexts(answers) \/ QueryAddress(answers) \/ AddressesDone

(* The network activates a context with a new address, or takes it away.   *)
ContextChanges(c) ==
    /\ step \notin {"off", "clear"}
    /\ \/ c \in active /\ active' = active \ {c} /\ UNCHANGED given
       \/ c \notin active /\ Len(given) < MaxGiven /\ active' = active \cup {c} /\ given' = Append(given, c)
    /\ UNCHANGED <<tableVars, step, answer, ntwk, cancelVars>>

(* Another task asks for cancellation and takes that back. *)
Cancel ==
    /\ step # "off" /\ ~cancellationRequest /\ cancels < MaxCancels
    /\ cancellationRequest' = TRUE /\ cancels' = cancels + 1
    /\ UNCHANGED <<tableVars, step, answer, ntwk, contextVars>>

Withdraw ==
    /\ cancellationRequest /\ cancellationRequest' = FALSE
    /\ UNCHANGED <<tableVars, step, answer, ntwk, cancels, contextVars>>

(* What the application can look up: the count, of rows in use or not; and *)
(* a pointer to the first row of a context among those counted.  With one  *)
(* counted behind the table, what is there may match.                      *)
NULL   == 0
Behind == TableSize + 1
ntwk_getActiveNetworkCount == networkCnt
ntwk_getNetworkInfo(c) ==
    LET rows == {i \in 1..TableSize : i <= networkCnt /\ networks[i].pdpContextId = c}
    IN  IF rows # {} THEN {Min(rows)}
        ELSE {NULL} \cup (IF networkCnt > TableSize THEN {Behind} ELSE {})

NetEnvironment == (\E c \in Contexts : ContextChanges(c)) \/ Cancel \/ Withdraw

-----------------------------------------------------------------------------
Entry == [pdpContextId : {0} \cup Contexts, isActive : BOOLEAN, ipAddress : Empty..MaxGiven]

NetTypeOK ==
    /\ providerName \in BOOLEAN
    /\ networks \in [1..TableSize -> Entry] /\ networkCnt \in 0..(TableSize + 1)
    /\ step \in {"off", "clear", "cops", "cgact", "cgpaddr"}
    /\ answer \in UNION {[1..n -> [id : Contexts, isActive : BOOLEAN]] : n \in 0..Cardinality(Contexts)}
    /\ ntwk \in [count : 0..(TableSize + 1), at : 0..(TableSize + 2)]
    /\ cancellationRequest \in BOOLEAN /\ cancels \in 0..MaxCancels
    /\ active \subseteq Contexts /\ Len(given) \in 0..MaxGiven /\ \A k \in DOMAIN given : given[k] \in Contexts
=============================================================================
