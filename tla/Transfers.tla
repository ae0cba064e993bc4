----------------------------- MODULE Transfers -----------------------------
(***************************************************************************)
(* What a file or a page does on its way from the receive ring to the      *)
(* application: S__filesRxHndlr() of ltemc-files.c and S__httpRxHndlr() of *)
(* ltemc-http.c, and the table of streams in which the second looks up     *)
(* whose page it is.  The interrupt adds to the ring between any two steps *)
(* of a handler.                                                           *)
(***************************************************************************)
EXTENDS Integers, Sequences, FiniteSetsExt, SequencesExt

CONSTANTS
    Capacity,   \* of the ring rxBffr
    WorkSz,     \* of the handlers' work buffers
    ByteMax,    \* the largest uint8_t
    Word,       \* the number of values of a uint16_t
    FileSizes, PageSizes,
    Lengths,    \* what a file's length may read as in uninitialized memory
    Contexts,   \* data contexts the controls are given
    Starts,     \* positions of the ring's tail when a transfer starts
    Errors,     \* results of a page: 0, or an error of the module
    Pages,      \* HTTP controls of the application
    Sockets     \* its socket controls

ASSUME TransfersAssumption ==
    /\ Capacity \in Nat \ {0} /\ WorkSz \in Nat \ {0}
    /\ ByteMax \in 1..Capacity /\ Word \in Nat \ {0} /\ Lengths \subseteq 0..(Word - 1)
    /\ Contexts \subseteq 0..3 /\ Starts \subseteq 0..(Capacity - 1)
    /\ FileSizes \cup PageSizes \subseteq Nat /\ Errors \subseteq Nat /\ 0 \in Errors
    /\ Pages \cap Sockets = {}

VARIABLES
    streams,            \* the table of streams; NoStream for NULL
    context,            \* dataCntxt of each control; -1 before its init
    wire, rx, at,       \* what the module still sends; the ring and its tail's position
    pc, handler, size, err, asker, receiver,    \* the transfer
    popCnt, readSz, trailerIndx, work,          \* locals of the handlers
    delivered, result,  \* what the application got; what the handler returned
    whole, cause, taken \* history: all was there at the start, in one piece; what went
                        \* wrong; how much was taken off as the line of CONNECT

tableVars == <<streams, context>>
ringVars  == <<wire, rx, at>>
callVars  == <<handler, size, err, asker>>
lineVars  == <<receiver, popCnt, whole, taken>>
vars == <<tableVars, ringVars, pc, callVars, lineVars, readSz, trailerIndx, work, delivered, result, cause>>

-----------------------------------------------------------------------------
(* The table of streams.                                                   *)

streamCnt == 4
Controls  == Pages \cup Sockets
NoStream  == "null"
fileCtrl  == "fileCtrl"    \* the one control for files, not in the table

(* Entries before the one looked for may be NULL; what is read through     *)
(* them may match, and then NULL is returned.                              *)
ltem_getStreamFromCntxt(cntxt, type) ==
    LET hits == {i \in DOMAIN streams : streams[i] \in type /\ context[streams[i]] = cntxt}
    IN  IF hits = {} THEN {NoStream}
        ELSE {streams[Min(hits)]} \cup {streams[i] : i \in {j \in 0..Min(hits) : streams[j] = NoStream}}

(* The initialization of a control enters it at the index of its context.  *)
(* The HTTP client clears the control's own context and does not set it.   *)
(* Contexts from streamCnt on lie behind the table: not modelled further.  *)
InitControl(c, x) ==
    /\ pc = "idle" /\ context[c] = -1
    /\ streams' = [streams EXCEPT ![x] = c]
    /\ context' = [context EXCEPT ![c] = IF c \in Pages THEN 0 ELSE x]
    /\ UNCHANGED <<ringVars, pc, callVars, lineVars, readSz, trailerIndx, work, delivered, result, cause>>

-----------------------------------------------------------------------------
(* The response and the ring.  Content is numbered; file__readTrailerSz is *)
(* the size of a file's trailer; "cr" stands for a file's length, too.     *)

Symbol(k)  == <<k, 0>>
Content(n) == [i \in 1..n |-> <<"content", i>>]
FileTrailer == [i \in 1..3 |-> Symbol(<<"eol", "OK", "eol">>[i])]
PageTrailer == [i \in 1..4 |-> Symbol(<<"eol", "OK", "eol", "eol">>[i])]
PageResult(e) == <<Symbol("+QHTTPREAD"), <<"err", e>>, Symbol("eol")>>

(* Mutant: the terminating NUL is counted, too. *)
SizeofTrailer == Len(FileTrailer) + 1
file__readTrailerSz == Len(FileTrailer)

Connect == <<Symbol("CONNECT"), Symbol("cr"), Symbol("lf")>>
Response(h, n, e) ==
    Connect \o Content(n) \o IF h = "file" THEN FileTrailer ELSE PageTrailer \o PageResult(e)

Occupied == Len(rx)
Least(a, b) == IF a < b THEN a ELSE b
NotFound == Capacity + 1     \* CBFFR_NOFIND is above any index

cbffr_find(part) ==
    LET found == {i \in 1..(Occupied + 1 - Len(part)) : SubSeq(rx, i, i + Len(part) - 1) = part}
    IN  IF found = {} THEN NotFound ELSE Min(found) - 1

(* Up to n symbols leave the ring: pop and skipTail; popBlock takes them   *)
(* only up to the end of the ring's array.                                 *)
First(n)   == SubSeq(rx, 1, Least(n, Occupied))
BlockOf(n) == First(Least(n, Capacity - at))
Take(symbols) ==
    /\ rx' = SubSeq(rx, Len(symbols) + 1, Occupied)
    /\ at' = (at + Len(symbols)) % Capacity
    /\ UNCHANGED wire
Stay == UNCHANGED ringVars

(* The interrupt puts what the module sent into the ring. *)
Receive ==
    /\ wire # <<>> /\ Occupied < Capacity
    /\ wire' = Tail(wire)
    /\ rx' = Append(rx, Head(wire))
    /\ UNCHANGED <<tableVars, at, pc, callVars, lineVars, readSz, trailerIndx, work, delivered, result, cause>>

(* file_read() and http_readPage(): the command is sent.                   *)
Ask(h, c, n, e) ==
    /\ pc = "idle"
    /\ h = "page" => context[c] # -1
    /\ handler' = h /\ size' = n /\ err' = e /\ asker' = c
    /\ wire' = Response(h, n, e) /\ rx' = <<>> /\ at' \in Starts
    /\ pc' = "connect"
    /\ UNCHANGED <<tableVars, lineVars, readSz, trailerIndx, work, delivered, result, cause>>

-----------------------------------------------------------------------------
(* The handlers.                                                           *)

End(r) == pc' = "done" /\ result' = r

(* Data mode starts as soon as CONNECT is there.  Its line ends where the  *)
(* first CR is.  The index is kept in a uint8_t, where the one for not     *)
(* found, above any index, becomes the largest: the test for it is never   *)
(* true, and a line whose end has not come ends ByteMax characters on.     *)
uint8(i) == IF i = NotFound THEN ByteMax ELSE i % (ByteMax + 1)

FindLine ==
    /\ pc = "connect" /\ cbffr_find(<<Symbol("CONNECT")>>) # NotFound
    /\ receiver' \in IF handler = "file" THEN {asker}
                     ELSE ltem_getStreamFromCntxt(context[asker], Pages)
    /\ IF receiver' = NoStream
       THEN End("assert") /\ UNCHANGED <<popCnt, whole>>
       ELSE /\ popCnt' = uint8(cbffr_find(<<Symbol("cr")>>))
            /\ whole' = (wire = <<>> /\ at + Occupied <= Capacity)
            /\ pc' = "line" /\ UNCHANGED result
    /\ UNCHANGED <<tableVars, ringVars, callVars, readSz, trailerIndx, work, delivered, cause, taken>>

(* The line and two characters more are taken off, as far as they are      *)
(* there by now; more than the work buffer holds overruns it.  A file's    *)
(* length is read behind CONNECT: it is complete with the CR, and any      *)
(* memory without.  Mutant: one character more.                            *)
TakesOne(i) == i + 1
TakesBoth(i) == i + 2

TakeLine ==
    /\ pc = "line"
    /\ LET line == First(TakesBoth(popCnt))
       IN  /\ Take(line)
           /\ taken' = Len(line)
           /\ IF Len(line) > WorkSz
              THEN End("overrun") /\ UNCHANGED readSz
              ELSE /\ readSz' \in IF handler = "page" THEN {readSz}
                                  ELSE IF Symbol("cr") \in Range(line) THEN {size % Word} ELSE Lengths
                   /\ pc' = (IF handler = "file" THEN "wait" ELSE "find") /\ UNCHANGED result
    /\ popCnt' = 0
    /\ UNCHANGED <<tableVars, callVars, receiver, trailerIndx, work, delivered, whole, cause>>

(* streamSz goes down with readSz, and never by the trailer: it is 0 only  *)
(* if their sum wraps.                                                     *)
streamSz == (readSz + file__readTrailerSz) % Word

FileSuccess ==
    /\ pc = "wait" /\ streamSz = 0
    /\ End("success")
    /\ Stay
    /\ UNCHANGED <<tableVars, callVars, lineVars, readSz, trailerIndx, work, delivered, cause>>

(* The file handler: a block of content to the application ...  Mutant: of *)
(* whatever there is.                                                      *)
AllThere  == Capacity
Requested == readSz

FileBlock ==
    /\ pc = "wait" /\ streamSz > 0 /\ Occupied > 0
    /\ LET block == BlockOf(Requested)
       IN  /\ Take(block)
           /\ delivered' = delivered \o block
           /\ readSz' = readSz - Len(block)
    /\ pc' = "trailer"
    /\ UNCHANGED <<tableVars, callVars, lineVars, trailerIndx, work, result, cause>>

(* ... and, if there is enough for a trailer, that much dropped, although  *)
(* content may be left.                                                    *)
FileSkip ==
    /\ pc = "trailer"
    /\ IF Occupied >= file__readTrailerSz
       THEN /\ Take(First(file__readTrailerSz))
            /\ cause' = IF First(file__readTrailerSz) = FileTrailer THEN cause ELSE cause \cup {"skipped"}
       ELSE Stay /\ UNCHANGED cause
    /\ pc' = "wait"
    /\ UNCHANGED <<tableVars, callVars, lineVars, readSz, trailerIndx, work, delivered, result>>

(* Nothing in the ring for file__readTimeoutMs: the way out of most files. *)
FileTimeout ==
    /\ pc = "wait" /\ streamSz > 0 /\ Occupied = 0
    /\ End("timeout")
    /\ Stay
    /\ UNCHANGED <<tableVars, callVars, lineVars, readSz, trailerIndx, work, delivered, cause>>

(* The page handler looks for the trailer; sends what is before it, or a   *)
(* block of content; and with the trailer, reads the result behind it.     *)
defaultBlockSz == Capacity \div 4

PageFind ==
    /\ pc = "find"
    /\ trailerIndx' = cbffr_find(PageTrailer)
    /\ pc' = "block"
    /\ UNCHANGED <<tableVars, ringVars, callVars, lineVars, readSz, work, delivered, result, cause>>

Before == {"cr", "lf", "content"}     \* what comes before a trailer

PageBlock ==
    /\ pc = "block"
    /\ LET reqstBlockSz == Least(trailerIndx, defaultBlockSz)
           block == BlockOf(reqstBlockSz)
       IN  IF Occupied >= reqstBlockSz
           THEN /\ Take(block)
                /\ delivered' = delivered \o block
                /\ cause' = IF \A i \in DOMAIN block : block[i][1] \in Before THEN cause ELSE cause \cup {"cut"}
           ELSE Stay /\ UNCHANGED <<delivered, cause>>
    /\ pc' = IF trailerIndx = NotFound THEN "find" ELSE "result"
    /\ UNCHANGED <<tableVars, callVars, lineVars, readSz, trailerIndx, work, result>>

(* What is left before the trailer goes into the work buffer, too.  The    *)
(* first line end there ends the page: with the number behind the          *)
(* preamble, less its first digit; one that has not come reads as 0; if    *)
(* the preamble has not, any memory is read.  Full without a line end, the *)
(* buffer is overrun.                                                      *)
ErrorRead(e) == e % 100
Results(text) ==
    LET errs == {i \in DOMAIN text : text[i][1] = "err"}
    IN  IF Symbol("+QHTTPREAD") \notin Range(text) THEN {"success", "error"}
        ELSE {IF \E i \in errs : ErrorRead(text[i][2]) # 0 THEN "error" ELSE "success"}

PageEnd ==
    /\ pc = "result"
    /\ LET popped == First(WorkSz - Len(work))
           text   == work \o popped
       IN  /\ Take(popped)
           /\ work' = text
           /\ cause' = cause \cup (IF \E i \in DOMAIN popped : popped[i][1] = "content" THEN {"swallowed"} ELSE {})
                             \cup (IF Symbol("+QHTTPREAD") \in Range(text) THEN {} ELSE {"early"})
           /\ IF Symbol("eol") \in Range(text) THEN \E r \in Results(text) : End(r)
              ELSE IF Len(text) = WorkSz       THEN End("overrun")
              ELSE pc' = "find" /\ UNCHANGED result
    /\ UNCHANGED <<tableVars, callVars, lineVars, readSz, trailerIndx, delivered>>

-----------------------------------------------------------------------------
Init ==
    /\ streams = [i \in 0..(streamCnt - 1) |-> NoStream]
    /\ context = [c \in Controls |-> -1]
    /\ wire = <<>> /\ rx = <<>> /\ at = 0
    /\ pc = "idle" /\ handler = "file" /\ size = 0 /\ err = 0 /\ asker = NoStream /\ receiver = NoStream
    /\ popCnt = 0 /\ readSz = 0 /\ trailerIndx = NotFound /\ work = <<>>
    /\ delivered = <<>> /\ result = "none"
    /\ whole = FALSE /\ cause = {} /\ taken = 0

Handler ==
    \/ FindLine \/ TakeLine
    \/ FileSuccess \/ FileBlock \/ FileSkip \/ FileTimeout
    \/ PageFind \/ PageBlock \/ PageEnd

Next ==
    \/ \E c \in Controls, x \in Contexts : InitControl(c, x)
    \/ \E n \in FileSizes : Ask("file", fileCtrl, n, 0)
    \/ \E n \in PageSizes, e \in Errors, c \in Pages : Ask("page", c, n, e)
    \/ Receive \/ Handler

(* The module sends what it announced, and a handler that can go on does.  *)
Spec == Init /\ [][Next]_vars /\ WF_vars(Receive) /\ WF_vars(Handler)

-----------------------------------------------------------------------------
(* Every variable has its type.                                            *)
TypeOK ==
    /\ \A i \in DOMAIN streams : streams[i] \in Controls \cup {NoStream}
    /\ context \in [Controls -> -1..(streamCnt - 1)]
    /\ Occupied <= Capacity /\ at \in 0..(Capacity - 1)
    /\ popCnt \in 0..ByteMax /\ taken \in 0..(ByteMax + 2)
    /\ readSz \in 0..(Word - 1)
    /\ trailerIndx \in 0..Capacity \cup {NotFound}
    /\ Len(work) <= WorkSz
    /\ result \in {"none", "success", "error", "timeout", "assert", "overrun"}

(* Unless content was dropped with a trailer that was not there, the       *)
(* application gets the response without a gap from where the line of      *)
(* CONNECT was taken off.  If that was taken off as it is, and no block    *)
(* cut a page's trailer, it gets content and nothing else.  (Taken off in  *)
(* part, its rest goes to the application first; with more, content is     *)
(* lost.)  A transfer that lay in the ring in one piece when its handler   *)
(* started, a file whose length fits a uint16_t with its trailer or a page *)
(* no longer than a block, is delivered in full, the page with its result. *)
InOrder ==
    /\ "skipped" \notin cause =>
           LET response == Response(handler, size, err)
           IN  IsPrefix(delivered, SubSeq(response, taken + 1, Len(response)))
    /\ taken = Len(Connect) /\ cause \cap {"skipped", "cut"} = {} => IsPrefix(delivered, Content(size))
Fits == IF handler = "file" THEN size + file__readTrailerSz < Word ELSE size <= defaultBlockSz
InFull ==
    pc = "done" /\ whole /\ Fits =>
        /\ delivered = Content(size)
        /\ handler = "page" => result = (IF err = 0 THEN "success" ELSE "error")

(* A page goes to the control that asked for it, unless another HTTP       *)
(* control stands before it in the table or has taken its place.           *)
ToAsker ==
    handler = "page" /\ pc \notin {"idle", "connect"} /\ receiver \notin {asker, NoStream} =>
        /\ receiver \in Pages
        /\ \A i \in DOMAIN streams : streams[i] = asker => \E j \in 0..(i - 1) : streams[j] = receiver

Delivered == InOrder /\ InFull /\ ToAsker

(* A transfer whose response comes ends, unless more or less than the line *)
(* of CONNECT was taken off or content was dropped, for a file, or a part  *)
(* of its trailer was taken off or cut, for a page.                        *)
TransferEnds ==
    pc = "connect" ~>
        \/ pc = "done"
        \/ handler = "file" /\ (taken \notin {0, Len(Connect)} \/ "skipped" \in cause)
        \/ handler = "page" /\ (taken > Len(Connect) + size \/ "cut" \in cause)
=============================================================================
