------------------------------- MODULE Parser -------------------------------
(***************************************************************************)
(* How the text of a response is judged: atcmd_stdResponseParser() and the *)
(* parsers that are built from it.                                         *)
(*                                                                         *)
(* A text is a sequence of pieces [k, v, c].  Its kind k is a line end     *)
(* ("eol"), a word, a preamble (named for the command: "QADC" stands for   *)
(* "+QADC: "), a token of value v, a delimiter, or an "item", a stretch of *)
(* text no parser looks into.  c numbers the command the piece answers,    *)
(* which the code does not know.                                           *)
(***************************************************************************)
EXTENDS Integers, Sequences, FiniteSets, FiniteSetsExt, SequencesExt

Piece(k, v, c) == [k |-> k, v |-> v, c |-> c]
Kinds(text)    == [i \in DOMAIN text |-> text[i].k]
Has(text, k)   == \E i \in DOMAIN text : text[i].k = k
Rest(text, i)  == SubSeq(text, i, Len(text))

(* The places where the kinds of part stand in text. *)
Places(text, part) ==
    {i \in 1..(Len(text) + 1 - Len(part)) : SubSeq(Kinds(text), i, i + Len(part) - 1) = part}

(* Characters of a piece: of a line end, "OK", a preamble and so on. *)
Size(k) == CASE k = "eol"       -> 2
             [] k = "OK"        -> 2
             [] k = "ERROR"     -> 5
             [] k = "CONNECT"   -> 7
             [] k = "dlm"       -> 1
             [] k = "tok"       -> 5
             [] k = "item"      -> 30
             [] k = "QADC"      -> 7
             [] k = "ICCID"     -> 8
             [] k = "QIOPEN"    -> 9
             [] k = "QCFG"      -> 14
             [] k \in {"QFWRITE", "QGPSLOC"} -> 10
             [] k \in {"QHTTPGET", "QHTTPREAD", "QSSLOPEN"} -> 11
             [] k = "QHTTPPOST" -> 12
             [] OTHER           -> 0

strlen(text)    == FoldLeft(LAMBDA n, p : n + Size(p.k), 0, text)
lengthOf(kinds) == FoldLeft(LAMBDA n, k : n + Size(k), 0, kinds)

(* The parameters of a parser: preamble ("" if none) and whether it is     *)
(* required, tokens required, index of the value, what ends the response,  *)
(* length required.                                                        *)
Std(pre, reqd, tokens, valueIndx, finale, length) ==
    [pre |-> pre, reqd |-> reqd, tokens |-> tokens, valueIndx |-> valueIndx,
     finale |-> finale, length |-> length]

ATCMD_okResponseParser     == Std("", FALSE, 0, 0, <<"OK", "eol">>, 0)
S__writeStatusParser       == Std("QFWRITE", TRUE, 0, 1, <<"eol">>, 0)
S__httpGetStatusParser     == Std("QHTTPGET", TRUE, 0, 1, <<"eol">>, 0)
S__httpPostStatusParser    == Std("QHTTPPOST", TRUE, 0, 1, <<"eol">>, 0)
gnssLocCompleteParser      == Std("QGPSLOC", TRUE, 11, 0, <<>>, 0)
S__adcValueParser          == Std("QADC", TRUE, 1, 0, <<"eol">>, 0)
S__ioValueParser           == Std("QCFG", TRUE, 1, 0, <<"eol">>, 0)
S__iccidCompleteParser     == Std("ICCID", TRUE, 0, 0, <<"eol", "eol", "OK", "eol">>, 20)
S__udptcpOpenCompleteParser == Std("QIOPEN", TRUE, 1, 1, <<>>, 0)
S__sslOpenCompleteParser   == Std("QSSLOPEN", TRUE, 1, 1, <<>>, 0)
(* Called without a delimiter, which the parser asserts to have. *)
S__contextStatusCompleteParser == Std("QIACT", FALSE, 2, 2, <<>>, 0)

-----------------------------------------------------------------------------
(* The response starts behind the line ends that come first or, if there   *)
(* is one, behind the preamble.                                            *)
PreamblePlaces(p, text) == IF p.pre = "" THEN {} ELSE Places(text, <<p.pre>>)
LineEndsFirst(text) ==
    Cardinality({i \in DOMAIN text : \A j \in 1..i : text[j].k = "eol"})
Response(p, text) ==
    Rest(text, 1 + IF PreamblePlaces(p, text) # {} THEN Min(PreamblePlaces(p, text))
                   ELSE LineEndsFirst(text))

(* Tokens are counted to the end of the text, not to what ends the         *)
(* response.                                                               *)
TokensOf(response) == 1 + Cardinality(Places(response, <<"dlm">>))

(* The numbers between the delimiters: what strtol() makes of each.        *)
TokenAt(response, n) ==
    LET at == {i \in DOMAIN response :
                  /\ i = 1 \/ response[i - 1].k = "dlm"
                  /\ Cardinality(Places(SubSeq(response, 1, i - 1), <<"dlm">>)) = n - 1}
    IN  IF \E i \in at : response[i].k = "tok"
        THEN response[CHOOSE i \in at : response[i].k = "tok"].v ELSE 0

(* An error anywhere wins.  A text too short to hold what is required is   *)
(* pending; one that is long enough and lacks the required preamble fails. *)
LengthSatisfied(p, text) ==
    /\ strlen(text) >= p.length
    /\ strlen(text) >= (IF p.reqd THEN Size(p.pre) ELSE 0) + lengthOf(p.finale)

Verdict(p, text) ==
    LET response   == Response(p, text)
        satisfied  == p.pre = "" \/ PreamblePlaces(p, text) # {}
        complete   == p.finale = <<>> \/ Places(response, p.finale) # {}
        tokens     == TokensOf(response) >= Max({p.tokens, p.valueIndx})
    IN  IF Has(text, "ERROR")                THEN "moduleError"
        ELSE IF ~LengthSatisfied(p, text)    THEN "pending"
        ELSE IF ~satisfied /\ p.reqd         THEN "preambleMissing"
        ELSE IF ~satisfied \/ ~complete      THEN "pending"
        ELSE IF ~tokens                      THEN "countShort"
        ELSE "success"

(* The value is set by a parser that has a value index, when it succeeds.  *)
ValueOf(p, text) ==
    IF Verdict(p, text) = "success" /\ p.valueIndx > 0
    THEN TokenAt(Response(p, text), p.valueIndx) ELSE 0

(* The command whose text decided: that of the error, of what ends the     *)
(* response, or of the preamble if nothing does.                           *)
Decider(p, text) ==
    LET response == Response(p, text)
    IN  IF Verdict(p, text) = "moduleError"  THEN text[Min(Places(text, <<"ERROR">>))].c
        ELSE IF Verdict(p, text) # "success" THEN 0
        ELSE IF p.finale = <<>>              THEN text[Min(PreamblePlaces(p, text))].c
        ELSE response[Min(Places(response, p.finale))].c
=============================================================================
