----------------------------- MODULE TxChannel -----------------------------
(***************************************************************************)
(* What IOP_startTx() promises its callers: texts go out on the line one   *)
(* at a time and in order.  Of each text a prefix is sent, byte after      *)
(* byte, with none skipped, repeated or mixed with another text's; a text  *)
(* is cut short only by the next one or by atcmd_reset().                  *)
(***************************************************************************)
EXTENDS Naturals

CONSTANTS Texts, MaxSize

VARIABLES
    text,   \* number of the text being sent
    size,   \* how many of its bytes are going to be sent
    out     \* the last byte on the line

Sent == IF out.text = text THEN out.n ELSE 0

Init == text = 0 /\ size = 0 /\ out = [text |-> 0, n |-> 0]

Begin == /\ text < Texts
         /\ text' = text + 1
         /\ size' \in 1..MaxSize
         /\ UNCHANGED out

SendByte == /\ Sent < size
            /\ out' = [text |-> text, n |-> Sent + 1]
            /\ UNCHANGED <<text, size>>

Cut == /\ size' \in Sent..size
       /\ UNCHANGED <<text, out>>

Next == Begin \/ SendByte \/ Cut

Spec == Init /\ [][Next]_<<text, size, out>>
=============================================================================
