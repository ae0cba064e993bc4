----------------------------- MODULE IopProofs -----------------------------
(***************************************************************************)
(* Proofs about the I/O processor: every buffer and FIFO keeps its bounds, *)
(* the ISR's assertions hold while an interrupt is served fast enough, and *)
(* the transmission path implements TxChannel.                             *)
(***************************************************************************)
EXTENDS Iop, SequenceTheorems, TLAPS

-----------------------------------------------------------------------------
(* The FIFO and the bytes written to it.                                   *)

(* Bytes(t, from, n) is n bytes of text t, numbered consecutively.         *)
LEMMA BytesAre ==
    ASSUME NEW t \in 0..MaxTexts, NEW from \in Nat, NEW n \in Nat
    PROVE  /\ Bytes(t, from, n) \in Seq(Byte)
           /\ Len(Bytes(t, from, n)) = n
           /\ \A i \in 1..n : Bytes(t, from, n)[i] = [text |-> t, n |-> from + i - 1]
<1>1. \A i \in 1..n : [text |-> t, n |-> from + i - 1] \in Byte
  BY DEF Byte
<1> QED
  BY <1>1 DEF Bytes

(* A write appends what the FIFO has space for, and never overfills it.    *)
LEMMA Written ==
    ASSUME IopAssumption, TypeOK, NEW bytes \in Seq(Byte), WriteFifo(bytes)
    PROVE  /\ txFifo' \in Seq(Byte)
           /\ Len(txFifo') = Len(txFifo) + Lesser(Len(bytes), Spaces)
           /\ Len(txFifo') <= FifoSize
           /\ thr' \in BOOLEAN
           /\ \A i \in 1..Len(txFifo') :
                txFifo'[i] = IF i <= Len(txFifo) THEN txFifo[i] ELSE bytes[i - Len(txFifo)]
<1> DEFINE k == Lesser(Len(bytes), Spaces)
<1>1. FifoSize \in Nat /\ txFifo \in Seq(Byte) /\ Len(txFifo) \in Nat /\ Len(txFifo) <= FifoSize
      /\ Len(bytes) \in Nat
  BY DEF IopAssumption, TypeOK
<1>2. k \in Nat /\ k <= Len(bytes) /\ k <= FifoSize - Len(txFifo)
  BY <1>1 DEF Lesser, Spaces
<1>3. \A i \in 1..k : bytes[i] \in Byte
  BY <1>1, <1>2, ElementOfSeq
<1>4. /\ SubSeq(bytes, 1, k) \in Seq(Byte)
      /\ Len(SubSeq(bytes, 1, k)) = k
      /\ \A i \in 1..k : SubSeq(bytes, 1, k)[i] = bytes[i]
  BY <1>2, <1>3, SubSeqProperties
<1>5. txFifo' = txFifo \o SubSeq(bytes, 1, k) /\ thr' = (thr /\ bytes = <<>>)
  BY DEF WriteFifo
<1>6. thr' \in BOOLEAN
  BY <1>5
<1> HIDE DEF k
<1>7. /\ txFifo' \in Seq(Byte)
      /\ Len(txFifo') = Len(txFifo) + k
      /\ \A i \in 1..Len(txFifo) + k :
           txFifo'[i] = IF i <= Len(txFifo) THEN txFifo[i] ELSE SubSeq(bytes, 1, k)[i - Len(txFifo)]
  BY <1>1, <1>4, <1>5, ConcatProperties
<1>8. \A i \in 1..Len(txFifo') :
         txFifo'[i] = IF i <= Len(txFifo) THEN txFifo[i] ELSE bytes[i - Len(txFifo)]
  BY <1>1, <1>2, <1>4, <1>7
<1> QED
  BY <1>1, <1>2, <1>6, <1>7, <1>8 DEF k

(* Head and tail of a FIFO that is not empty.                              *)
LEMMA Taken ==
    ASSUME IopAssumption, TypeOK, txFifo # <<>>
    PROVE  /\ Head(txFifo) = txFifo[1] /\ txFifo[1] \in Byte
           /\ Tail(txFifo) \in Seq(Byte)
           /\ Len(Tail(txFifo)) = Len(txFifo) - 1 /\ Len(txFifo) > 0
           /\ \A i \in 1..(Len(txFifo) - 1) : Tail(txFifo)[i] = txFifo[i + 1]
<1>1. txFifo \in Seq(Byte) /\ Len(txFifo) \in Nat \ {0}
  BY EmptySeq DEF TypeOK
<1>2. Head(txFifo) = txFifo[1] /\ txFifo[1] \in Byte
  BY <1>1, ElementOfSeq
<1> QED
  BY <1>1, <1>2, HeadTailProperties

(* Going forward in a text.                                                *)
LEMMA Advanced ==
    ASSUME NEW b \in Byte, NEW k \in Nat
    PROVE  /\ [b EXCEPT !.n = @ + k] \in Byte
           /\ [b EXCEPT !.n = @ + k] = [text |-> b.text, n |-> b.n + k]
<1>1. b.text \in 0..MaxTexts /\ b.n \in Nat /\ b = [text |-> b.text, n |-> b.n]
  BY DEF Byte
<1>2. b.n + k \in Nat
  BY <1>1
<1>3. [b EXCEPT !.n = @ + k] = [text |-> b.text, n |-> b.n + k]
  BY <1>1
<1> QED
  BY <1>1, <1>2, <1>3 DEF Byte

-----------------------------------------------------------------------------
(* The inductive invariants.                                               *)

(* The foreground has checked the bound on texts and holds a size it was   *)
(* called with.                                                            *)
Called == /\ fpc \in {"level", "set", "force"} => text < MaxTexts
          /\ fpc \in {"level", "set"} => sendSz \in Sizes
TypeInv == TypeOK /\ Called

(* An interrupt that nobody serves yet has been seen; a receive FIFO at    *)
(* the trigger level interrupts.  So the FIFO goes beyond that level only  *)
(* by what arrives while an interrupt is served.                           *)
Noticed    == Low => irqEdge \/ ipc # "off"
AtTrigger  == rxFifo >= Trigger => rxIrq
BeyondOnlyInIsr == rxFifo <= Trigger + chars

(* When its blocks are done the ISR has emptied the FIFO, or filled the    *)
(* ring; when it goes for a second block it stands at the start of the     *)
(* array, or has filled the ring.                                          *)
BlocksEmpty == /\ ipc = "rxBlock2" => head = 0 \/ occupied = RingSize
               /\ ipc = "rxDone" => rxFifo <= chars \/ occupied = RingSize
NoError == ~lineError /\ iir # "error"

(* The time an interrupt may take: no more characters than the FIFO has    *)
(* space for above the trigger level, and fewer than the level at which    *)
(* the ISR asserts.                                                        *)
FastEnough == Trigger + IsrChars <= FifoSize /\ IsrChars < FifoSize \div 4

HaltInv == TypeInv /\ Noticed /\ AtTrigger /\ BeyondOnlyInIsr /\ BlocksEmpty /\ NoError /\ NoAssert

(* The FIFO holds consecutive bytes of the current text, txBffr points     *)
(* behind what was given to it, and while IOP_startTx() has a text in its  *)
(* hands the ISR does not send.                                            *)
Sent == IF out.text = text THEN out.n ELSE 0
InHand == IF fpc = "write" THEN immediateSz ELSE 0
Consecutive == \A i \in 1..Len(txFifo) : txFifo[i] = [text |-> text, n |-> Sent + i]
Position == txBffr = [text |-> text, n |-> Sent + Len(txFifo) + InHand + 1]
Fresh == fpc \in {"advance", "write"} => out.text < text
Undisturbed == fpc \in {"set", "advance", "write"} =>
                 txFifo = <<>> /\ ~thr /\ ipc # "tx" /\ ~(ipc = "levels" /\ iir = "thr")
OrderInv == /\ TypeInv /\ Noticed /\ out.text <= text /\ fpc # "force"
            /\ Consecutive /\ Position /\ Fresh /\ Undisturbed

-----------------------------------------------------------------------------
(* Type correctness: no FIFO, ring or counter leaves its bounds, whatever  *)
(* the sizes, and whether or not IOP_forceTx() is used.                    *)
LEMMA InitTyped == IopAssumption /\ Init => TypeInv
<1> SUFFICES ASSUME IopAssumption, Init PROVE TypeInv
  OBVIOUS
<1>1. txFifo \in Seq(Byte) /\ Len(txFifo) <= FifoSize
  BY EmptySeq DEF Init, IopAssumption
<1>2. txBffr \in Byte /\ out \in Byte
  BY DEF Init, Byte, IopAssumption
<1>3. /\ 0 \in Nat /\ 0 \in 0..(RingSize - 1) /\ 0 \in 0..RingSize /\ 0 \in 0..FifoSize
      /\ 0 \in 0..PollLimit /\ 0 \in 0..MaxTexts /\ 0 \in 0..MaxRx /\ 0 \in 0..IsrChars
  BY DEF IopAssumption
<1> QED
  BY <1>1, <1>2, <1>3 DEF Init, TypeInv, TypeOK, Called

LEMMA UartTyped == IopAssumption /\ TypeInv /\ Uart => TypeInv'
<1> SUFFICES ASSUME IopAssumption, TypeInv, Uart PROVE TypeInv'
  OBVIOUS
<1> USE DEF TypeInv
<1>1. CASE UartSend
  <2>1. txFifo' \in Seq(Byte) /\ Len(txFifo') <= FifoSize /\ out' \in Byte
    BY <1>1, Taken DEF UartSend, TypeOK, IopAssumption
  <2>2. chars' \in 0..IsrChars
    BY <1>1 DEF UartSend, InTime, TypeOK, IopAssumption
  <2>3. thr' \in BOOLEAN /\ irqEdge' \in BOOLEAN
    BY <1>1 DEF UartSend, RaiseIrq, Low, TypeOK
  <2> QED
    BY <1>1, <2>1, <2>2, <2>3 DEF UartSend, TypeOK, Called, fgVars, txVars, rxVars, isrVars
<1>2. CASE UartReceive
  <2>1. chars' \in 0..IsrChars /\ rxFifo' \in 0..FifoSize /\ received' \in 0..MaxRx
    BY <1>2 DEF UartReceive, InTime, Lesser, TypeOK, IopAssumption
  <2>2. lineError' \in BOOLEAN /\ rxIrq' \in BOOLEAN
    BY <1>2 DEF UartReceive, TypeOK
  <2>3. irqEdge' \in BOOLEAN
    BY <1>2 DEF UartReceive, RaiseIrq, Low, TypeOK
  <2> QED
    BY <1>2, <2>1, <2>2, <2>3 DEF UartReceive, TypeOK, Called, fgVars, txVars, rxVars, isrVars
<1>3. CASE UartTimeout
  <2>1. irqEdge' \in BOOLEAN
    BY <1>3 DEF UartTimeout, RaiseIrq, Low, TypeOK
  <2> QED
    BY <1>3, <2>1 DEF UartTimeout, TypeOK, Called, fgVars, txVars, rxVars, isrVars, histVars
<1> QED BY <1>1, <1>2, <1>3 DEF Uart

LEMMA ForegroundTyped ==
    IopAssumption /\ TypeInv /\ (Caller \/ StartTx \/ ForceTxWrite \/ Consume) => TypeInv'
<1> SUFFICES ASSUME IopAssumption, TypeInv, Caller \/ StartTx \/ ForceTxWrite \/ Consume PROVE TypeInv'
  OBVIOUS
<1> USE DEF TypeInv
<1>1. ASSUME NEW n \in Sizes, NEW reset \in BOOLEAN, Send(n, reset) PROVE TypeInv'
  BY <1>1 DEF Send, Foreground, TypeOK, Called, IopAssumption, rxVars, isrVars, uartVars, histVars
<1>2. ASSUME NEW n \in Sizes, ForceTxFlush(n) PROVE TypeInv'
  <2>1. txFifo' = <<>> /\ txFifo' \in Seq(Byte) /\ Len(txFifo') <= FifoSize
    BY <1>2, EmptySeq DEF ForceTxFlush, IopAssumption
  <2>2. thr' \in BOOLEAN /\ irqEdge' \in BOOLEAN
    BY <1>2 DEF ForceTxFlush, RaiseIrq, Low, TypeOK
  <2> QED
    BY <1>2, <2>1, <2>2 DEF ForceTxFlush, Foreground, TypeOK, Called, txVars, rxVars, isrVars, histVars
<1>3. CASE StartTxLevel
  BY <1>3 DEF StartTxLevel, Foreground, TypeOK, Called, txVars, rxVars, isrVars, uartVars, histVars
<1>4. CASE StartTxSet
  <2>1. text < MaxTexts /\ sendSz \in Sizes /\ text + 1 \in 0..MaxTexts /\ sendSz \in Nat
    BY <1>4 DEF StartTxSet, Foreground, Called, TypeOK, IopAssumption
  <2>2. txBffr' \in Byte /\ txPending' \in Nat /\ text' \in 0..MaxTexts /\ size' \in Nat
    BY <1>4, <2>1 DEF StartTxSet, Byte
  <2> QED
    BY <1>4, <2>2 DEF StartTxSet, Foreground, TypeOK, Called, rxVars, isrVars, uartVars
<1>5. CASE StartTxAdvance
  <2> DEFINE k == Lesser(txPending, FifoSize)
  <2>0. txPending \in Nat /\ FifoSize \in Nat /\ txBffr.text \in 0..MaxTexts /\ txBffr.n \in Nat
    BY DEF TypeOK, Byte, IopAssumption
  <2>1. k \in Nat /\ k <= txPending /\ k <= FifoSize
    BY <2>0 DEF Lesser
  <2>2. immediateSz' \in 0..FifoSize /\ txPending' \in Nat
    <3>1. immediateSz' = k /\ txPending' = txPending - immediateSz'
      BY <1>5 DEF StartTxAdvance, Immediately
    <3> HIDE DEF k
    <3> QED BY <2>0, <2>1, <3>1
  <2>3. txBffr' \in Byte
    <3>1. txBffr' = [txBffr EXCEPT !.n = @ + immediateSz'] /\ txBffr \in Byte /\ immediateSz' \in Nat
      BY <1>5, <2>0, <2>2 DEF StartTxAdvance, TypeOK
    <3> QED BY <3>1, Advanced
  <2> QED
    BY <1>5, <2>2, <2>3 DEF StartTxAdvance, Foreground, TypeOK, Called, rxVars, isrVars, uartVars, histVars
<1>6. CASE StartTxWrite
  <2>0. text \in 0..MaxTexts /\ immediateSz \in Nat
    BY DEF TypeOK, IopAssumption
  <2>1. Bytes(text, 1, immediateSz) \in Seq(Byte)
    BY <2>0, BytesAre
  <2>2. txFifo' \in Seq(Byte) /\ Len(txFifo') <= FifoSize /\ thr' \in BOOLEAN
    BY <1>6, <2>1, Written DEF StartTxWrite
  <2> QED
    BY <1>6, <2>2 DEF StartTxWrite, Foreground, TypeOK, Called, txVars, rxVars, isrVars, histVars
<1>7. CASE ForceTxWrite
  <2>1. text + 1 \in 0..MaxTexts
    BY <1>7 DEF ForceTxWrite, Foreground, Called, TypeOK, IopAssumption
  <2>2. Bytes(text + 1, 1, FifoSize) \in Seq(Byte)
    BY <2>1, BytesAre DEF IopAssumption
  <2>3. txFifo' \in Seq(Byte) /\ Len(txFifo') <= FifoSize /\ thr' \in BOOLEAN
    BY <1>7, <2>2, Written DEF ForceTxWrite
  <2>4. text' \in 0..MaxTexts /\ size' \in Nat
    BY <1>7, <2>1 DEF ForceTxWrite, TypeOK, IopAssumption
  <2> QED
    BY <1>7, <2>3, <2>4 DEF ForceTxWrite, Foreground, TypeOK, Called, txVars, rxVars, isrVars
<1>8. CASE Consume
  BY <1>8 DEF Consume, Foreground, TypeOK, Called, IopAssumption, txVars, isrVars, uartVars, histVars
<1> QED
  BY <1>1, <1>2, <1>3, <1>4, <1>5, <1>6, <1>7, <1>8 DEF Caller, StartTx

(* What a read of IIR leaves in the local and in the UART.                 *)
LEMMA IirRead ==
    ASSUME TypeOK, ReadIir
    PROVE  /\ iir' \in {"none", "error", "rx", "thr"} /\ thr' \in BOOLEAN
           /\ iir' = "error" => lineError
           /\ iir' = "thr" => thr
           /\ thr' => thr
  BY DEF ReadIir, IirSource, TypeOK

(* What moving a block from the receive FIFO to the ring leaves.           *)
LEMMA BlockMoved ==
    ASSUME IopAssumption, TypeOK, RxBlock(Lesser(rxFifo, Contiguous))
    PROVE  /\ rxFifo' \in 0..FifoSize /\ rxFifo' <= rxFifo /\ rxIrq' \in BOOLEAN
           /\ head' \in 0..(RingSize - 1) /\ occupied' \in 0..RingSize
           /\ rxFifo' >= Trigger => (rxIrq => rxIrq')
           /\ rxIrq' => rxIrq
           /\ rxFifo' = 0 \/ head' = 0 \/ occupied' = RingSize
           /\ head = 0 \/ occupied = RingSize => rxFifo' = 0 \/ occupied' = RingSize
<1> DEFINE n == Lesser(rxFifo, Contiguous)
<1>1. RingSize \in Nat \ {0} /\ FifoSize \in Nat /\ Trigger \in 1..FifoSize
  BY DEF IopAssumption
<1>2. /\ n \in Nat /\ n <= rxFifo /\ n <= RingSize - occupied /\ n <= RingSize - head
      /\ n \in {rxFifo, RingSize - occupied, RingSize - head}
      /\ head = 0 => n \in {rxFifo, RingSize - occupied}
  BY <1>1 DEF TypeOK, Lesser, Contiguous
<1>3. head \in Nat /\ occupied \in Nat /\ rxFifo \in 0..FifoSize /\ head < RingSize /\ rxIrq \in BOOLEAN
  BY <1>1 DEF TypeOK
<1> HIDE DEF n
<1>4. (head + n) % RingSize \in 0..(RingSize - 1) /\ (head + n = RingSize => (head + n) % RingSize = 0)
  BY <1>1, <1>2, <1>3
<1>5. rxFifo' = rxFifo - n /\ rxIrq' = (rxIrq /\ (n = 0 \/ rxFifo - n >= Trigger))
      /\ head' = (head + n) % RingSize /\ occupied' = occupied + n
  BY DEF RxBlock, ReadFifo, n
<1>6. rxIrq' \in BOOLEAN /\ (rxIrq' => rxIrq) /\ (rxFifo' >= Trigger => (rxIrq => rxIrq'))
  BY <1>5
<1>7. rxFifo' \in 0..FifoSize /\ rxFifo' <= rxFifo /\ occupied' \in 0..RingSize
  BY <1>1, <1>2, <1>3, <1>5
<1>8. rxFifo' = 0 \/ head' = 0 \/ occupied' = RingSize
  BY <1>1, <1>2, <1>3, <1>4, <1>5
<1>9. head = 0 \/ occupied = RingSize => rxFifo' = 0 \/ occupied' = RingSize
  BY <1>1, <1>2, <1>3, <1>5
<1> QED
  BY <1>4, <1>5, <1>6, <1>7, <1>8, <1>9

LEMMA IsrTyped == IopAssumption /\ TypeInv /\ IsrStep => TypeInv'
<1> SUFFICES ASSUME IopAssumption, TypeInv, IsrStep PROVE TypeInv'
  OBVIOUS
<1> USE DEF TypeInv
<1>0. 0 \in 0..PollLimit /\ 0 \in 0..IsrChars
  BY DEF IopAssumption
<1>1. CASE IsrStart
  BY <1>0, <1>1 DEF IsrStart, Isr, TypeOK, Called, fgVars, txVars, rxVars, uartVars, histVars
<1>2. CASE IsrIir
  <2>1. regReads' \in 0..PollLimit
    BY <1>2 DEF IsrIir, Lesser, TypeOK, IopAssumption
  <2> QED
    BY <1>2, <2>1, IirRead DEF IsrIir, Isr, TypeOK, Called, fgVars, txVars, rxVars, histVars
<1>3. CASE IsrLevels
  BY <1>3 DEF IsrLevels, Isr, TypeOK, Called, fgVars, txVars, rxVars, uartVars, histVars
<1>4. CASE IsrRxBlock \/ IsrRxBlock2
  <2>1. RxBlock(Lesser(rxFifo, Contiguous)) /\ ipc' \in {"rxBlock2", "rxDone"}
    BY <1>4 DEF IsrRxBlock, IsrRxBlock2, AfterBlock
  <2> QED
    BY <2>1, BlockMoved DEF RxBlock, TypeOK, Called, fgVars, txVars, histVars
<1>5. CASE IsrRxDone
  <2>1. thr' \in BOOLEAN /\ iir' \in {"none", "error", "rx", "thr"} /\ ipc' \in {"halt", "tx", "next"}
    BY <1>5, IirRead DEF IsrRxDone, TypeOK
  <2> QED
    BY <1>5, <2>1 DEF IsrRxDone, Isr, TypeOK, Called, fgVars, txVars, rxVars, histVars
<1>6. CASE IsrTx
  <2> DEFINE k == Lesser(txPending, Spaces)
  <2>0. txPending \in Nat /\ FifoSize \in Nat /\ Len(txFifo) \in Nat /\ Len(txFifo) <= FifoSize
    BY DEF TypeOK, IopAssumption
  <2>1. k \in Nat /\ k <= txPending
    BY <2>0 DEF Lesser, Spaces
  <2>2. txBffr.text \in 0..MaxTexts /\ txBffr.n \in Nat
    BY DEF TypeOK, Byte
  <2>3. txFifo' \in Seq(Byte) /\ Len(txFifo') <= FifoSize /\ thr' \in BOOLEAN
    BY <1>6, <2>1, <2>2, BytesAre, Written DEF IsrTx
  <2>4. txBffr' \in Byte /\ txPending' \in Nat
    <3>1. txBffr' = [txBffr EXCEPT !.n = @ + k] /\ txPending' = txPending - k /\ txBffr \in Byte
      BY <1>6 DEF IsrTx, TypeOK
    <3> HIDE DEF k
    <3>2. txPending - k \in Nat
      BY <2>0, <2>1
    <3> QED BY <2>1, <3>1, <3>2, Advanced
  <2> QED
    BY <1>6, <2>3, <2>4 DEF IsrTx, Isr, TypeOK, Called, fgVars, rxVars, histVars
<1>7. CASE IsrNext
  BY <1>7, IirRead DEF IsrNext, Isr, TypeOK, Called, fgVars, txVars, rxVars, histVars
<1>8. CASE IsrReturn
  BY <1>0, <1>8 DEF IsrReturn, Isr, TypeOK, Called, fgVars, txVars, rxVars, uartVars
<1>9. CASE IsrRetry
  BY <1>0, <1>9, IirRead DEF IsrRetry, Isr, TypeOK, Called, fgVars, txVars, rxVars, histVars
<1> QED
  BY <1>1, <1>2, <1>3, <1>4, <1>5, <1>6, <1>7, <1>8, <1>9 DEF IsrStep

LEMMA StepTyped == IopAssumption /\ TypeInv /\ [Next]_vars => TypeInv'
<1>1. IopAssumption /\ TypeInv /\ UNCHANGED vars => TypeInv'
  BY DEF TypeInv, TypeOK, Called, vars, fgVars, txVars, rxVars, isrVars, uartVars, histVars
<1> QED
  BY <1>1, UartTyped, ForegroundTyped, IsrTyped DEF Next

(* Every variable has its type in every reachable state: FIFOs and ring    *)
(* are never filled beyond their sizes, and the ISR never counts more than *)
(* there is.                                                               *)
THEOREM Typed == Spec => []TypeOK
<1>1. TypeInv => TypeOK
  BY DEF TypeInv
<1> QED
  BY <1>1, IopAssumption, InitTyped, StepTyped, PTL DEF Spec

-----------------------------------------------------------------------------
(* The ISR's assertions.  While it is fast enough, the receive FIFO does   *)
(* not overrun, and only a full rxBffr keeps it from being emptied.        *)
LEMMA InitHalt == IopAssumption /\ Init => HaltInv
  BY InitTyped DEF Init, HaltInv, Noticed, Low, AtTrigger, BeyondOnlyInIsr, BlocksEmpty, NoError,
                   NoAssert, IopAssumption

(* Between two interrupts the FIFO is below the trigger level.             *)
LEMMA BelowTrigger ==
    ASSUME IopAssumption, TypeOK, Noticed, AtTrigger, ~irqEdge, ipc = "off"
    PROVE  ~Low /\ rxFifo < Trigger
  BY DEF IopAssumption, TypeOK, Noticed, AtTrigger, Low

(* The line falls with a source, so that an edge is never missed.          *)
LEMMA EdgeNoticed == Noticed /\ RaiseIrq /\ ipc' = ipc => Noticed'
  BY DEF Noticed, RaiseIrq

(* What writing to the FIFO and reading IIR clear is not missed either.    *)
LEMMA NoticedKept == IopAssumption /\ TypeOK /\ Noticed /\ [Next]_vars => Noticed'
<1> SUFFICES ASSUME IopAssumption, TypeOK, Noticed, [Next]_vars PROVE Noticed'
  OBVIOUS
<1>1. ASSUME UNCHANGED <<ipc, irqEdge>>, Low' => Low PROVE Noticed'
  BY <1>1 DEF Noticed
<1>2. ASSUME UNCHANGED <<thr, rxIrq, lineError>> PROVE Low' => Low
  BY <1>2 DEF Low
<1>3. CASE Caller
  <2>1. ASSUME NEW n \in Sizes, NEW reset \in BOOLEAN, Send(n, reset) PROVE Noticed'
    BY <1>1, <1>2, <2>1 DEF Send, isrVars, uartVars
  <2>2. ASSUME NEW n \in Sizes, ForceTxFlush(n) PROVE Noticed'
    BY <2>2, EdgeNoticed DEF ForceTxFlush, isrVars
  <2> QED BY <1>3, <2>1, <2>2 DEF Caller
<1>4. CASE StartTxLevel \/ StartTxSet \/ StartTxAdvance \/ Consume \/ UNCHANGED vars
  BY <1>1, <1>2, <1>4 DEF StartTxLevel, StartTxSet, StartTxAdvance, Consume, isrVars, uartVars, vars
<1>5. CASE StartTxWrite \/ ForceTxWrite
  BY <1>1, <1>5 DEF StartTxWrite, ForceTxWrite, WriteFifo, Low, isrVars
<1>6. CASE Uart
  BY <1>6, EdgeNoticed DEF Uart, UartSend, UartReceive, UartTimeout, isrVars
<1>7. CASE IsrReturn
  BY <1>7 DEF IsrReturn, Noticed, Low, uartVars
<1>8. CASE IsrStep /\ ~IsrReturn
  <2>1. ipc' # "off"
    BY <1>8 DEF IsrStep, IsrStart, IsrIir, IsrLevels, IsrRxBlock, IsrRxBlock2, AfterBlock, IsrRxDone, IsrTx, IsrNext,
                IsrRetry
  <2> QED BY <2>1 DEF Noticed
<1> QED
  BY <1>3, <1>4, <1>5, <1>6, <1>7, <1>8 DEF Next, StartTx

(* The foreground leaves the receiver alone, but for taking from the ring  *)
(* while no interrupt is served.                                           *)
LEMMA ForegroundHalt ==
    ASSUME HaltInv, TypeInv', Noticed', Caller \/ StartTx \/ ForceTxWrite \/ Consume
    PROVE  HaltInv'
<1>1. UNCHANGED <<ipc, iir, rxFifo, rxIrq, lineError, head, chars>> /\ ipc = "off"
  BY DEF Caller, Send, ForceTxFlush, StartTx, StartTxLevel, StartTxSet, StartTxAdvance, StartTxWrite,
         ForceTxWrite, Consume, Foreground, rxVars, isrVars, uartVars, histVars
<1> QED
  BY <1>1 DEF HaltInv, AtTrigger, BeyondOnlyInIsr, BlocksEmpty, NoError, NoAssert

LEMMA UartHalt ==
    ASSUME IopAssumption, FastEnough, HaltInv, TypeInv', Noticed', Uart
    PROVE  HaltInv'
<1>1. TypeOK /\ ipc' = ipc /\ RaiseIrq
  BY DEF HaltInv, TypeInv, Uart, UartSend, UartReceive, UartTimeout, isrVars
<1>3. irqEdge \/ ipc # "off" \/ rxFifo < Trigger
  BY <1>1, BelowTrigger DEF HaltInv
<1>4. CASE UartSend \/ UartTimeout
  <2>1. UNCHANGED <<ipc, iir, rxFifo, lineError, head, occupied>> /\ (rxIrq => rxIrq')
    BY <1>4 DEF UartSend, UartTimeout, isrVars, rxVars, TypeOK
  <2>2. chars \in Nat /\ (chars' \in {chars, chars + 1} \/ (chars' = 0 /\ ipc = "off" /\ ~irqEdge))
    BY <1>1, <1>4 DEF UartSend, UartTimeout, InTime, histVars, TypeOK
  <2>3. rxFifo \in Nat /\ Trigger \in Nat
    BY <1>1 DEF TypeOK, IopAssumption
  <2> QED
    BY <1>3, <2>1, <2>2, <2>3 DEF HaltInv, AtTrigger, BeyondOnlyInIsr, BlocksEmpty, NoError, NoAssert
<1>5. CASE UartReceive
  <2>1. UNCHANGED <<ipc, iir, head, occupied>>
    BY <1>5 DEF UartReceive, isrVars, rxVars
  <2>2. rxFifo \in 0..FifoSize /\ FifoSize \in Nat /\ Trigger \in 1..FifoSize /\ chars \in 0..IsrChars
        /\ IsrChars \in Nat
    BY <1>1 DEF TypeOK, IopAssumption
  <2>3. rxFifo < FifoSize /\ rxFifo' = rxFifo + 1 /\ (lineError' => lineError)
    <3>1. rxFifo # FifoSize
      <4>1. CASE irqEdge \/ ipc # "off"
        <5>1. chars < IsrChars /\ rxFifo <= Trigger + chars /\ Trigger + IsrChars <= FifoSize
          BY <1>5, <4>1 DEF UartReceive, InTime, HaltInv, BeyondOnlyInIsr, FastEnough
        <5> QED BY <2>2, <5>1
      <4> QED BY <1>3, <2>2, <4>1
    <3>2. rxFifo < FifoSize
      BY <2>2, <3>1
    <3>3. rxFifo' = Lesser(rxFifo + 1, FifoSize) /\ lineError' = (lineError \/ rxFifo = FifoSize)
      BY <1>5 DEF UartReceive
    <3>4. rxFifo' = rxFifo + 1
      BY <2>2, <3>2, <3>3 DEF Lesser
    <3>5. lineError' => lineError
      BY <3>1, <3>3
    <3> QED BY <3>2, <3>4, <3>5
  <2>4. chars' = chars + 1 \/ (chars' = 0 /\ ipc = "off" /\ rxFifo < Trigger)
    BY <1>3, <1>5 DEF UartReceive, InTime
  <2>5. AtTrigger'
    BY <1>5, <2>3 DEF UartReceive, AtTrigger
  <2>6. BeyondOnlyInIsr' /\ BlocksEmpty'
    BY <2>1, <2>2, <2>3, <2>4 DEF HaltInv, BeyondOnlyInIsr, BlocksEmpty
  <2> QED
    BY <2>1, <2>3, <2>5, <2>6 DEF HaltInv, NoError, NoAssert
<1> QED BY <1>4, <1>5 DEF Uart

LEMMA IsrHalt ==
    ASSUME IopAssumption, FastEnough, HaltInv, TypeInv', Noticed', IsrStep
    PROVE  HaltInv'
<1>1. TypeOK
  BY DEF HaltInv, TypeInv
<1>2. /\ rxFifo \in 0..FifoSize /\ FifoSize \in Nat /\ Trigger \in 1..FifoSize /\ chars \in 0..IsrChars
      /\ IsrChars \in Nat /\ RingSize \in Nat \ {0}
  BY <1>1 DEF TypeOK, IopAssumption
<1>3. ASSUME UNCHANGED <<rxFifo, rxIrq, lineError, head, occupied, chars>>, iir' # "error",
             ipc' \notin {"off", "rxBlock2", "rxDone", "halt"}
      PROVE  HaltInv'
  BY <1>3 DEF HaltInv, AtTrigger, BeyondOnlyInIsr, BlocksEmpty, NoError, NoAssert
<1>4. CASE IsrStart \/ IsrTx
  <2>1. iir' = iir /\ iir # "error"
    BY <1>4 DEF IsrStart, IsrTx, HaltInv, NoError
  <2> QED
    BY <1>3, <1>4, <2>1 DEF IsrStart, IsrTx, rxVars, uartVars, histVars
<1>5. CASE IsrIir \/ IsrNext \/ IsrRetry
  <2>1. iir' # "error"
    BY <1>1, <1>5, IirRead DEF IsrIir, IsrNext, IsrRetry, HaltInv, NoError
  <2> QED
    BY <1>3, <1>5, <2>1 DEF IsrIir, IsrNext, IsrRetry, rxVars, histVars
<1>6. CASE IsrLevels
  <2>1. iir' = iir /\ iir # "error" /\ ipc' \in {"rxBlock", "tx", "next"}
    BY <1>6 DEF IsrLevels, HaltInv, NoError
  <2> QED
    BY <1>3, <1>6, <2>1 DEF IsrLevels, rxVars, uartVars, histVars
<1>7. CASE IsrRxBlock \/ IsrRxBlock2
  <2>1. RxBlock(Lesser(rxFifo, Contiguous)) /\ UNCHANGED <<iir, lineError, chars>>
    BY <1>7 DEF IsrRxBlock, IsrRxBlock2, RxBlock, histVars
  <2>2. /\ rxFifo' \in 0..FifoSize /\ rxFifo' <= rxFifo
        /\ rxFifo' >= Trigger => (rxIrq => rxIrq')
        /\ rxFifo' = 0 \/ head' = 0 \/ occupied' = RingSize
        /\ head = 0 \/ occupied = RingSize => rxFifo' = 0 \/ occupied' = RingSize
    BY <1>1, <2>1, BlockMoved
  <2>3. AtTrigger'
    <3>1. rxFifo' >= Trigger => rxFifo >= Trigger
      BY <1>2, <2>2
    <3> QED BY <2>2, <3>1 DEF HaltInv, AtTrigger
  <2>4. BeyondOnlyInIsr'
    BY <1>2, <2>1, <2>2 DEF HaltInv, BeyondOnlyInIsr
  <2>5. BlocksEmpty' /\ ipc' \in {"rxBlock2", "rxDone"}
    <3>1. CASE IsrRxBlock
      <4>1. ipc' = AfterBlock(Lesser(rxFifo, Contiguous)) /\ rxFifo' = rxFifo - Lesser(rxFifo, Contiguous)
        BY <3>1 DEF IsrRxBlock, RxBlock, ReadFifo
      <4>2. Lesser(rxFifo, Contiguous) \in Nat /\ Lesser(rxFifo, Contiguous) <= rxFifo
        BY <1>1, <1>2 DEF TypeOK, Lesser, Contiguous
      <4>3. (ipc' = "rxBlock2" /\ rxFifo' # 0) \/ (ipc' = "rxDone" /\ rxFifo' = 0)
        BY <1>2, <4>1, <4>2 DEF AfterBlock
      <4> QED BY <1>2, <2>1, <2>2, <4>3 DEF BlocksEmpty
    <3>2. CASE IsrRxBlock2
      <4>1. ipc = "rxBlock2" /\ ipc' = "rxDone"
        BY <3>2 DEF IsrRxBlock2, Isr
      <4> QED BY <1>2, <2>1, <2>2, <4>1 DEF HaltInv, BlocksEmpty
    <3> QED BY <1>7, <3>1, <3>2
  <2> QED
    BY <2>1, <2>3, <2>4, <2>5 DEF HaltInv, Noticed, NoError, NoAssert
<1>8. CASE IsrRxDone
  <2>1. rxFifo >= FifoSize \div 4 => occupied = RingSize
    <3>1. FifoSize \div 4 \in Nat /\ IsrChars < FifoSize \div 4
      BY <1>2 DEF FastEnough
    <3>2. rxFifo <= chars \/ occupied = RingSize
      BY <1>8 DEF IsrRxDone, Isr, HaltInv, BlocksEmpty
    <3> QED BY <1>2, <3>1, <3>2
  <2>2. iir' # "error"
    BY <1>1, <1>8, IirRead DEF IsrRxDone, HaltInv, NoError
  <2>3. UNCHANGED <<rxFifo, rxIrq, lineError, head, occupied, chars>>
    BY <1>8 DEF IsrRxDone, rxVars, histVars
  <2>4. ipc' \in {"tx", "next"} \/ (ipc' = "halt" /\ rxFifo >= FifoSize \div 4)
    BY <1>8 DEF IsrRxDone
  <2> QED
    BY <2>1, <2>2, <2>3, <2>4
    DEF HaltInv, AtTrigger, BeyondOnlyInIsr, BlocksEmpty, NoError, NoAssert
<1>9. CASE IsrReturn
  <2>1. rxFifo < Trigger /\ chars' = 0 /\ ipc' = "off" /\ ~Low' /\ iir' = iir
        /\ UNCHANGED <<rxFifo, rxIrq, lineError, head, occupied>>
    BY <1>2, <1>9 DEF IsrReturn, Low, isrVars, rxVars, uartVars, HaltInv, AtTrigger
  <2> QED
    BY <1>2, <2>1 DEF HaltInv, AtTrigger, BeyondOnlyInIsr, BlocksEmpty, NoError, NoAssert
<1> QED
  BY <1>4, <1>5, <1>6, <1>7, <1>8, <1>9 DEF IsrStep

(* Whatever the sizes, the traffic and the use of IOP_forceTx(), no        *)
(* assertion of the ISR fails unless rxBffr is full.                       *)
THEOREM NoAssertion ==
    ASSUME FastEnough PROVE Spec => []NoAssert
<1>1. HaltInv => NoAssert
  BY DEF HaltInv
<1>2. HaltInv /\ [Next]_vars => HaltInv'
  <2> SUFFICES ASSUME IopAssumption, HaltInv, [Next]_vars PROVE HaltInv'
    BY IopAssumption
  <2>1. TypeInv' /\ Noticed'
    BY StepTyped, NoticedKept DEF HaltInv, TypeInv
  <2>2. CASE UNCHANGED vars
    BY <2>1, <2>2
    DEF HaltInv, AtTrigger, BeyondOnlyInIsr, BlocksEmpty, NoError, NoAssert, vars, fgVars,
        txVars, rxVars, isrVars, uartVars, histVars
  <2> QED
    BY <2>1, <2>2, ForegroundHalt, UartHalt, IsrHalt DEF Next
<1>3. Init => HaltInv
  BY IopAssumption, InitHalt
<1> QED
  BY <1>1, <1>2, <1>3, PTL DEF Spec

-----------------------------------------------------------------------------
(* The order of the bytes.                                                 *)
LEMMA InitOrder == IopAssumption /\ Init => OrderInv
  BY InitTyped DEF Init, OrderInv, Noticed, Low, Consecutive, Position, Fresh, Undisturbed, Sent, InHand

(* What an action keeps that neither sends, nor writes to the FIFO, nor    *)
(* changes what is to be sent.                                             *)
TxQuiet == /\ UNCHANGED <<txBffr, txFifo, fpc, immediateSz, text, out>>
           /\ thr' => thr \/ txFifo # <<>>
           /\ ipc' = "tx" => ipc = "tx" \/ (ipc = "levels" /\ iir = "thr") \/ thr
           /\ ipc' = "levels" /\ iir' = "thr" => (ipc = "levels" /\ iir = "thr") \/ thr

LEMMA QuietOrder ==
    ASSUME OrderInv, TypeInv', Noticed', TxQuiet
    PROVE  OrderInv'
<1>1. UNCHANGED <<Sent, InHand>>
  BY DEF TxQuiet, Sent, InHand
<1>2. Consecutive' /\ Position' /\ Fresh'
  BY <1>1 DEF TxQuiet, OrderInv, Consecutive, Position, Fresh
<1>3. Undisturbed'
  BY DEF TxQuiet, OrderInv, Undisturbed
<1> QED
  BY <1>2, <1>3 DEF TxQuiet, OrderInv

LEMMA QuietActions ==
    ASSUME IopAssumption, TypeOK,
           \/ UartReceive \/ UartTimeout \/ Consume \/ UNCHANGED vars
           \/ (IsrStep /\ ~IsrTx)
    PROVE  TxQuiet /\ txPending' = txPending
<1>1. CASE UartReceive \/ UartTimeout
  BY <1>1 DEF TxQuiet, UartReceive, UartTimeout, fgVars, txVars, isrVars, histVars
<1>2. CASE Consume \/ UNCHANGED vars
  BY <1>2 DEF TxQuiet, Consume, Foreground, vars, fgVars, txVars, isrVars, uartVars, histVars
<1>3. CASE IsrStart \/ IsrLevels \/ IsrReturn
  BY <1>3 DEF TxQuiet, IsrStart, IsrLevels, IsrReturn, Isr, fgVars, txVars, isrVars, uartVars, histVars
<1>4. CASE IsrIir \/ IsrRxDone \/ IsrNext \/ IsrRetry
  <2>1. (thr' => thr) /\ (iir' = "thr" => thr \/ (iir' = iir /\ ipc' = "halt"))
    BY <1>4, IirRead DEF IsrIir, IsrRxDone, IsrNext, IsrRetry
  <2>2. ipc' = "tx" => thr
    BY <1>4 DEF IsrIir, IsrRxDone, IsrNext, IsrRetry, IirSource
  <2>3. UNCHANGED <<txBffr, txFifo, fpc, immediateSz, text, out, txPending>>
    BY <1>4 DEF IsrIir, IsrRxDone, IsrNext, IsrRetry, fgVars, txVars, histVars
  <2>4. ipc' = "levels" /\ iir' = "thr" => thr
    BY <2>1
  <2> QED
    BY <2>1, <2>2, <2>3, <2>4 DEF TxQuiet
<1>5. CASE IsrRxBlock \/ IsrRxBlock2
  <2>1. UNCHANGED <<txBffr, txFifo, fpc, immediateSz, text, out, txPending, thr>>
    BY <1>5 DEF IsrRxBlock, IsrRxBlock2, RxBlock, fgVars, txVars, histVars
  <2>2. ipc' \in {"rxBlock2", "rxDone"}
    BY <1>5 DEF IsrRxBlock, IsrRxBlock2, AfterBlock
  <2> QED
    BY <2>1, <2>2 DEF TxQuiet
<1> QED
  BY <1>1, <1>2, <1>3, <1>4, <1>5 DEF IsrStep

(* The counts, and how many bytes of the text are going to be sent.        *)
LEMMA Counts ==
    ASSUME IopAssumption, OrderInv
    PROVE  /\ Sent \in Nat /\ Len(txFifo) \in Nat /\ txPending \in Nat /\ InHand \in Nat
           /\ Committed = Sent + Len(txFifo) + txPending + InHand
           /\ text \in Nat /\ FifoSize \in Nat /\ Len(txFifo) <= FifoSize
           /\ text \in 0..MaxTexts /\ immediateSz \in 0..FifoSize
  BY DEF OrderInv, TypeInv, TypeOK, Byte, Sent, InHand, Committed, IopAssumption

(* A byte goes out: the next of the text.                                  *)
LEMMA UartSendOrder ==
    ASSUME IopAssumption, OrderInv, TypeInv', Noticed', UartSend
    PROVE  OrderInv' /\ Committed' = Committed /\ Channel!SendByte
<1>1. /\ Head(txFifo) = txFifo[1] /\ Len(Tail(txFifo)) = Len(txFifo) - 1 /\ Len(txFifo) > 0
      /\ \A i \in 1..(Len(txFifo) - 1) : Tail(txFifo)[i] = txFifo[i + 1]
  BY Taken DEF UartSend, OrderInv, TypeInv
<1>2. /\ Sent \in Nat /\ Len(txFifo) \in Nat /\ txPending \in Nat /\ InHand \in Nat /\ text \in Nat
      /\ Committed = Sent + Len(txFifo) + txPending + InHand
  BY Counts
<1>3. UNCHANGED <<fpc, immediateSz, txBffr, txPending, text>> /\ txFifo' = Tail(txFifo) /\ out' = Head(txFifo)
  BY DEF UartSend, fgVars, txVars
<1>4. fpc \notin {"set", "advance", "write"}
  BY DEF UartSend, OrderInv, Undisturbed
<1>5. out' = [text |-> text, n |-> Sent + 1] /\ Sent' = Sent + 1 /\ InHand' = InHand
  <2>1. 1 \in 1..Len(txFifo)
    BY <1>1, <1>2
  <2>2. out' = [text |-> text, n |-> Sent + 1]
    BY <1>1, <1>3, <2>1 DEF OrderInv, Consecutive
  <2>3. out'.text = text' /\ out'.n = Sent + 1
    BY <1>3, <2>2
  <2> QED BY <1>3, <2>2, <2>3 DEF Sent, InHand
<1>6. Len(txFifo') = Len(txFifo) - 1
  BY <1>1, <1>3
<1>7. Consecutive'
  <2> SUFFICES ASSUME NEW i \in 1..(Len(txFifo) - 1) PROVE txFifo'[i] = [text |-> text, n |-> Sent + 1 + i]
    BY <1>3, <1>5, <1>6 DEF Consecutive
  <2>1. i + 1 \in 1..Len(txFifo) /\ Sent + (i + 1) = Sent + 1 + i
    BY <1>2
  <2>2. txFifo[i + 1] = [text |-> text, n |-> Sent + (i + 1)]
    BY <2>1 DEF OrderInv, Consecutive
  <2> QED BY <1>1, <1>3, <2>1, <2>2
<1>8. Position'
  <2>1. Sent + 1 + (Len(txFifo) - 1) + InHand + 1 = Sent + Len(txFifo) + InHand + 1
    BY <1>2
  <2> QED BY <1>3, <1>5, <1>6, <2>1 DEF OrderInv, Position
<1>9. Fresh' /\ Undisturbed' /\ out'.text <= text'
  BY <1>2, <1>3, <1>4, <1>5 DEF Fresh, Undisturbed
<1>10. OrderInv'
  BY <1>3, <1>7, <1>8, <1>9 DEF OrderInv
<1>11. Committed' = Committed
  <2>1. Committed' = Sent' + Len(txFifo') + txPending' + InHand'
    BY DEF Committed, Sent, InHand
  <2> QED BY <1>2, <1>3, <1>5, <1>6, <2>1
<1>12. Channel!SendByte
  <2>1. Sent < Committed
    BY <1>1, <1>2
  <2> QED BY <1>3, <1>5, <1>11, <2>1 DEF Channel!SendByte, Channel!Sent, Sent
<1> QED BY <1>10, <1>11, <1>12

(* The ISR sends on: what txBffr points to goes to the FIFO's end.         *)
LEMMA IsrTxOrder ==
    ASSUME IopAssumption, OrderInv, TypeInv', Noticed', IsrTx
    PROVE  OrderInv' /\ UNCHANGED <<text, Committed, out>>
<1>1. /\ Sent \in Nat /\ Len(txFifo) \in Nat /\ txPending \in Nat /\ InHand \in Nat /\ text \in 0..MaxTexts
      /\ Committed = Sent + Len(txFifo) + txPending + InHand /\ FifoSize \in Nat /\ Len(txFifo) <= FifoSize
  BY Counts
<1>2. PICK k \in Nat : k = Lesser(txPending, Spaces) /\ k <= txPending /\ k <= Spaces
  <2>1. Lesser(txPending, Spaces) \in {txPending, Spaces} /\ txPending \in Nat /\ Spaces \in Nat
    BY <1>1 DEF Lesser, Spaces
  <2>2. Lesser(txPending, Spaces) <= txPending /\ Lesser(txPending, Spaces) <= Spaces
    BY <2>1 DEF Lesser
  <2> QED BY <2>1, <2>2
<1>3. fpc \notin {"set", "advance", "write"}
  BY DEF IsrTx, Isr, OrderInv, Undisturbed
<1>4. PICK from \in Nat : from = Sent + Len(txFifo) + 1
  BY <1>1
<1>5. txBffr = [text |-> text, n |-> from] /\ txBffr.text = text /\ txBffr.n = from /\ txBffr \in Byte
      /\ InHand = 0
  BY <1>1, <1>3, <1>4 DEF OrderInv, Position, TypeInv, TypeOK, InHand
<1> DEFINE bytes == Bytes(text, from, k)
<1>6. /\ UNCHANGED <<fpc, immediateSz, text, out>> /\ ipc' = "next" /\ (thr' => thr)
      /\ txPending' = txPending - k /\ txBffr' = [txBffr EXCEPT !.n = @ + k] /\ WriteFifo(bytes)
  BY <1>2, <1>5 DEF IsrTx, WriteFifo, fgVars, histVars
<1>7. /\ bytes \in Seq(Byte) /\ Len(bytes) = k
      /\ \A i \in 1..k : bytes[i] = [text |-> text, n |-> from + i - 1]
  <2>1. text \in 0..MaxTexts
    BY <1>1
  <2>2. \A i \in 1..k : bytes[i] = [text |-> text, n |-> from + i - 1]
    BY <2>1, BytesAre
  <2> QED BY <2>1, <2>2, BytesAre
<1> HIDE DEF bytes
<1>8. Lesser(Len(bytes), Spaces) = k
  BY <1>1, <1>2, <1>7 DEF Lesser, Spaces
<1>9. /\ Len(txFifo') = Len(txFifo) + k
      /\ \A i \in 1..Len(txFifo') :
           txFifo'[i] = IF i <= Len(txFifo) THEN txFifo[i] ELSE bytes[i - Len(txFifo)]
  BY <1>6, <1>7, <1>8, Written DEF OrderInv, TypeInv
<1>10. InHand' = 0 /\ Sent' = Sent
  BY <1>3, <1>6 DEF InHand, Sent
<1>11. Consecutive'
  <2> SUFFICES ASSUME NEW i \in 1..(Len(txFifo) + k) PROVE txFifo'[i] = [text |-> text, n |-> Sent + i]
    BY <1>6, <1>9, <1>10 DEF Consecutive
  <2>1. CASE i <= Len(txFifo)
    <3>1. i \in 1..Len(txFifo) /\ i \in 1..Len(txFifo')
      BY <1>1, <1>9, <2>1
    <3> QED BY <1>9, <2>1, <3>1 DEF OrderInv, Consecutive
  <2>2. CASE ~(i <= Len(txFifo))
    <3>1. i - Len(txFifo) \in 1..k /\ from + (i - Len(txFifo)) - 1 = Sent + i
      BY <1>1, <1>4, <2>2
    <3> QED BY <1>7, <1>9, <2>2, <3>1
  <2> QED BY <2>1, <2>2
<1>12. Position'
  <2>1. txBffr' = [text |-> text, n |-> from + k]
    BY <1>5, <1>6, Advanced
  <2>2. from + k = Sent + (Len(txFifo) + k) + 0 + 1
    BY <1>1, <1>4
  <2> QED BY <1>6, <1>9, <1>10, <2>1, <2>2 DEF Position
<1>13. OrderInv'
  BY <1>3, <1>6, <1>11, <1>12 DEF OrderInv, Fresh, Undisturbed
<1>14. Committed' = Committed
  <2>1. Committed' = Sent' + Len(txFifo') + txPending' + InHand'
    BY DEF Committed, Sent, InHand
  <2>2. Committed' = Sent + (Len(txFifo) + k) + (txPending - k) + 0
    BY <1>6, <1>9, <1>10, <2>1
  <2> QED BY <1>1, <1>5, <2>2
<1> QED BY <1>6, <1>13, <1>14

(* Of the old text nothing more is sent after atcmd_reset(): it is cut.    *)
LEMMA SendOrder ==
    ASSUME IopAssumption, OrderInv, TypeInv', Noticed',
           NEW n \in Sizes, NEW reset \in BOOLEAN, Send(n, reset)
    PROVE  OrderInv' /\ Channel!Cut
<1>1. /\ Sent \in Nat /\ Len(txFifo) \in Nat /\ txPending \in Nat /\ InHand \in Nat
      /\ Committed = Sent + Len(txFifo) + txPending + InHand
  BY Counts
<1>2. /\ fpc = "idle" /\ fpc' = "level" /\ txPending' \in {0, txPending}
      /\ UNCHANGED <<txBffr, txFifo, text, out, ipc, iir, thr, immediateSz>>
  BY DEF Send, Foreground, isrVars, uartVars, histVars
<1>3. InHand = 0 /\ InHand' = 0 /\ Sent' = Sent
  BY <1>2 DEF InHand, Sent
<1>4. OrderInv'
  BY <1>2, <1>3 DEF OrderInv, Consecutive, Position, Fresh, Undisturbed
<1>5. Committed' = Sent' + Len(txFifo') + txPending' + InHand'
  BY DEF Committed, Sent, InHand
<1>6. Committed' \in Sent..Committed
  BY <1>1, <1>2, <1>3, <1>5
<1> QED BY <1>2, <1>4, <1>6 DEF Channel!Cut, Channel!Sent, Sent

(* IOP_startTx() finds the FIFO empty before the ISR can see it so: no     *)
(* interrupt of the transmitter is left that could send from txBffr while  *)
(* it is set.                                                              *)
LEMMA StartTxLevelOrder ==
    ASSUME IopAssumption, OrderInv, TypeInv', Noticed', StartTxLevel
    PROVE  OrderInv' /\ UNCHANGED <<text, Committed, out>>
<1>1. /\ fpc = "level" /\ ipc = "off" /\ ~irqEdge /\ fpc' \in {"set", "idle"}
      /\ UNCHANGED <<txBffr, txPending, txFifo, text, out, ipc, iir, thr, immediateSz>>
  BY DEF StartTxLevel, Foreground, isrVars, uartVars, histVars, txVars
<1>2. InHand = 0 /\ InHand' = 0 /\ Sent' = Sent
  BY <1>1 DEF InHand, Sent
<1>3. ~thr
  BY <1>1 DEF OrderInv, Noticed, Low
<1>4. fpc' = "set" => txFifo = <<>>
  <2>1. fpc' = "set" => FifoSize - Len(txFifo) = FifoSize
    BY DEF StartTxLevel, Foreground, FifoEmpty, Spaces
  <2>2. Len(txFifo) = 0 => txFifo = <<>>
    BY EmptySeq DEF OrderInv, TypeInv, TypeOK
  <2> QED BY <2>1, <2>2, Counts
<1>5. OrderInv'
  BY <1>1, <1>2, <1>3, <1>4 DEF OrderInv, Consecutive, Position, Fresh, Undisturbed
<1>6. UNCHANGED Committed
  BY <1>1, <1>2 DEF Committed
<1> QED BY <1>1, <1>5, <1>6

(* The text is put into txBffr: a new text begins.                         *)
GreatestSize == \E n \in Sizes : \A m \in Sizes : m <= n

LEMMA StartTxSetOrder ==
    ASSUME IopAssumption, GreatestSize, OrderInv, TypeInv', Noticed', StartTxSet
    PROVE  OrderInv' /\ Channel!Begin
<1> DEFINE greatest == CHOOSE n \in Sizes : \A m \in Sizes : m <= n
<1>1. /\ fpc = "set" /\ fpc' = "advance" /\ txBffr' = [text |-> text + 1, n |-> 1]
      /\ txPending' = sendSz /\ text' = text + 1
      /\ UNCHANGED <<txFifo, out, ipc, iir, thr, immediateSz>>
  BY DEF StartTxSet, Foreground, isrVars, uartVars
<1>2. txFifo = <<>> /\ Len(txFifo) = 0 /\ out.text <= text /\ sendSz \in Sizes /\ text < MaxTexts
  BY <1>1, EmptySeq DEF OrderInv, Undisturbed, TypeInv, Called
<1>3. text \in Nat /\ out.text \in Nat /\ sendSz \in Nat \ {0}
  BY <1>2 DEF OrderInv, TypeInv, TypeOK, Byte, IopAssumption
<1>4. Sent' = 0 /\ InHand' = 0 /\ out'.text < text'
  BY <1>1, <1>2, <1>3 DEF Sent, InHand
<1>5. OrderInv'
  <2>1. Consecutive' /\ Position'
    BY <1>1, <1>2, <1>4 DEF Consecutive, Position
  <2>2. Fresh' /\ Undisturbed' /\ out'.text <= text'
    BY <1>1, <1>2, <1>3, <1>4 DEF OrderInv, Fresh, Undisturbed
  <2> QED BY <1>1, <2>1, <2>2 DEF OrderInv
<1>6. Committed' = sendSz
  <2>1. Committed' = Sent' + Len(txFifo') + txPending' + InHand'
    BY DEF Committed, Sent, InHand
  <2> QED BY <1>1, <1>2, <1>3, <1>4, <2>1
<1>7. sendSz \in 1..greatest
  <2>1. greatest \in Sizes /\ \A m \in Sizes : m <= greatest
    BY DEF GreatestSize
  <2> HIDE DEF greatest
  <2> QED BY <1>2, <1>3, <2>1 DEF IopAssumption
<1> QED BY <1>1, <1>2, <1>5, <1>6, <1>7 DEF Channel!Begin

(* txBffr is moved beyond what is going to be written.                     *)
LEMMA StartTxAdvanceOrder ==
    ASSUME IopAssumption, OrderInv, TypeInv', Noticed', StartTxAdvance
    PROVE  OrderInv' /\ UNCHANGED <<text, Committed, out>>
<1>1. /\ fpc = "advance" /\ fpc' = "write" /\ txBffr' = [txBffr EXCEPT !.n = @ + immediateSz']
      /\ txPending' = txPending - immediateSz'
      /\ UNCHANGED <<txFifo, text, out, ipc, iir, thr>>
  BY DEF StartTxAdvance, Foreground, isrVars, uartVars, histVars
<1>2. /\ Sent \in Nat /\ Len(txFifo) \in Nat /\ txPending \in Nat
      /\ Committed = Sent + Len(txFifo) + txPending + InHand
  BY Counts
<1>3. InHand = 0 /\ InHand' = immediateSz' /\ Sent' = Sent /\ immediateSz' \in Nat
  BY <1>1 DEF InHand, Sent, TypeInv, TypeOK, IopAssumption
<1>4. txBffr = [text |-> text, n |-> Sent + Len(txFifo) + 0 + 1] /\ txBffr \in Byte
  BY <1>3 DEF OrderInv, Position, TypeInv, TypeOK
<1>5. Position'
  <2>1. txBffr' = [text |-> text, n |-> Sent + Len(txFifo) + 0 + 1 + immediateSz']
    BY <1>1, <1>3, <1>4, Advanced
  <2>2. Sent + Len(txFifo) + 0 + 1 + immediateSz' = Sent + Len(txFifo) + immediateSz' + 1
    BY <1>2, <1>3
  <2> QED BY <1>1, <1>3, <2>1, <2>2 DEF Position
<1>6. OrderInv'
  BY <1>1, <1>3, <1>5 DEF OrderInv, Consecutive, Fresh, Undisturbed
<1>7. Committed' = Committed
  <2>1. Committed' = Sent' + Len(txFifo') + txPending' + InHand'
    BY DEF Committed, Sent, InHand
  <2> QED BY <1>1, <1>2, <1>3, <2>1
<1> QED BY <1>1, <1>6, <1>7

(* What IOP_startTx() has in its hands fits into the empty FIFO.           *)
LEMMA StartTxWriteOrder ==
    ASSUME IopAssumption, OrderInv, TypeInv', Noticed', StartTxWrite
    PROVE  OrderInv' /\ UNCHANGED <<text, Committed, out>>
<1> DEFINE bytes == Bytes(text, 1, immediateSz)
<1>1. /\ fpc = "write" /\ fpc' = "idle" /\ WriteFifo(bytes)
      /\ UNCHANGED <<txBffr, txPending, text, out, ipc, iir, immediateSz>>
  BY DEF StartTxWrite, Foreground, isrVars, histVars, txVars
<1>2. /\ text \in 0..MaxTexts /\ immediateSz \in 0..FifoSize /\ txPending \in Nat /\ FifoSize \in Nat
      /\ Committed = Sent + Len(txFifo) + txPending + InHand
  BY Counts
<1>3. txFifo = <<>> /\ Len(txFifo) = 0 /\ out.text < text
  BY <1>1, EmptySeq DEF OrderInv, Undisturbed, Fresh
<1>4. out.text \in Nat /\ text \in Nat
  BY DEF OrderInv, TypeInv, TypeOK, Byte, IopAssumption
<1>5. Sent = 0 /\ Sent' = 0 /\ InHand = immediateSz /\ InHand' = 0
  BY <1>1, <1>3, <1>4 DEF Sent, InHand
<1>6. /\ bytes \in Seq(Byte) /\ Len(bytes) = immediateSz
      /\ \A i \in 1..immediateSz : bytes[i] = [text |-> text, n |-> 1 + i - 1]
  BY <1>2, BytesAre
<1> HIDE DEF bytes
<1>7. Lesser(Len(bytes), Spaces) = immediateSz
  BY <1>2, <1>3, <1>6 DEF Lesser, Spaces
<1>8. /\ Len(txFifo') = immediateSz
      /\ \A i \in 1..immediateSz : txFifo'[i] = bytes[i]
  <2>1. /\ Len(txFifo') = Len(txFifo) + immediateSz
        /\ \A i \in 1..Len(txFifo') :
              txFifo'[i] = IF i <= Len(txFifo) THEN txFifo[i] ELSE bytes[i - Len(txFifo)]
    BY <1>1, <1>6, <1>7, Written DEF OrderInv, TypeInv
  <2> QED BY <1>2, <1>3, <2>1
<1>9. Consecutive'
  <2> SUFFICES ASSUME NEW i \in 1..immediateSz PROVE txFifo'[i] = [text |-> text, n |-> 0 + i]
    BY <1>1, <1>5, <1>8 DEF Consecutive
  <2>1. 1 + i - 1 = 0 + i
    BY <1>2
  <2> QED BY <1>6, <1>8, <2>1
<1>10. Position'
  <2>1. 0 + 0 + immediateSz + 1 = 0 + immediateSz + 0 + 1
    BY <1>2
  <2> QED BY <1>1, <1>3, <1>5, <1>8, <2>1 DEF OrderInv, Position
<1>11. OrderInv'
  BY <1>1, <1>9, <1>10 DEF OrderInv, Fresh, Undisturbed
<1>12. Committed' = Committed
  <2>1. Committed' = Sent' + Len(txFifo') + txPending' + InHand'
    BY DEF Committed, Sent, InHand
  <2> QED BY <1>1, <1>2, <1>3, <1>5, <1>8, <2>1
<1> QED BY <1>1, <1>11, <1>12

LEMMA OrderStep ==
    ASSUME ~Forces, GreatestSize, OrderInv, [Next]_vars
    PROVE  OrderInv' /\ [Channel!Next]_<<text, Committed, out>>
<1>1. IopAssumption /\ TypeOK /\ TypeInv' /\ Noticed'
  BY IopAssumption, StepTyped, NoticedKept DEF OrderInv, TypeInv
<1>2. CASE Caller
  <2>1. \A n \in Sizes : ~ForceTxFlush(n)
    BY DEF ForceTxFlush
  <2>2. PICK n \in Sizes, reset \in BOOLEAN : Send(n, reset)
    BY <1>2, <2>1 DEF Caller
  <2> QED BY <1>1, <2>2, SendOrder DEF Channel!Next
<1>3. CASE StartTx
  BY <1>1, <1>3, StartTxLevelOrder, StartTxSetOrder, StartTxAdvanceOrder, StartTxWriteOrder
  DEF StartTx, Channel!Next
<1>4. CASE ForceTxWrite
  BY <1>4 DEF ForceTxWrite, Foreground, OrderInv
<1>5. CASE UartSend
  BY <1>1, <1>5, UartSendOrder DEF Channel!Next
<1>6. CASE IsrTx
  BY <1>1, <1>6, IsrTxOrder
<1>7. CASE UartReceive \/ UartTimeout \/ Consume \/ UNCHANGED vars \/ (IsrStep /\ ~IsrTx)
  <2>1. TxQuiet /\ txPending' = txPending
    BY <1>1, <1>7, QuietActions
  <2>2. OrderInv'
    BY <1>1, <2>1, QuietOrder
  <2>3. UNCHANGED <<text, Committed, out>>
    BY <2>1 DEF TxQuiet, Committed
  <2> QED BY <2>2, <2>3
<1> QED
  BY <1>2, <1>3, <1>4, <1>5, <1>6, <1>7 DEF Next, Uart

(* IOP_startTx() and the ISR together implement TxChannel: whatever the    *)
(* interleaving, the FIFO's size and trigger level and the texts' sizes,   *)
(* no byte of a text is skipped, repeated or overtaken.  It takes that     *)
(* IOP_forceTx() is not used, and that the sizes of texts have a maximum.  *)
THEOREM TransmitsInOrder ==
    ASSUME ~Forces, GreatestSize PROVE Spec => InOrder
<1>1. Init => OrderInv
  BY IopAssumption, InitOrder
<1>2. OrderInv /\ [Next]_vars => OrderInv' /\ [Channel!Next]_<<text, Committed, out>>
  BY OrderStep
<1>3. Init => Channel!Init
  BY DEF Init, Channel!Init, Committed
<1> QED
  BY <1>1, <1>2, <1>3, PTL DEF Spec, InOrder, Channel!Spec
=============================================================================
