-------------------------------- MODULE Iop --------------------------------
(***************************************************************************)
(* The I/O processor of LTEmC (ltemc-iop.c): IOP_startTx() and             *)
(* IOP_forceTx() in the foreground, and the interrupt service routine that *)
(* moves characters between the SC16IS741 UART and the buffers.            *)
(*                                                                         *)
(* One action is one SPI transaction or one run of plain statements, so    *)
(* that the UART can send, receive and raise interrupts in between.  The   *)
(* foreground runs only when no interrupt is waiting or being served.      *)
(***************************************************************************)
EXTENDS Naturals, Sequences

CONSTANTS
    FifoSize,     \* SC16IS7xx__FIFO_bufferSz, 64
    Trigger,      \* TX spaces and RX characters that interrupt, 56
    RingSize,     \* size of rxBffr
    Sizes,        \* sizes of the texts sent
    MaxTexts,     \* bound on the texts sent
    MaxRx,        \* bound on the characters received
    IsrChars,     \* characters the UART can send or receive from interrupt to return
    PollLimit,    \* reads of IIR while it shows no source, 60
    Forces        \* TRUE: IOP_forceTx() is used too

ASSUME IopAssumption ==
    /\ FifoSize \in Nat \ {0} /\ Trigger \in 1..FifoSize /\ RingSize \in Nat \ {0}
    /\ Sizes \subseteq Nat \ {0}
    /\ MaxTexts \in Nat /\ MaxRx \in Nat /\ IsrChars \in Nat /\ PollLimit \in Nat
    /\ Forces \in BOOLEAN

VARIABLES
    txBffr, txPending,           \* iop_t: next byte of the text, bytes left
    head, occupied,              \* iop_t.rxBffr: write position, fill level
    fpc, sendSz, immediateSz,    \* foreground: the call, its argument and local
    ipc, iir, regReads,          \* the ISR and its locals
    txFifo, rxFifo,              \* UART: bytes to send, number of bytes received
    thr, rxIrq, lineError,       \* UART: interrupt sources
    irqEdge,                     \* the processor has seen the IRQ line fall
    text, size, out, received, chars  \* history: text in transmission, last byte sent; bounds

fgVars   == <<fpc, sendSz, immediateSz>>
txVars   == <<txBffr, txPending>>
rxVars   == <<head, occupied>>
isrVars  == <<ipc, iir, regReads>>
uartVars == <<txFifo, rxFifo, thr, rxIrq, lineError>>
histVars == <<text, size, out, received, chars>>
vars == <<fgVars, txVars, rxVars, isrVars, uartVars, irqEdge, histVars>>

Lesser(a, b) == IF a < b THEN a ELSE b

Bytes(t, from, n) == [i \in 1..n |-> [text |-> t, n |-> from + i - 1]]

Spaces == FifoSize - Len(txFifo)

Init ==
    /\ txBffr = [text |-> 0, n |-> 1] /\ txPending = 0
    /\ head = 0 /\ occupied = 0
    /\ fpc = "idle" /\ sendSz = 0 /\ immediateSz = 0
    /\ ipc = "off" /\ iir = "none" /\ regReads = 0
    /\ txFifo = <<>> /\ rxFifo = 0
    /\ thr = FALSE /\ rxIrq = FALSE /\ lineError = FALSE
    /\ irqEdge = FALSE
    /\ text = 0 /\ size = 0 /\ out = [text |-> 0, n |-> 0]
    /\ received = 0 /\ chars = 0

-----------------------------------------------------------------------------
(* The UART.  The IRQ line is low while a source is pending.               *)

Low == thr \/ rxIrq \/ lineError

RaiseIrq == irqEdge' = (irqEdge \/ (~Low /\ Low'))

(* The time an interrupt takes, in characters on the line. *)
InTime ==
    IF irqEdge \/ ipc # "off" THEN chars < IsrChars /\ chars' = chars + 1
                              ELSE chars' = 0

(* A byte leaves; THR is raised as the spaces reach the trigger level. *)
UartSend ==
    /\ txFifo # <<>>
    /\ InTime
    /\ out' = Head(txFifo)
    /\ txFifo' = Tail(txFifo)
    /\ thr' = (thr \/ Spaces + 1 = Trigger)
    /\ UNCHANGED <<rxFifo, rxIrq, lineError>>
    /\ RaiseIrq
    /\ UNCHANGED <<fgVars, txVars, rxVars, isrVars, text, size, received>>

(* A byte arrives; there is no flow control, and a full FIFO overruns. *)
UartReceive ==
    /\ received < MaxRx
    /\ received' = received + 1
    /\ InTime
    /\ rxFifo' = Lesser(rxFifo + 1, FifoSize)
    /\ lineError' = (lineError \/ rxFifo = FifoSize)
    /\ rxIrq' = (rxIrq \/ rxFifo + 1 >= Trigger)
    /\ UNCHANGED <<txFifo, thr>>
    /\ RaiseIrq
    /\ UNCHANGED <<fgVars, txVars, rxVars, isrVars, text, size, out>>

(* Characters wait in the FIFO and no more come: receiver time-out. *)
UartTimeout ==
    /\ rxFifo > 0 /\ ~rxIrq
    /\ rxIrq' = TRUE
    /\ UNCHANGED <<txFifo, rxFifo, thr, lineError>>
    /\ RaiseIrq
    /\ UNCHANGED <<fgVars, txVars, rxVars, isrVars, histVars>>

(* Reading IIR shows the pending source of highest priority, and clears    *)
(* the THR interrupt if that is what it shows.  Mutant: it is read twice.  *)
IirSource == CASE lineError -> "error"
               [] rxIrq /\ ~lineError -> "rx"
               [] thr /\ ~rxIrq /\ ~lineError -> "thr"
               [] OTHER -> "none"

ReadIirTwice == /\ iir' = IF IirSource = "thr" THEN "none" ELSE IirSource
                /\ thr' = (thr /\ IirSource # "thr")
ReadIir == /\ iir' = IirSource
           /\ thr' = (thr /\ IirSource # "thr")

(* What is written beyond the FIFO's space is lost; writing clears THR.    *)
WriteFifo(bytes) ==
    /\ txFifo' = txFifo \o SubSeq(bytes, 1, Lesser(Len(bytes), Spaces))
    /\ thr' = (thr /\ bytes = <<>>)

(* Reading n > 0 characters clears the receive interrupt unless the FIFO   *)
(* is still at the trigger level.                                          *)
ReadFifo(n) ==
    /\ rxFifo' = rxFifo - n
    /\ rxIrq' = (rxIrq /\ (n = 0 \/ rxFifo - n >= Trigger))

-----------------------------------------------------------------------------
(* The foreground.                                                         *)

Foreground(l, next) == fpc = l /\ fpc' = next /\ ipc = "off" /\ ~irqEdge

(* A command is sent, after atcmd_reset(), which cancels what is pending,  *)
(* or data, without.                                                       *)
Send(n, reset) ==
    /\ Foreground("idle", "level")
    /\ text < MaxTexts
    /\ sendSz' = n
    /\ txPending' = IF reset THEN 0 ELSE txPending
    /\ UNCHANGED <<immediateSz, txBffr, rxVars, isrVars, uartVars, irqEdge, histVars>>

(* IOP_startTx(): only into an empty FIFO.  Mutant: into any space. *)
AnySpace  == Spaces > 0
FifoEmpty == Spaces = FifoSize

StartTxLevel ==
    /\ Foreground("level", IF FifoEmpty THEN "set" ELSE "idle")
    /\ UNCHANGED <<sendSz, immediateSz, txVars, rxVars, isrVars, uartVars, irqEdge, histVars>>

StartTxSet ==
    /\ Foreground("set", "advance")
    /\ txBffr' = [text |-> text + 1, n |-> 1]
    /\ txPending' = sendSz
    /\ text' = text + 1 /\ size' = sendSz
    /\ UNCHANGED <<sendSz, immediateSz, rxVars, isrVars, uartVars, irqEdge, out, received, chars>>

(* What goes to the FIFO at once.  Mutant: a whole FIFO of bytes. *)
WholeFifo   == FifoSize
Immediately == Lesser(txPending, FifoSize)

StartTxAdvance ==
    /\ Foreground("advance", "write")
    /\ immediateSz' = Immediately
    /\ txBffr' = [txBffr EXCEPT !.n = @ + immediateSz']
    /\ txPending' = txPending - immediateSz'
    /\ UNCHANGED <<sendSz, rxVars, isrVars, uartVars, irqEdge, histVars>>

StartTxWrite ==
    /\ Foreground("write", "idle")
    /\ WriteFifo(Bytes(text, 1, immediateSz))
    /\ UNCHANGED <<sendSz, immediateSz, txVars, rxVars, isrVars, rxFifo, rxIrq, lineError,
                   irqEdge, histVars>>

(* IOP_forceTx(): flush the FIFO, wait, and write a whole FIFO of bytes    *)
(* from the address of the text, whatever its size.                        *)
ForceTxFlush(n) ==
    /\ Forces /\ text < MaxTexts
    /\ n <= FifoSize
    /\ Foreground("idle", "force")
    /\ sendSz' = n
    /\ txFifo' = <<>>
    /\ thr' = (thr \/ (Spaces < Trigger))
    /\ UNCHANGED <<rxFifo, rxIrq, lineError>>
    /\ RaiseIrq
    /\ UNCHANGED <<immediateSz, txVars, rxVars, isrVars, histVars>>

ForceTxWrite ==
    /\ Foreground("force", "idle")
    /\ WriteFifo(Bytes(text + 1, 1, FifoSize))
    /\ text' = text + 1 /\ size' = sendSz
    /\ UNCHANGED <<sendSz, immediateSz, txVars, rxVars, isrVars, rxFifo, rxIrq, lineError,
                   irqEdge, out, received, chars>>

(* The receive buffer's consumer takes everything. *)
Consume ==
    /\ occupied > 0
    /\ fpc = "idle" /\ Foreground("idle", "idle")
    /\ occupied' = 0
    /\ UNCHANGED <<sendSz, immediateSz, txVars, head, isrVars, uartVars, irqEdge, histVars>>

-----------------------------------------------------------------------------
(* S_interruptCallbackISR().                                               *)

Isr(l) == ipc = l

IsrStart ==
    /\ Isr("off") /\ irqEdge
    /\ ipc' = "iir" /\ irqEdge' = FALSE /\ regReads' = 0
    /\ UNCHANGED <<fgVars, txVars, rxVars, iir, uartVars, histVars>>

(* Wait for IIR to show a source, with a limit.  Mutant: without. *)
PollsForever == TRUE
PollsAgain   == regReads < PollLimit

IsrIir ==
    /\ Isr("iir")
    /\ ReadIir
    /\ IF IirSource = "none" /\ PollsAgain
       THEN ipc' = "iir" /\ regReads' = Lesser(regReads + 1, PollLimit)
       ELSE ipc' = "levels" /\ UNCHANGED regReads
    /\ UNCHANGED <<fgVars, txVars, rxVars, txFifo, rxFifo, rxIrq, lineError, irqEdge, histVars>>

(* Read the levels and branch on the source; a line error is an ASSERT.    *)
IsrLevels ==
    /\ Isr("levels")
    /\ ipc' = CASE iir = "error"             -> "halt"
                [] iir = "rx" /\ rxFifo > 0  -> "rxBlock"
                [] iir = "thr"               -> "tx"
                [] OTHER                     -> "next"
    /\ UNCHANGED <<fgVars, txVars, rxVars, iir, regReads, uartVars, irqEdge, histVars>>

(* cbffr_pushBlock(): the free space up to the end of the ring's array.    *)
Contiguous == Lesser(RingSize - occupied, RingSize - head)

RxBlock(n) ==
    /\ ReadFifo(n)
    /\ head' = (head + n) % RingSize
    /\ occupied' = occupied + n
    /\ UNCHANGED <<fgVars, txVars, iir, regReads, txFifo, thr, lineError, irqEdge, histVars>>

(* A second block is moved when the first did not take everything, as at   *)
(* the end of the array.  Mutant: it is not.                               *)
AfterBlockDone(n) == "rxDone"
AfterBlock(n)     == IF n < rxFifo THEN "rxBlock2" ELSE "rxDone"

IsrRxBlock ==
    /\ Isr("rxBlock")
    /\ LET n == Lesser(rxFifo, Contiguous) IN RxBlock(n) /\ ipc' = AfterBlock(n)

IsrRxBlock2 ==
    /\ Isr("rxBlock2")
    /\ RxBlock(Lesser(rxFifo, Contiguous))
    /\ ipc' = "rxDone"

(* The FIFO must be nearly empty now; then IIR is read again. *)
IsrRxDone ==
    /\ Isr("rxDone")
    /\ IF rxFifo >= FifoSize \div 4
       THEN ipc' = "halt" /\ UNCHANGED <<iir, thr>>
       ELSE ReadIir /\ ipc' = IF IirSource = "thr" THEN "tx" ELSE "next"
    /\ UNCHANGED <<fgVars, txVars, rxVars, regReads, txFifo, rxFifo, rxIrq, lineError, irqEdge, histVars>>

(* Send what the FIFO has space for. *)
IsrTx ==
    /\ Isr("tx")
    /\ LET blockSz == Lesser(txPending, Spaces)
       IN  /\ WriteFifo(Bytes(txBffr.text, txBffr.n, blockSz))
           /\ txPending' = txPending - blockSz
           /\ txBffr' = [txBffr EXCEPT !.n = @ + blockSz]
    /\ ipc' = "next"
    /\ UNCHANGED <<fgVars, rxVars, iir, regReads, rxFifo, rxIrq, lineError, irqEdge, histVars>>

(* Another pass while IIR shows a source. *)
IsrNext ==
    /\ Isr("next")
    /\ ReadIir
    /\ ipc' = IF IirSource = "none" THEN "pin" ELSE "levels"
    /\ UNCHANGED <<fgVars, txVars, rxVars, regReads, txFifo, rxFifo, rxIrq, lineError, irqEdge, histVars>>

(* The IRQ line is looked at; if it is low, IIR is read once for nothing   *)
(* and the routine starts over.                                            *)
IsrReturn ==
    /\ Isr("pin") /\ ~Low
    /\ ipc' = "off"
    /\ chars' = 0
    /\ UNCHANGED <<fgVars, txVars, rxVars, iir, regReads, uartVars, irqEdge, text, size, out, received>>

IsrRetry ==
    /\ Isr("pin") /\ Low
    /\ ReadIir
    /\ ipc' = "iir" /\ regReads' = 0
    /\ UNCHANGED <<fgVars, txVars, rxVars, txFifo, rxFifo, rxIrq, lineError, irqEdge, histVars>>

-----------------------------------------------------------------------------
StartTx  == StartTxLevel \/ StartTxSet \/ StartTxAdvance \/ StartTxWrite
Caller   == (\E n \in Sizes, reset \in BOOLEAN : Send(n, reset)) \/ (\E n \in Sizes : ForceTxFlush(n))
IsrStep  == IsrStart \/ IsrIir \/ IsrLevels \/ IsrRxBlock \/ IsrRxBlock2 \/ IsrRxDone \/ IsrTx
            \/ IsrNext \/ IsrReturn \/ IsrRetry
Uart     == UartSend \/ UartReceive \/ UartTimeout

Next == Caller \/ StartTx \/ ForceTxWrite \/ Consume \/ IsrStep \/ Uart

Spec == Init /\ [][Next]_vars

(* The processor runs, the UART sends what it holds and times out.         *)
Fairness == /\ WF_vars(StartTx) /\ WF_vars(ForceTxWrite) /\ WF_vars(Consume)
            /\ WF_vars(IsrStep) /\ WF_vars(UartSend) /\ WF_vars(UartTimeout)

LiveSpec == Spec /\ Fairness

-----------------------------------------------------------------------------
Byte == [text : 0..MaxTexts, n : Nat]

(* Buffers, FIFOs and locals have their types: in particular neither FIFO  *)
(* nor ring ever holds more than its size, and txPending does not go       *)
(* below zero.                                                             *)
TypeOK ==
    /\ txBffr \in Byte /\ txPending \in Nat
    /\ head \in 0..(RingSize - 1) /\ occupied \in 0..RingSize
    /\ fpc \in {"idle", "level", "set", "advance", "write", "force"}
    /\ sendSz \in Sizes \cup {0} /\ immediateSz \in 0..FifoSize
    /\ ipc \in {"off", "iir", "levels", "rxBlock", "rxBlock2", "rxDone", "tx", "next", "pin", "halt"}
    /\ iir \in {"none", "error", "rx", "thr"} /\ regReads \in 0..PollLimit
    /\ txFifo \in Seq(Byte) /\ Len(txFifo) <= FifoSize /\ rxFifo \in 0..FifoSize
    /\ thr \in BOOLEAN /\ rxIrq \in BOOLEAN /\ lineError \in BOOLEAN /\ irqEdge \in BOOLEAN
    /\ text \in 0..MaxTexts /\ size \in Nat /\ out \in Byte
    /\ received \in 0..MaxRx /\ chars \in 0..IsrChars

(* The bytes of the current text that have left or are going to: those on  *)
(* the line, in the FIFO, in the hands of IOP_startTx() and pending.       *)
Committed ==
    (IF out.text = text THEN out.n ELSE 0) + Len(txFifo) + txPending
      + (IF fpc = "write" THEN immediateSz ELSE 0)

(* The transmission path implements TxChannel: although foreground and ISR *)
(* share txBffr and txPending, and the former looks at the UART's level    *)
(* before it sets them, no byte of a text is skipped, repeated or          *)
(* overtaken.                                                              *)
Channel == INSTANCE TxChannel WITH
    Texts <- MaxTexts, MaxSize <- CHOOSE n \in Sizes : \A m \in Sizes : m <= n, size <- Committed
InOrder == Channel!Spec

(* No assertion of the ISR fails unless rxBffr is full: no character is    *)
(* lost to an overrun, and the receive FIFO is emptied into the ring,      *)
(* across the end of its array too.                                        *)
NoAssert == ipc = "halt" => occupied = RingSize

(* The ISR gives the processor back, unless it finds rxBffr full and has   *)
(* nowhere to put what waits in the FIFO.                                  *)
IsrReturns == ipc # "off" ~> ipc = "off" \/ occupied = RingSize

(* What is left of a text when IOP_startTx() returns goes out in the end   *)
(* ("will block until TX is fully sent out to UART", says ltemc-iop.h).    *)
TxDrains == txPending > 0 ~> txPending = 0

(* So it does while nothing is received.                                   *)
TxDrainsAlone == txPending > 0 ~> txPending = 0 \/ received > 0
=============================================================================
