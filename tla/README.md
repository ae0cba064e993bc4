# Verification of LTEmC

LTEmC is a C library that drives a Quectel BGx LTE module through an SC16IS741
SPI-UART bridge: `src/src/ltemc-*.c`. This directory holds TLA+ models of its
core, TLC runs that check them on small instances, and proofs that TLAPS checks.
Every module is written from the source; the build without debug output
(`_DEBUG` 0) is the one modelled.

## 1. The system

| part | state | operations | talks to |
|---|---|---|---|
| **AT command core** `ltemc-atcmd.c` | one `atcmd_t`: `isOpenLocked`, `autoLock`, `resultCode`, `rawResponse`, parser, `dataMode`, time of invocation | `tryInvoke`, `awaitLock`, `invokeReuseLock`, `reset`, `close`, `awaitResult`, `configDataMode`, data handlers | IOP to send; reads `rxBffr`; calls the event manager first |
| **Response parser** `atcmd_stdResponseParser()` | none of its own; looks at `rawResponse` | preamble, finale, tokens, value | every command |
| **I/O processor** `ltemc-iop.c` | `txBffr`/`txPending`, the ring `rxBffr` | `IOP_startTx`, `IOP_forceTx`, the ISR, `IOP_awaitAppReady` | bridge driver by SPI, in foreground and in interrupt |
| **Bridge driver** `ltemc-nxp-sc16is.c` | FIFOs, FCR, IER, IIR, LSR in the chip | register and FIFO reads and writes | chip |
| **Event manager, streams** `ltemc.c` | `streams[4]` | `ltem_eventMgr`, add, delete, look up | URC handlers of the streams |
| **MQTT** `ltemc-mqtt.c` | `state`, `topics[4]`, message ids | start, open, connect, subscribe, cancel, publish, close, reset, status; URC handler | commands; `rxBffr`; application callbacks |
| **Device control** `ltemc.c`, `ltemc-quectel-bg.c` | `deviceState`, pins | create, start, stop, reset, power on and off, initial options | everything, at start-up |
| **Network** `ltemc-network.c` | `providerInfo` and its table of packet networks | await provider, activate, deactivate, default network, scan | commands under one lock |
| **Sockets, HTTP, files** | a control per stream, open files | open, close, send/receive, get/post/read page, file read/write | commands in data mode; `rxBffr` |
| **GNSS, geo-fence, GPIO, modem info, TLS** | cached modem info only | one command, or a short sequence, per call | commands |

The library has one receive buffer. Into it the ISR puts whatever the module
sends: answers to commands, unsolicited result codes (URC), data. Three readers
take from it, each by its own rules: the event manager's URC handlers, the loop
that waits for a command's result, and the data handlers. There is one command
block and one lock for it; an application may be one `loop()`, or the tasks of an
RTOS that yield inside the library's waits.

### What is hard, and what should hold

* **AT command core.** Late answers after a timeout; a cancellation in the middle;
  a lock taken automatically by one call and manually by another; settings of the
  data mode left over; two callers at once. Right: one command open at a time, an
  answer goes to its command, a payload to its prompt, the lock is free when a
  call returns, every call returns.
* **I/O processor.** Foreground and ISR share `txBffr`, `txPending` and the chip's
  FIFO; interrupt sources are cleared by reading IIR; the ring wraps and fills.
  Right: what is sent goes out complete and in order; the ISR ends; nothing is lost
  while there is room.
* **MQTT with the event manager.** URCs stand between answers in the same buffer,
  either reader may take what belongs to the other, and a message arrives in parts.
  Right: the state told to the application follows the module, the topic table
  agrees with the server, each message is delivered once and ends where it ends.
* **Device control.** Power key pulses, a status pin that is polled, a module that
  restarts by itself, retries of the initial options.
* **API functions.** Each has its own way with the lock, its own parser and its own
  idea of what to report; errors release a lock that a sequence holds; some close
  without having the lock, some wait without having it; several parsers are satisfied
  before the response has ended. Right: a success was earned, a failure is real,
  commands do not overlap, no assertion fails.
* **Data transfers.** The content of a file or page, its trailer and the result share
  the ring with the interrupt that fills it; ends are cut by blocks, by the wrap of the
  ring or by what has not arrived, the end of the line `CONNECT` among them. Right: the
  application that asked gets the content,
  in order and nothing else, and the transfer ends.

`PROJECT.json` lists each hazard at its line with the properties that cover it.

## 2. Modules

| module | models | checked by |
|---|---|---|
| `AtCmd` | AT command core with the callers' ways of using it | `AtCmd_single`, `AtCmd_plain`, `AtCmd_provider` |
| `AtCmdProofs` | theorems about `AtCmd`, for any number of callers and for one | tlapm |
| `TxChannel` | what sending promises: the abstract specification | `Iop_duplex` (`InOrder`) |
| `Iop` | foreground, ISR and UART; implements `TxChannel` | `Iop_duplex`, `Iop_live`, `Iop_lostThr` |
| `IopProofs` | theorems about `Iop`, the refinement of `TxChannel` among them | tlapm |
| `Mqtt` | MQTT client, event manager, one stream | `Mqtt`, `Mqtt_close` |
| `MqttProofs` | theorems about `Mqtt` | tlapm |
| `Device` | start, reset and stop of the module; the module as an actor | `Device` |
| `Network` | `ntwk_awaitProvider()` and its table; part of `Device` | `Device_network` |
| `NetworkProofs` | theorems about the table of networks, in `Device` | tlapm |
| `DeviceProofs` | theorems about the other properties of `Device` | tlapm |
| `Parser` | `atcmd_stdResponseParser()` and the parsers built from it; part of `Services` | `Services` |
| `Services` | the API functions of files, GNSS, geo-fence, GPIO, modem information, TLS, HTTP, network and socket opening, on the command interface | `Services` |
| `ServicesProofs` | theorems about `Services`: types, assertions, the lock | tlapm |
| `ServicesSuccessProofs` | what the success of a call in `Services` says | tlapm |
| `Transfers` | the handlers that receive a file or a page, and the table of streams | `Transfers` |
| `TransfersProofs` | theorems about `Transfers` | tlapm |
| `MCAtCmd`, `MCIop`, `MCMqtt`, `MCDevice`, `MCServices`, `MCTransfers` | instances | |

### AtCmd

The variables of the first groups are the fields of `atcmd_t` and `iop_t` they are
named after. `elapsed` stands for the comparison of the clock with `invokedAt` and
`timeout`. `pc` is where a caller is: `try`, `lock`, `lockYield`, `take`, `send`
are the parts of `atcmd_tryInvoke()`/`ATCMD_awaitLock()`; `reuse` is
`atcmd_invokeReuseLock()`; `read`, `dataWait`, `readYield` are the loop of
`atcmd_awaitResult()`; `return` is what the calling function does with the result.
One API function stands for each way the library uses the core:

| operation | way |
|---|---|
| `file_close` | one command, automatic lock, result passed on |
| `sckt_open` | ignores whether `atcmd_tryInvoke()` had the lock; waits for a result that comes later |
| `mqtt_publish` | configures data mode before it has the lock; waits for `+QMTPUB` |
| `sckt_send` | data mode that skips the parser; `atcmd_close()` whatever happened |
| `file_getFSInfo` | manual lock, a sequence that stops at the first failure |
| `ntwk_awaitProvider` | manual lock, polls, does not stop at failures |

Requests are numbered (history the code lacks), and so is every line and text that
belongs to one; `from` is the request whose answer decided the result. A text that
`atcmd_reset()` cuts off leaves the module waiting for its line end, so the next
text completes it to a line the module rejects.

### Iop and TxChannel

One action is one SPI transaction or a run of plain statements; the UART moves a
byte, or raises a source, between any two. The ISR pre-empts the foreground.
About the chip: THR is raised when the spaces *reach* the trigger level, cleared by
reading IIR while it is the source shown, or by writing the FIFO; a flush can raise
it; reading characters clears the receive source below the trigger level. An
interrupt lasts no longer than `IsrChars` characters on the line. `InOrder` is the
refinement: `text`, `out` and the bytes committed to the line implement `TxChannel`.

### Mqtt

The receive buffer is a sequence of pieces: a line, or a part of a message (header,
delimiter, body, closing quote, line end), each with its length, because the code
compares lengths (20 characters to look at a URC, the length of a required
preamble). A call is `todo`, the stages and commands left; a stage (`open`,
`connect`, ...) expands to commands in the state it finds, as the functions do. The
handler of a message is a loop of its own (`MsgBlock`) during which text goes on
arriving; a block is any non-empty part of what is there, which covers the wrap of
the ring and its size limit. Reads through a NULL pointer read the vector table on
the supported hosts and do not trap: `NullSlot` and `StatEvent` are
nondeterministic over what can come of them. `unnoticed`, `late`, `split`,
`cancelled` and `delivered` are history.

### Device and Network

`pc` is where the application is: `start`, `reset`, `cfun`, `waitOff`, `waitOn`,
`pin` and so on are the lines of `QBG_reset()`, `offKey`/`offWait` and
`onKey`/`onWait` those of `QBG_powerOff()`/`QBG_powerOn()`, `init` to `provider`
those of `S__initLTEmDevice()`. Failed assertions are `halt`, the `while (true)` of
`QBG_setOptions()` is `hang`; a reset of the host leaves both, and leaves the module
as it is. `QBG_isPowerOn()` writes `deviceState`, so every look at the pin is a
`Sample`. The module (`module`, `stuck`, `config`, `bridge`) comes up and goes down
in its own time, may ignore a pulse of the power key or be countered by it, restart
by itself, and be stuck in a data state; with its pin the bridge loses power and
settings. A loop of 61 looks or 3 seconds is a look that may repeat and a time-out
that may come at any time while the pin allows it. `assumed`, `unseen`, `sawRising`,
`unconfirmed`, `rose`, `gaveUp` and `lost` are history: they name the cases in which
the code itself cannot know better. The parameter of `ltem_reset()` is a `bool`
handed on as a `resetAction_t`, an enumeration that is in no file of the repository,
so any action may come of it. Of the three settings the scan mode stands for all.

`Network` goes through `ntwk_awaitProvider()` answer by answer; an address is its
place in `given`, so that an address of another context, or of none, is told apart.
The answer to `AT+CGACT?` lists any contexts that include those in use, in the order
of ids (`Listings`, `Lines`): which contexts are defined is up to the module. What
`ntwk_getNetworkInfo()` returns is a pointer: to a row, `NULL`, or to the row behind
the table (`Behind`), which has nothing that could be relied on.

### Parser and Services

`Parser` has a text as a sequence of pieces, each with the command it answers, which
the code does not know. `Verdict` is `atcmd_stdResponseParser()`: an error anywhere,
then the length, the preamble, the end of the response, the tokens. `Decider` names
the command whose text decided.

In `Services` an API function is a script: the commands it sends with their parsers
and data handlers, whether the lock is automatic or manual, what it reports when it
does not get it, whether it goes on after a failure, where it calls `atcmd_close()`
and what it reports in the end. `Script` of an HTTP request depends on the control.
The rest of the module runs scripts: `TryInvoke`, `TakeLock`, `InvokeReuseLock` and
`Refused` are the ways to a command, `ReadResult`, `EnterDataMode`, `DataSent` and so
on the turns of `S__readResult()`, `AwaitReturns` and `EndCall` the way back. Tasks are
cooperative: `At` lets a task run to its next yield (`pYield()` in the result loop,
`pDelay()` in the lock and the data handler). The module answers a command in chunks,
with what it asked for or an error, and takes what comes next for the data it waits
for. `mine`, `got`, `good`, `answered`, `loose`, `owner`, `robber`, `disturbed` and
`misled` are history: which command's answer ended each wait, which commands were carried
out, which left text behind, who released whose lock, who shared the control block, and
who took the success in it for its own.

The properties name what the code itself gets wrong:

| function | what it does | named in |
|---|---|---|
| `file_write()` | its data handler drops the `+QFWRITE` line it then waits for: never succeeds | `FailureIsReal` |
| `file_read()` | its handler never counts the trailer: every read ends by the time-out of the handler, and then of the command | `FailureIsReal` |
| `gpio_adcRead()` | looks for a preamble that the parser took away: never succeeds | `FailureIsReal` |
| `http_post()` | reports an error of the module in its status line as success | `SuccessIsEarned` |
| `sckt_open()` | takes the line `+QIOPEN: <context>,<error>` for success without a look at the error; waits without the lock; once it succeeds, `ltem_addStream()` fails its assertion | `SuccessIsEarned`, `CommandsExclusive`, `StreamAssert` |
| `file_closeAll()` | looks at no result | `SuccessIsEarned` |
| parsers of location, ADC, port and socket | satisfied before the `OK`, which then ends the next command | `loose` |
| the settings `ltem_set...()` | send, and wait, whether or not they had the lock | `CommandsExclusive` |
| these, `file_write()` and twelve more (`CarelessClosers`) | `atcmd_close()` without the lock, or again after it was released | `CommandsExclusive` |
| `mdminfo_ltem()` | goes on in a sequence whose lock a failure has released: assertion | `SequenceHasLock` |
| lists of files and providers | longer than the 120 characters of the response: assertion | `AssertionsHold` |
| `gnss_getLocation()` | an answer that comes after its timeout, and that of the next location behind it, are longer as well | `AssertionsHold` |
| `ntwk_activateNetwork()`, `ntwk_deactivateNetwork()` | parser without delimiters: assertion | `AssertionsHold` |

### Transfers

The response to a read is a sequence of symbols: the line `CONNECT` in three parts,
content that is numbered, trailer, result. `Receive` is the interrupt; it may come
between any two steps of a handler. `FindLine` and `TakeLine` begin both handlers. The
index of the CR is kept in a `uint8_t` (`ltemc-files.c:417`, `ltemc-http.c:536`): when the
CR has not come yet, the value for "not found" becomes the largest byte, the test of the
next line is never true, and the handler takes what is in the ring for the line, up to 257
characters into a work buffer of 32 (`overrun`: what follows is undefined, the model stops
there); a file's length is then read from uninitialized memory (any of `Lengths`). A line
that is taken off in part leaves its end to the application, one taken off with more loses
content; `taken` is how much it was. `FileSuccess`, `FileBlock`, `FileSkip` and
`FileTimeout` are the parts of the loop of `S__filesRxHndlr()`; its `streamSz` never goes
down by the trailer, so a read ends by its timeout, and with success only if length and
trailer wrap to 0. `PageFind`, `PageBlock` and `PageEnd` are those of `S__httpRxHndlr()`. A
block does not go beyond the end of the ring's array (`at`).
`InitControl` enters a control in the table as `http_initControl()` and
`sckt_initControl()` do; the lookup by context reads through NULL entries, which is a
nondeterministic choice. `whole`, `cause` and `taken` are history. `Delivered` and
`TransferEnds` name the ways in which the handlers fail: the line of `CONNECT` is taken
off in part or with more (`taken`), content is dropped as a trailer (`skipped`), a block
cuts the trailer of a page (`cut`), content goes to the work buffer (`swallowed`), or a
page is judged before its result has arrived (`early`). Even then what the application
gets follows without a gap, but for content that is dropped.

## 3. Runs

| run | bounds | shows |
|---|---|---|
| `AtCmd_single` | 1 caller, all 6 operations, 2 requests, cancellations | answers and payloads reach their request, also after a timeout; the lock is free on return unless cancelled; sequences that check results keep the lock; every call returns although the module may be silent |
| `AtCmd_plain` | 3 callers of plain operations, yielding | one command open; released by its owner |
| `AtCmd_provider` | 1 caller, `ntwk_awaitProvider` | **violated**: a timeout released the lock of the sequence; the next command of it fails `ASSERT(isOpenLocked)` |
| `Iop_duplex` | FIFO 8, ring 10, texts of 1 and 10, 9 characters received | type, and refinement of `TxChannel` |
| `Iop_live` | ring 10, 14 characters, text of 8 or 10 sent or forced | no assertion of the ISR fails and it ends unless the ring is full; a text drains when nothing is received |
| `Iop_lostThr` | text of 10, 2 characters | **violated**: the retry path's read of IIR discards a transmit interrupt, the rest is never sent |
| `Mqtt` | 2 calls of `mqtt_start`, `open`, `subscribeTopic`, `cancelTopic`, `close`, `fetchStatus` (`mqtt_start` connects; `mqtt_connect` and `mqtt_reset` are not called by themselves), 2 topics, one beginning with the other, 2 slots, 2 messages, 1 drop | state never ahead of the module without a cause; table against subscriptions; messages end themselves; every call returns |
| `Mqtt_close` | start and close | **violated**: `mqtt_close()` does not set the state (`==` for `=`); `mqtt_open()` then does nothing |
| `Device` | 2 calls of all, 4 reset actions, 1 restart, 1 text before APP RDY, no contexts, 1 cancellation | a reset that returns has restarted the module or given up; what `deviceState`, settings and options say is so, but for the named cases; off after stop; every call ends |
| `Device_network` | 2 calls, 3 contexts (2, 3, 4), table of 2, 2 addresses | the table is never seen half filled; the application finds those contexts in use that the module listed and the table has rows for, and no others; each address is with its context |
| `Services` | 2 calls together: 1 task that calls any function, 1 rival; 5 commands | success earned, failure real, commands exclusive, a sequence has its lock, assertions, but for the cases of the table above |
| `Transfers` | 2 HTTP controls, 1 socket, contexts 0 and 2; files of 0, 4, 10 and 13, pages of 0, 4 and 12 symbols; ring of 20, two positions of its tail; work buffer of 8; bytes to 10, words of 12 values; lengths 0, 2, 9 from uninitialized memory; results 0 and 703 | content in order and in full, to its asker, with the line of `CONNECT` cut anywhere; the transfer ends, but for the cases named |

Why these bounds. Two requests are one that is given up and one that may take its
answer. Three callers are an owner and two that race. A FIFO of 8
with trigger 7 has the shape of 64 with 56 (a text below, at and above it; the ring
longer than the FIFO and not a multiple of it), and 14 characters wrap and fill the
ring. In `Mqtt` two calls are one that leaves something under way and one that meets
it; the table may be filled before the first of them in any way that subscribe and
cancel leave it, and of two messages one may stand in the other's way.
In `Device` two calls are one that leaves a state behind and one that meets it, from
every state the module may be in when the host starts; a buffer of two texts
overflows with one text and APP RDY. A cancellation that is withdrawn is in `Device`,
where the calls have to end. In `Device_network` the contexts are 2, 3 and 4, so that ids
are not positions, and one more than rows: answers of none, fewer, as many and more lines
than the table has rows.

In `Services` the calls are two of one task, of which the first leaves an answer behind
and the second meets it, or one that the rival comes between, which takes the lock at once
and, when it is refused, releases it; functions with the same script up to the code
they report (`Alike`) are checked once. Five commands are those of the longest request. Larger instances than
the run's were checked once: four calls of `http_get` and `http_readPage` by one task
(17 million states), and four by two tasks of a plain call, a setting, a socket, a page
and a port (17 million). In `Transfers` sizes are scaled: a file's trailer has 3 symbols for 6
characters, a page's 4 for 8, the work buffer holds 8 for 32 and the ring 20 for 2000, of
which a block is a quarter as in the code. A byte goes to 10, between work buffer and ring
as 255 is between 32 and 2000, and a word has 12 values, less than the ring only so that
its wrap is met: with a file of 10 the sum of length and trailer wraps, one of 13 does not
fit the word. A page of 12 is two blocks and a rest, and with the tail at 15 the content
wraps. The lengths read from uninitialized memory are none, one below what is there, and
the one with which the sum wraps to 0.

Met while modelling, in the models but without a run of their own: with
`Preemptive` TRUE and two callers two commands are open at once (the lock is tested
and set in two steps); `sckt_send()` and `ntwk_awaitProvider()` release a lock they
do not own when called while another holds it; a status query that is answered by
`OK` alone (no connection) never ends in the parser and leaves the old state
(`ClosedIsRecorded` without `mqtt_close` in `Calls`); `mqtt_reset()` after
`mqtt_start()` fails the assertion of `ltem_addStream()` (`AddStreamAssert`).
The retry of `QBG_setOptions()` never succeeds: `initError` is not cleared, so a
second pass without an error hangs as well. `ltem_reset()` initializes with `false`,
so `appReady` is assumed of a module that has just been reset, before its APP RDY
(`ltemc-types.h:91`: ready for application and services). `ltem_stop()` on a module that is coming up
finds it off, and the module is on later. `cancellationRequest` keeps
`ntwk_awaitProvider()` polling, where `ltemc-network.c:152` says that it cancels.
`networkCnt` counts the contexts that were listed, active or not, and is 1 when none was
or the module did not answer; `ltemc-network.h:108-109` and `ltemc-network.c:285` say that
`ntwk_getActiveNetworkCount()` is the count of active data contexts. With more contexts
listed than rows it is one more than the rows: the row behind the table is read, cleared
and may be written, and may be what `ntwk_getNetworkInfo()` finds. That lookup
finds inactive contexts as well, where `ltemc-network.h:117` says "NULL if context ID
not active"; `TableMatchesAnswer` asks, of the row that is found, whether its context is in use,
and of the count only that it goes beyond the rows for no answer that fits them.
Neither handler of `Transfers` can return `internalError`, the answer meant for a `CONNECT`
whose line end has not come; instead the work buffer may be overrun and a length be read
from uninitialized memory, and a file that was read in full ends by its timeout.
With three tasks of which two send sequences and one a setting (`Services`), the setting's
success, written into the shared block, is read by the waiting sequence as its own; the
sequence goes on with a lock that is another's or nobody's (`misled`). The status that
follows a page loses its first digit (`ltemc-http.c:573` skips the preamble by `sizeof`),
so that an error 700 is reported as success (`ErrorsShow` excludes it).

### Fairness

`AtCmd`: the processor runs a caller that can go on, the clock advances, a wait for
the lock ends by its timeout (strong fairness: the wait yields and is retried). The
module owes nothing. `Iop`: processor, UART and its receiver time-out run; nothing
is assumed of what arrives. `Mqtt`: the library runs, text that the module has begun
to send arrives (115200 baud, no flow control), and a command does not outlive its
timeout (strong: the wait loops through the event manager). `Transfers`: what the module
has announced arrives, and a handler that can go on does (it does not yield). `Services`
states no fairness: it has no liveness property. `Device`: the host runs,
its clock advances, so that the waits end, and a cancellation is withdrawn; the
module owes nothing.

## 4. Proofs

The theorems hold for every value of the constants that the named assumptions of the
modules allow (`AtCmdAssumption`, `IopAssumption`, ...: sets, sizes and bounds of the
right kind). Where a theorem needs more, it says so after ASSUME:

| assumption | why the code justifies it |
|---|---|
| `Cooperative` (`AtCmd`) | tasks switch only where the code yields; only operations that test the lock |
| `OneCaller` (`AtCmd`) | an application that calls from one `loop()` |
| `FastEnough` (`Iop`) | FIFO 64, trigger 56: the ISR returns within the 8 characters (0.7 ms at 115200 baud) that are left, less than the 16 at which it asserts |
| `GreatestSize` (`Iop`) | texts come from buffers of fixed size |
| `~Forces` (`Iop`) | `IOP_forceTx()` abandons a text; what follows it is another question (plan, 2) |
| `WorkHolds` (`Transfers`) | the 32 characters of the work buffer take trailer and status |
| `ErrorsShow` (`Transfers`) | every error number of the module that is not a multiple of 100 |

Each safety property `P` is proved by an inductive invariant `I`: `Init => I`,
`I /\ [Next]_vars => I'`, `I => P`. The invariants were checked by TLC before they were
proved; what each adds to its property is what makes it inductive.

**AtCmd.** `TypeCorrect` (`TypeInv`): a caller inside the library has a request, without
which the lines of the module have no valid number. `MutualExclusion` and `OwnerReleases`
(`MutexInv`): a caller with a command open owns the lock, and a caller past the test of
the lock has the processor until it has set it. That is where cooperation is needed.
`LockFree` and `SequenceKeepsLock` (`LockInv1`): with one caller, the lock is taken exactly
while that caller has a request that goes on, and a result other than success has released
it by the time it is seen.
`AnswersOwn`, `PayloadReaches` and `DataModeEnds` (`TrafficInv`), with one caller: all that
is under way, the texts the module has and the one the UART sends (`Pipe`), the lines in
the ring and those a parser may look at (`Seen`), is of the last request or of one given up
(`Own`), but for data nobody waits for at the front. The text of the request is the last in
the pipe, or followed by its own payload only (`AtEnd`); once its last line was received, or
its result decided, the module has no more of it (`LastLine`, `HasAnswer`); the line after a
prompt is the acknowledgement of the same request (`Prompts`), so what the data handler
takes for it is; and settings of the data mode that are left over belong to a request that
is over, with no prompt to come, or to this one, with its data still to be sent (`PipeOf`,
`RxOf`, `Modes`). The conditions are stated over `Pipe`, which `TxDone` does not change.

**Iop.** `Typed` (`TypeInv`), for forced texts as well. `NoAssertion` (`HaltInv`): while
the ISR is not running the receive FIFO is below its trigger level or an interrupt is
pending, and it grows beyond only by what arrives within one interrupt. `TransmitsInOrder`
(`OrderInv`) is the refinement of `TxChannel`: the FIFO holds consecutive bytes of the
current text, `txBffr` points at the byte that follows FIFO and hand, and from the moment
`IOP_startTx()` sets it until it has written, the ISR has nothing to send (`Undisturbed`).
Initial state to initial state; each step is `Begin`, `SendByte` or `Cut` (a text cut short), or a stutter.

**Mqtt.** `TopicsUnique` (`TableInv`). `Typed` and `ServerKnowsTable` (`Base`): the stream
of received text, ring and line together, is a sequence of whole pieces, messages numbered
in the order of the server; an order or answer under way that will subscribe is of a topic
that is in the table or was cancelled. `MessagesEndThemselves` (`EndInv`): headers that
are still to come are later than what was delivered, and the closing quote of the message
in hand is still in the stream unless it was split. `StateIsNotAhead` (`AtHand`): for a
command that is under way the stream holds what makes its result true, or the news of a
loss behind it; here the interplay of the two readers is.

**Network and Device.** `AddressesOwned` (`NetInv`): each address was given to the context
it stands with, although `AT+CGPADDR` is asked after `AT+CGACT?` and the network changes
between. `TableIsWhole` holds with the count cleared first and written last. `TableAgrees`
(`TableInv`): from the answer on, each row matches its line, rows
without a line have no context, and the count is that of the lines, one for none and one
more than the rows for more. `Typed`; `AppReadyIsJustified`
(`SaidInv`: APP RDY in the bridge was said by the module that is up);
`ResetsRestart` (`UpInv`: from the first low pin on, a high pin means that the module came
up or the library gave up); `SettingsReach` (`SettingsInv`); `StopsOff` (`StopInv`: the
module is held in reset only by `ltem_reset()`); `StartsInitialized` (`InitInv`: at each
place of the start, how much of bridge and options is done).

**Services.** `Exclusive` and `SequencesLocked` (`LockInv`), for any tasks and any calls:
a call that is left alone (not robbed, not misled, and not one of the few that do without)
owns the lock while it has a command open and, in a sequence, between its commands. What is
used of the 38 scripts is stated once (`Fit`) and proved of each.
`ServicesTyped` (`LockInv`, `TextInv`, `WhereInv`): what is under way answers a command that
was sent, and the result that is recorded is never a pending one. `AssertionsKnown`
(`AssertInv`): per command (`TextInv`), what the module still answers, what stands in the
buffer and what is in the response weigh, together, no more than the longest answer to one
command without a list, the 85 characters of a location (`ltemc-gnss.c:105` says 86), because nothing is answered twice and text only moves
or is dropped. `strlen` is a fold over the text; what the proof needs of it, that the weight
of a text is the sum of those of its parts and of those of its commands, is proved from the
recursive function it unfolds to, by the least length for which it would be false.

`SuccessesEarned` (`EarnInv`) follows the text from the module to the parser, in four
invariants, each inductive only with those before it and with `LockInv`, `TextInv` and
`WhereInv`:

* `OwnInv`, whose command is the last: that of a call that has commands and is not
  disturbed, so that what is received while it waits and is later than all before is its.
* `OrderInv`, the order of the text: what is in the response is of commands before or equal
  to those of the buffer, and a line that begins with a preamble has its end behind it in the
  same piece, so that a parser never looks at half a line.
* `TaleInv`, what may still come: of a command nobody waits for only what `loose` records;
  of the last command what is left of one answer to it, chunk by chunk. Words that promise
  that it was carried out (the `OK` of a plain command, the status line of a request, ...) are
  in the buffer, in the response or to come only if it was; behind the word that ends the
  response the module has no more; and a data handler is at work only behind the `CONNECT`
  of that answer. The text before it is of commands in `loose`. This holds as long as the
  wait has not been ended by leftovers, which is why `got` is recorded.
* `EarnInv`, what the calls have earned: once a call goes on behind a success, each of its
  commands so far was carried out with nothing more to come, or had its wait ended by
  leftovers; `http_get()` reads the status of the line that ended its wait.

That the verdict of each parser rests on a word of the command it names (`got`) is proved
from `Verdict` and `Decider` for every text; that each answer of the module keeps to the tale,
from `Replies` for each kind of command. TLC checked the four invariants before they were
proved, on the instance of the run and on one task with three calls and eight commands.

**Transfers.** `Typed`, `ContentInOrder` (`Base`): what left the ring, the ring and the
line together are the response (`RingInv`), counts fit their words although they wrap or
come from uninitialized memory (`TypeInv`), a trailer that was found is still there when its
block is sent (`WorkInv`), and what was delivered is the response from where the line of
`CONNECT` was taken off, so the next symbol in the ring is the one after the last delivered
(`OrderInv`). `PageReachesAsker`. `WholeInFull`: a response that lay in the ring in one
piece is delivered in full if it fits (`FullInv`: the line is then taken off as it is).
`TransfersDeliver` is the three together.

What proving found in the models:

* `AtCmd`: a second `atcmd_reset()` while the same payload is still going out turned the cut
  payload into a cut command, which the module would wait for the end of; a text cut twice
  stays what it was (`CutShort`).
* `AtCmd`: `AnswerIsOwn` did not say that a request the library refused, because the lock
  was not to be had, has no answer; `abandoned` now records it.
* `Mqtt`: a topic cancelled when the table was full was not recorded as cancelled, and the
  news of a loss was forgotten while the recorded state was still wrong.
* `Services`: `CommandsExclusive` was false of three tasks (misled sequences, and settings
  among the calls that go on without the lock); with two, TLC could not show it.
* `Services`: `AssertionsHold` was false of a location that answers late and the next
  location behind it. `SuccessIsEarned` was false of three calls: a page whose handler was
  started by the `CONNECT`, and ended by the error line, of an earlier page that timed out
  takes its own `OK` for the end, though its own error line is still to come; the history
  (`got`, `loose`) now says so. The run had one call of each task, and now has two together.
* `Transfers`: the error number that reads as 0 (above).
* `Parser`, `Services`: three definitions were a CASE whose guards overlapped, where the prover
  and TLC may take different arms; the guards are now exclusive.

Model-checked and not proved: the liveness properties (`CallReturns`, `IsrReturns`,
`TxDrainsAlone`, `CallEnds`, `TransferEnds`), which are beyond the prover; of `Services`,
`FailureIsReal`, which needs of each parser that it also accepts every answer that came in
full, behind any leftovers (plan, 1).

## 5. Plan

1. Proofs: `FailureIsReal` of `Services`. `TaleInv` says that an answer promises no more
   than was done; this needs the converse, that the answer to a command that was carried out
   promises it and that its parser sees the promise.
2. Forced texts (`IOP_forceTx()`) in `TxChannel`: what may follow of a text that was
   overtaken.
3. Custom headers of HTTP requests against the size of their buffer.

## 6. Not modelled

* Code that does not link, or that nothing reaches: `geo_add()`, `geo_delete()` and
  `sckt_close()` call `atcmd_tryInvokeDefaults()`, `file_truncate()` calls
  `atcmd_tryInvokeAdv()`, neither of which exists; the URC and receive handlers of
  sockets are registered nowhere; `ltem_deleteStream()` is called from `sckt_close()`
  alone; no call sets the state of a socket to open. `sckt_flush()`,
  `sckt_getState()` and `ntwk_setOperator()` are empty. Lines 706 to 846 of
  `ltemc-atcmd.c` are a comment.
* A data context from `streamCnt` (4) on, which the assertion in the initialization of a
  control (below 6) lets pass, is written behind the table of streams.
* The text of commands and of custom headers, conversions of what was read (positions,
  signal, versions), the scanning of lists into arrays of the caller.
* Creation and destruction of the structures, register start-up of the bridge, debug
  output, and the platform libraries (ring buffer, SPI, clock), which are taken as what
  their use shows; definitions for them are marked external.
