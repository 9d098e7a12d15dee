------------------------------- MODULE NsSio -------------------------------
(***************************************************************************)
(* One channel of the NS16550 serial driver, on a uniprocessor.            *)
(*                                                                         *)
(* The interrupt handler only masks what interrupted and posts a job; the  *)
(* jobs ns16550vxbIntWr2 and ns16550vxbIntRd2 move the characters in the   *)
(* task of the deferral queue.  Tasks write, change options and modes and  *)
(* hang up; the agent of a polled console prints between the steps of a    *)
(* job.  The spin lock is an interrupt lock here, so what is done under it *)
(* is one step.  On a PCI board one interrupt line and one handler serve    *)
(* all channels of the board.                                              *)
(***************************************************************************)
EXTENDS Integers, Sequences, FiniteSets, SequencesExt

CONSTANTS
  FifoSize,    \* fifoSize, and the depth of the UART's FIFOs
  Options,     \* what options may be set: subsets of {"CLOCAL", "CREAD",
               \* "HUPCL"}
  MaxOut,      \* the size of tyLib's output buffer
  MaxCts,      \* bound: changes of CTS
  MaxCalls     \* bound: calls of ioctl()

SioConstants ==
  /\ FifoSize \in Nat \ {0}
  /\ Options \subseteq SUBSET {"CLOCAL", "CREAD", "HUPCL"}
  /\ {MaxOut, MaxCts, MaxCalls} \subseteq Nat

ASSUME SioAssumption == SioConstants

Bits == {"rx", "tx", "ms"}      \* RxFIFO_BIT, TxFIFO_BIT, IER_EMSI

VARIABLES
  \* struct ns16550vxb_chan
  channelMode,  \* "undefined", "poll" or "int"
  options, ier, \* options; the copy of IER
  mcrOn,        \* DTR and RTS in mcr
  queueId,      \* the deferral queue is known
  txDefer,
  callbacks,    \* installed: subset of {"tx", "rx"}
  \* deferred work
  jobs,         \* the deferral queue
  job,          \* where the deferral task is: "none", "rd", or in
                \* ns16550vxbIntWr2: "wr" to begin, "send" in a burst, "more"
                \* after one
  burst,        \* characters ns16550vxbIntWr2 may still write
  \* tyLib
  out,          \* characters in the output buffer
  busy,         \* wrtState.busy: the transmitter was started
  starting,     \* about to call ns16550vxbTxStartup
  \* UART and line
  IER,
  fifoOn,       \* FCR.FIFO_ENABLE
  txFifo, rxFifo,
  cts, dcts,    \* MSR.CTS and MSR.DCTS
  \* histories
  turns, calls,
  muted,        \* options, or a start in polled mode, left output without an
                \* enabled interrupt or a job
  reenabled,    \* options or mode enabled reception while a receive job was pending
  printed,      \* polled output since the burst began
  overrun,      \* a character was lost in THR although the FIFO was enabled
                \* and nobody printed
  stirred,      \* the handler ran for another channel before there was a queue
  lostJob       \* whose interrupts had a job posted to no queue: "other" if
                \* those of this channel were enabled for another's

chan    == << channelMode, options, ier, mcrOn, queueId, txDefer, callbacks >>
defer   == << jobs, job, burst >>
tty     == << out, busy, starting >>
msr     == << cts, dcts >>
uart    == << IER, fifoOn, txFifo, rxFifo, msr >>
counts  == << turns, calls >>
blame   == << muted, reenabled, printed, overrun, stirred, lostJob >>
sioVars == << chan, defer, tty, uart, counts, blame >>

(* After ns16550vxbInstInit and the connection of the interrupt. *)
SioInit ==
  /\ channelMode = "undefined" /\ options = {"CLOCAL", "CREAD"} /\ ier = {"rx"}
  /\ mcrOn = FALSE /\ queueId = FALSE /\ txDefer = FALSE /\ callbacks = {}
  /\ jobs = << >> /\ job = "none" /\ burst = 0
  /\ out = 0 /\ busy = FALSE /\ starting = FALSE
  /\ IER = {} /\ fifoOn = TRUE /\ txFifo = 0 /\ rxFifo = 0
  /\ cts \in BOOLEAN /\ dcts = FALSE
  /\ turns = 0 /\ calls = 0
  /\ muted = FALSE /\ reenabled = FALSE /\ printed = FALSE
  /\ overrun = FALSE /\ stirred = FALSE /\ lostJob = "none"

Clocal   == "CLOCAL" \in options
Depth    == IF fifoOn THEN FifoSize ELSE 1
THRE     == txFifo = 0
WrPending == "wr" \in ToSet(jobs) \/ job \in {"wr", "send", "more"}
RdPending == "rd" \in ToSet(jobs) \/ job = "rd"

(***************************************************************************)
(* The UART and the line.                                                  *)
(***************************************************************************)
ChipSend ==
  /\ txFifo > 0
  /\ txFifo' = txFifo - 1
  /\ UNCHANGED << chan, defer, tty, IER, fifoOn, rxFifo, msr, counts, blame >>

ChipReceive ==
  /\ rxFifo < Depth
  /\ rxFifo' = rxFifo + 1
  /\ UNCHANGED << chan, defer, tty, IER, fifoOn, txFifo, msr, counts, blame >>

CtsChanges ==
  /\ turns < MaxCts
  /\ turns' = turns + 1
  /\ cts' = ~cts
  /\ dcts' = TRUE
  /\ UNCHANGED << chan, defer, tty, IER, fifoOn, txFifo, rxFifo, calls, blame >>

(* IIR: what interrupts, the most urgent first. *)
IIR == CASE "rx" \in IER /\ rxFifo > 0 -> "rda"
         [] "tx" \in IER /\ THRE       -> "thre"
         [] "ms" \in IER /\ dcts       -> "mstat"
         [] OTHER                      -> "none"

(* A character is written to THR; a full FIFO loses it. *)
WriteTHR ==
  /\ txFifo' = IF txFifo < Depth THEN txFifo + 1 ELSE txFifo
  /\ overrun' = (overrun \/ (txFifo >= Depth /\ fifoOn /\ ~printed))

(***************************************************************************)
(* ns16550vxbInt.  All interrupts of the channel are disabled on entry and *)
(* enabled again, from ier, at the end.                                    *)
(***************************************************************************)
Post(j) ==
  /\ IF queueId THEN jobs' = Append(jobs, j) /\ UNCHANGED lostJob
                ELSE lostJob' = (IF stirred THEN "other" ELSE "own") /\ UNCHANGED jobs

IntRda ==
  /\ IIR = "rda"
  /\ ier' = ier \ {"rx"}
  /\ Post("rd")
  /\ UNCHANGED << txDefer, dcts >>

IntThre ==
  /\ IIR = "thre"
  /\ ier' = ier \ {"tx"}
  /\ IF txDefer THEN UNCHANGED << txDefer, jobs, lostJob >>
                ELSE txDefer' = TRUE /\ Post("wr")
  /\ UNCHANGED dcts

IntMstat ==
  /\ IIR = "mstat"
  /\ dcts' = FALSE
  /\ ier' = IF cts THEN ier \cup {"tx"} ELSE ier \ {"tx"}
  /\ UNCHANGED << txDefer, jobs, lostJob >>

(* The handler runs for another channel of the board.  A board with one
   channel is one whose other channels never interrupt. *)
IntOther ==
  /\ IIR = "none"
  /\ UNCHANGED << ier, txDefer, dcts, jobs, lostJob >>

Isr ==
  /\ IntRda \/ IntThre \/ IntMstat \/ IntOther
  /\ IER' = ier'
  /\ muted' = (muted /\ "tx" \notin ier')
  /\ stirred' = (stirred \/ (~queueId /\ IIR = "none"))
  /\ UNCHANGED << channelMode, options, mcrOn, queueId, callbacks, job, burst, tty,
                  fifoOn, txFifo, rxFifo, cts, counts, reenabled, printed, overrun >>

(***************************************************************************)
(* The deferral task.                                                      *)
(***************************************************************************)
JobStart ==
  /\ job = "none" /\ jobs # << >>
  /\ job' = Head(jobs)
  /\ jobs' = Tail(jobs)
  /\ UNCHANGED << chan, burst, tty, uart, counts, blame >>

(* Mutant: a burst begins without a look at LSR. *)
MutWr2Ready ==
  /\ job' = "send"
  /\ burst' = FifoSize
  /\ UNCHANGED << ier, IER, muted >>

(* ns16550vxbIntWr2 looks at LSR under the lock: it may write a burst, or it
   waits for the interrupt. *)
Wr2Ready ==
  /\ THRE
  /\ job' = "send"
  /\ burst' = FifoSize
  /\ UNCHANGED << ier, IER, muted >>

(* Mutant: the interrupt is enabled in the copy only. *)
MutWr2Wait ==
  /\ ~THRE
  /\ ier' = ier \cup {"tx"}
  /\ muted' = FALSE
  /\ job' = "none"
  /\ UNCHANGED << IER, burst >>

Wr2Wait ==
  /\ ~THRE
  /\ ier' = ier \cup {"tx"}
  /\ IER' = ier'
  /\ muted' = FALSE
  /\ job' = "none"
  /\ UNCHANGED burst

Wr2Begin ==
  /\ job = "wr"
  /\ txDefer' = FALSE
  /\ Wr2Ready \/ Wr2Wait
  /\ UNCHANGED << channelMode, options, mcrOn, queueId, callbacks, jobs, tty, fifoOn,
                  txFifo, rxFifo, msr, counts, reenabled, printed, overrun, stirred,
                  lostJob >>

Wr2Again ==
  /\ job = "more"
  /\ Wr2Ready \/ Wr2Wait
  /\ UNCHANGED << channelMode, options, mcrOn, queueId, txDefer, callbacks, jobs, tty,
                  fifoOn, txFifo, rxFifo, msr, counts, reenabled, printed, overrun, stirred,
                  lostJob >>

(* One turn of its inner loop: getTxChar and THR. *)
Wr2Char ==
  /\ job = "send" /\ out > 0
  /\ out' = out - 1
  /\ burst' = burst - 1
  /\ job' = IF burst' = 0 THEN "more" ELSE "send"
  /\ printed' = (printed /\ burst' > 0)
  /\ WriteTHR
  /\ UNCHANGED << chan, jobs, busy, starting, IER, fifoOn, rxFifo, msr, counts,
                  muted, reenabled, stirred, lostJob >>

(* getTxChar returns ERROR: the job ends without enabling the interrupt. *)
Wr2Empty ==
  /\ job = "send" /\ out = 0
  /\ busy' = FALSE
  /\ muted' = FALSE
  /\ job' = "none"
  /\ burst' = 0
  /\ printed' = FALSE
  /\ UNCHANGED << chan, jobs, out, starting, uart, counts, reenabled, overrun, stirred,
                  lostJob >>

(* ns16550vxbIntRd2: one turn of its loop, ns16550vxbPollInput and
   putRcvChar. *)
Rd2Char ==
  /\ job = "rd" /\ rxFifo > 0
  /\ rxFifo' = rxFifo - 1
  /\ UNCHANGED << chan, defer, tty, IER, fifoOn, txFifo, msr, counts, blame >>

(* Mutant: the bit is set in the copy only. *)
MutRd2End ==
  /\ job = "rd" /\ rxFifo = 0
  /\ ier' = ier \cup {"rx"}
  /\ job' = "none"
  /\ UNCHANGED << channelMode, options, mcrOn, queueId, txDefer, callbacks, jobs, burst, tty,
                  uart, counts, blame >>

Rd2End ==
  /\ job = "rd" /\ rxFifo = 0
  /\ ier' = ier \cup {"rx"}
  /\ IER' = ier'
  /\ job' = "none"
  /\ UNCHANGED << channelMode, options, mcrOn, queueId, txDefer, callbacks, jobs, burst, tty,
                  fifoOn, txFifo, rxFifo, msr, counts, blame >>

DeferTask == JobStart \/ Wr2Begin \/ Wr2Again \/ Wr2Char \/ Wr2Empty \/ Rd2Char \/ Rd2End

(***************************************************************************)
(* tyLib and ttyDrv (external) and what they call.                         *)
(***************************************************************************)
(* ttyDrv installs the output callback first. *)
CallbackInstall(type) ==
  /\ type \notin callbacks /\ (type = "rx" => "tx" \in callbacks)
  /\ callbacks' = callbacks \cup {type}
  /\ UNCHANGED << channelMode, options, ier, mcrOn, queueId, txDefer, defer, tty, uart, counts,
                  blame >>

(* write(): the transmitter is started if it is not busy. *)
TtyWrite ==
  /\ callbacks = {"tx", "rx"} /\ out < MaxOut /\ ~starting
  /\ out' = out + 1
  /\ busy' = TRUE
  /\ starting' = ~busy
  /\ UNCHANGED << chan, defer, uart, counts, blame >>

(* Mutant: the interrupt is enabled only if no job runs. *)
MutTxEnable == IF txDefer \/ job # "none" THEN ier ELSE ier \cup {"tx"}

(* With a job waiting the interrupt need not be enabled. *)
TxEnable == IF txDefer THEN ier ELSE ier \cup {"tx"}

TxStartup ==
  /\ starting
  /\ starting' = FALSE
  /\ \/ /\ channelMode = "int"
        /\ ier' = IF Clocal \/ cts THEN TxEnable ELSE ier \ {"tx"}
        /\ dcts' = (dcts /\ Clocal)
        /\ IER' = ier'
        /\ muted' = FALSE
     \/ /\ channelMode # "int"      \* ENOSYS
        /\ muted' = TRUE
        /\ UNCHANGED << ier, dcts, IER >>
  /\ UNCHANGED << channelMode, options, mcrOn, queueId, txDefer, callbacks, defer, out, busy,
                  fifoOn, txFifo, rxFifo, cts, counts, reenabled, printed, overrun,
                  stirred, lostJob >>

(***************************************************************************)
(* ns16550vxbIoctl.                                                        *)
(***************************************************************************)
Call == calls < MaxCalls /\ calls' = calls + 1

(* SIO_HW_OPTS_SET.  Both FIFOs are cleared and enabled. *)
OptsSet(opts) ==
  /\ Call
  /\ options' = opts
  /\ mcrOn' = ("CLOCAL" \notin opts)
  /\ LET flow == IF "CLOCAL" \in opts THEN ier \ {"ms"} ELSE (ier \ {"tx"}) \cup {"ms"}
     IN  ier' = IF "CREAD" \in opts THEN flow \cup {"rx"} ELSE flow
  /\ IER' = IF channelMode = "int" THEN ier' ELSE {}
  /\ fifoOn' = TRUE /\ txFifo' = 0 /\ rxFifo' = 0
  /\ muted' = (busy /\ ~starting /\ "tx" \notin ier' /\ ~WrPending)
  /\ reenabled' = (reenabled \/ (RdPending /\ "rx" \in ier' \cup IER'))
  /\ UNCHANGED << channelMode, queueId, txDefer, callbacks, defer, tty, msr, turns, printed,
                  overrun, stirred, lostJob >>

(* SIO_MODE_SET to interrupt mode.  Without flow control the interrupts are
   enabled in the register and not in its copy. *)
ModeSetInt ==
  /\ Call
  /\ channelMode' = "int"
  /\ queueId' = TRUE /\ stirred' = FALSE
  /\ \/ /\ Clocal
        /\ IER' = ier \cup {"rx", "tx"}
        /\ UNCHANGED << ier, dcts, muted >>
     \/ /\ ~Clocal
        /\ ier' = IF cts THEN ier \cup {"tx"} ELSE ier \ {"tx"}
        /\ dcts' = FALSE
        /\ IER' = ier'
        /\ muted' = FALSE
  /\ reenabled' = (reenabled \/ (RdPending /\ "rx" \in ier' \cup IER'))
  /\ UNCHANGED << options, mcrOn, txDefer, callbacks, defer, tty, fifoOn, txFifo,
                  rxFifo, cts, turns, printed, overrun, lostJob >>

(* SIO_MODE_SET to polled mode. *)
ModeSetPoll ==
  /\ Call
  /\ channelMode' = "poll"
  /\ IER' = {}
  /\ UNCHANGED << options, ier, mcrOn, queueId, txDefer, callbacks, defer, tty, fifoOn,
                  txFifo, rxFifo, msr, turns, blame >>

(* Both FIFOs are cleared; Open enables them again, Hup does not. *)
ClearFifos(on) ==
  /\ Call
  /\ "HUPCL" \in options
  /\ mcrOn' = on
  /\ fifoOn' = on /\ txFifo' = 0 /\ rxFifo' = 0
  /\ UNCHANGED << channelMode, options, ier, queueId, txDefer, callbacks, defer, tty,
                  IER, msr, turns, blame >>

(* SIO_HUP and SIO_OPEN. *)
Hup  == ClearFifos(FALSE)
Open == ~mcrOn /\ ClearFifos(TRUE)

(* ns16550vxbPollOutput in polled mode; EAGAIN changes nothing but DCTS. *)
PollOutput ==
  /\ channelMode = "poll"
  /\ dcts' = FALSE
  /\ IF THRE /\ (Clocal \/ cts)
       THEN WriteTHR /\ printed' = (printed \/ job = "send")
       ELSE UNCHANGED << txFifo, overrun, printed >>
  /\ UNCHANGED << chan, defer, tty, IER, fifoOn, rxFifo, cts, counts,
                  muted, reenabled, stirred, lostJob >>

(* ns16550vxbPollInput in polled mode. *)
PollInput ==
  /\ channelMode = "poll" /\ rxFifo > 0
  /\ rxFifo' = rxFifo - 1
  /\ UNCHANGED << chan, defer, tty, IER, fifoOn, txFifo, msr, counts, blame >>

OnTheLine == ChipSend \/ ChipReceive \/ CtsChanges
Tty   == (\E type \in {"tx", "rx"} : CallbackInstall(type)) \/ TtyWrite \/ TxStartup
Ioctl == (\E opts \in Options : OptsSet(opts)) \/ ModeSetInt \/ ModeSetPoll \/ Hup \/ Open
Polled == PollOutput \/ PollInput

SioNext == OnTheLine \/ Isr \/ DeferTask \/ Tty \/ Ioctl \/ Polled

SioSpec == SioInit /\ [][SioNext]_sioVars

(* The line sends, the interrupt of this channel and the deferral task run,
   and write() goes on.  Nobody has to write, call or answer. *)
SioFairness ==
  /\ WF_sioVars(ChipSend)
  /\ WF_sioVars(Isr /\ ~IntOther)
  /\ WF_sioVars(DeferTask)
  /\ WF_sioVars(TxStartup)

(***************************************************************************)
(* Properties.                                                             *)
(***************************************************************************)
SioTypeOK ==
  /\ channelMode \in {"undefined", "poll", "int"}
  /\ options \subseteq {"CLOCAL", "CREAD", "HUPCL"}
  /\ ier \subseteq Bits /\ IER \subseteq Bits
  /\ {mcrOn, queueId, txDefer, busy, starting, fifoOn, cts, dcts, muted, reenabled, printed,
      overrun, stirred} \subseteq BOOLEAN
  /\ lostJob \in {"none", "other", "own"}
  /\ callbacks \subseteq {"tx", "rx"}
  /\ jobs \in Seq({"wr", "rd"})
  /\ job \in {"none", "wr", "send", "more", "rd"}
  /\ burst \in 0 .. FifoSize
  /\ out \in 0 .. MaxOut
  /\ {txFifo, rxFifo} \subseteq 0 .. FifoSize
  /\ turns \in 0 .. MaxCts /\ calls \in 0 .. MaxCalls

(* Somebody will send what is written: a job that waits or runs, the transmit
   interrupt, or a change of CTS that will be noticed. *)
TransmitterAlive ==
  (busy /\ ~starting /\ channelMode = "int" /\ ~muted /\ lostJob = "none") =>
    \/ WrPending
    \/ "tx" \in ier /\ "tx" \in IER
    \/ ~Clocal /\ "ms" \in IER /\ (~cts \/ dcts)

(* Somebody will read what arrived. *)
ReceiverAlive ==
  (rxFifo > 0 /\ channelMode = "int" /\ lostJob = "none") => RdPending \/ "rx" \in IER

(* "The maximum required job queue number for transmit is one", and so for
   reception as long as nobody enables it while its job waits. *)
OneJobEach ==
  \A i, k \in DOMAIN jobs :
    jobs[i] = jobs[k] /\ (jobs[i] = "rd" => ~reenabled) => i = k

(* A burst never overruns the transmit FIFO, unless somebody prints between
   the look at LSR and the burst, or Hup disabled the FIFO. *)
NoOverrun == ~overrun

(* No job is posted before the first switch to interrupt mode, unless the
   handler ran for another channel of the board and enabled the interrupts of
   this one. *)
JobsHaveAQueue == lostJob # "own"

(* Work is never forgotten: whatever is written or arrives has one job, one
   interrupt or one change of CTS that will look at it. *)
WorkIsPending ==
  SioTypeOK /\ TransmitterAlive /\ ReceiverAlive /\ OneJobEach /\ JobsHaveAQueue

Excused == channelMode # "int" \/ lostJob # "none"

(* What is written goes out, unless the channel leaves interrupt mode, the
   peer holds CTS off, or output was muted, once input
   falls silent. *)
Drained ==
  <>[](rxFifo = 0) =>
    []<>(out = 0 \/ Excused \/ muted \/ (~Clocal /\ ~cts)) \/ []<><<Wr2Char>>_sioVars

(* What arrives is read, once no more is written: one task runs both jobs,
   and neither ends while there is work. *)
InputRead == <>[](out = 0) => []<>(rxFifo = 0 \/ Excused) \/ []<><<Rd2Char>>_sioVars
=============================================================================
