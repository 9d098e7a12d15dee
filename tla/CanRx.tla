------------------------------- MODULE CanRx -------------------------------
(***************************************************************************)
(* The receive path of one SJA1000 behind the VxWorks DevIO driver: frames *)
(* collect in the controller's receive FIFO, PR6120_CAN_ISR moves one per  *)
(* interrupt into the channel's input ring and wakes the readers, read()   *)
(* takes the oldest message, select() blocks a task until there is one,    *)
(* and the ioctl commands of the device read the same registers, reset the *)
(* controller or flush the ring underneath.                                *)
(*                                                                         *)
(* One processor: an interrupt handler runs to completion before any task  *)
(* continues, and tasks interleave wherever intLock() is not held.  The    *)
(* controller receives between any two register accesses.                  *)
(***************************************************************************)
EXTENDS Naturals, FiniteSets, Rings

CONSTANTS
  Readers,     \* tasks that select() and read() the channel
  MaxFrames,   \* bound: frames that appear on the bus
  FifoCap,     \* frames the controller's receive FIFO holds
  RingCap,     \* messages the input ring holds (WNCAN_DEFAULT_RINGBUF_SIZE)
  Commands,    \* what else happens, see AllCommands
  NoFrame      \* stale bytes in an empty receive window

(* "other": an interrupt source that hides the receive status; "busoff": the
   controller leaves the bus; the others are ioctls: "get" WNCAN_CHNCONFIG_GET
   with WNCAN_CHNCFG_CHANNEL, "writeid" WNCAN_CHNCONFIG_SET with it, "filter"
   the global receive filter and bit timing, "halt" WNCAN_HALT, "flush"
   FIOFLUSH and FIORFLUSH, "enable" WNCAN_CHN_ENABLE. *)
AllCommands ==
  {"other", "busoff", "get", "writeid", "filter", "halt", "flush", "enable"}

(* The n-th frame on the bus that passes the acceptance filter. *)
Frame == 1 .. MaxFrames

ASSUME RxAssumption ==
  /\ MaxFrames \in Nat
  /\ FifoCap \in Nat \ {0}
  /\ RingCap \in Nat \ {0}
  /\ Commands \subseteq AllCommands
  /\ NoFrame \notin Frame

VARIABLES
  onBus,      \* frames seen on the bus so far
  rxFifo,     \* the controller's receive FIFO, oldest frame first
  rie,        \* IER.RIE
  rm,         \* MOD.RM: the controller is in reset mode
  other,      \* an interrupt bit is set that hides the receive status
  isr,        \* where PR6120_CAN_ISR is, "idle" when no interrupt is serviced
  canMsg,     \* the handler's message between reading and queueing it
  inputBuf,   \* the channel's input ring, oldest message first
  pc,         \* where each reader is
  waiting,    \* readers on the channel's select wake-up list
  woken,      \* readers that hold their wake-up semaphore
  cmd,        \* the ioctl command in progress under the device mutex
  saved,      \* register values that command restores
  got,        \* the frame whose data WNCAN_CHNCONFIG_GET has read
  out,        \* history: messages read() returned, in order
  accepted,   \* history: frames the receive FIFO took
  taken,      \* history: frames whose data WNCAN_CHNCONFIG_GET returned
  lost        \* history: frames a full ring, a reset or a flush dropped

vars == << onBus, rxFifo, rie, rm, other, isr, canMsg, inputBuf, pc, waiting,
           woken, cmd, saved, got, out, accepted, taken, lost >>

isrVars     == << isr, canMsg >>
readerVars  == << pc, waiting, woken >>
commandVars == << cmd, saved, got >>
history     == << out, accepted, taken, lost >>

(* What registers 16 to 28 show: the oldest frame of the FIFO. *)
Window == IF rxFifo = << >> THEN NoFrame ELSE Head(rxFifo)

(* The handler keeps tasks out; intLock() sections are single steps here. *)
TaskRuns == isr = "idle"

(* semTake(wncDrv->mutex): taken by every ioctl, not by read(). *)
MutexFree ==
  /\ cmd = "none"
  /\ \A r \in Readers : pc[r] # "selecting"

Init ==
  /\ onBus = 0
  /\ rxFifo = << >>
  /\ rie = TRUE
  /\ rm = FALSE
  /\ other = FALSE
  /\ isr = "idle"
  /\ canMsg = NoFrame
  /\ inputBuf = << >>
  /\ pc = [r \in Readers |-> "idle"]
  /\ waiting = {}
  /\ woken = {}
  /\ cmd = "none"
  /\ saved = [rie |-> FALSE, rm |-> FALSE]
  /\ got = NoFrame
  /\ out = << >>
  /\ accepted = {}
  /\ taken = {}
  /\ lost = {}

(***************************************************************************)
(* The SJA1000.                                                            *)
(***************************************************************************)

(* A frame arrives; a full FIFO drops it (data overrun). *)
ChipReceive ==
  /\ onBus < MaxFrames
  /\ ~rm
  /\ onBus' = onBus + 1
  /\ IF Len(rxFifo) < FifoCap
     THEN /\ rxFifo' = Append(rxFifo, onBus + 1)
          /\ accepted' = accepted \cup {onBus + 1}
     ELSE UNCHANGED << rxFifo, accepted >>
  /\ UNCHANGED << rie, rm, other, isrVars, inputBuf, readerVars, commandVars,
                  out, taken, lost >>

(* TI, WUI or BEI is set: SJA1000_GetIntStatus will not report WNCAN_INT_RX. *)
ChipInterrupt ==
  /\ "other" \in Commands
  /\ other' = TRUE
  /\ UNCHANGED << onBus, rxFifo, rie, rm, isrVars, inputBuf, readerVars,
                  commandVars, history >>

(* Reset mode empties the receive FIFO. *)
EnterReset ==
  /\ rm' = TRUE
  /\ rxFifo' = << >>
  /\ lost' = lost \cup Entries(rxFifo)

ChipBusOff ==
  /\ "busoff" \in Commands
  /\ ~rm
  /\ EnterReset
  /\ UNCHANGED << onBus, rie, other, isrVars, inputBuf, readerVars, commandVars,
                  out, accepted, taken >>

(***************************************************************************)
(* PR6120_CAN_ISR.  RI follows the FIFO: reading IR does not clear it, and *)
(* it is set again after each release while frames are left.               *)
(***************************************************************************)

ReceivePending == rie /\ rxFifo # << >>

(* SJA1000_GetIntStatus lets every other status overwrite WNCAN_INT_RX; the
   handler then serves that one and returns. *)
IsrReadStatus ==
  /\ isr = "idle"
  /\ other \/ ReceivePending
  /\ other' = FALSE
  /\ isr' = IF other THEN "idle" ELSE "RX"
  /\ UNCHANGED << onBus, rxFifo, rie, rm, canMsg, inputBuf, readerVars,
                  commandVars, history >>

(* Mutant: CAN_ReadData does not release the receive buffer. *)
MutIsrNoRelease ==
  /\ isr = "RX"
  /\ isr' = "put"
  /\ canMsg' = Window
  /\ UNCHANGED << onBus, rxFifo, rie, rm, other, inputBuf, readerVars,
                  commandVars, history >>

(* wncDevIOIsrHandler, case WNCAN_INT_RX: CAN_ReadID and CAN_ReadData.  The
   latter releases the receive buffer if SR.RBS says there was a message and
   tells so in newdata, which the handler does not look at. *)
IsrRead ==
  /\ isr = "RX"
  /\ isr' = "put"
  /\ canMsg' = Window
  /\ rxFifo' = IF rxFifo = << >> THEN << >> ELSE Tail(rxFifo)
  /\ UNCHANGED << onBus, rie, rm, other, inputBuf, readerVars, commandVars,
                  history >>

(* Mutants of IsrPut: no room test; the ring's oldest message makes room. *)
MutIsrPutNoRoomTest ==
  /\ isr = "put"
  /\ isr' = "idle"
  /\ canMsg' = NoFrame
  /\ inputBuf' = Append(inputBuf, canMsg)
  /\ woken' = woken \cup waiting
  /\ UNCHANGED << onBus, rxFifo, rie, rm, other, pc, waiting, commandVars,
                  history >>

MutIsrPutOverwrites ==
  /\ isr = "put"
  /\ isr' = "idle"
  /\ canMsg' = NoFrame
  /\ woken' = woken \cup waiting
  /\ inputBuf' = IF Len(inputBuf) < RingCap
                 THEN Append(inputBuf, canMsg)
                 ELSE Append(Tail(inputBuf), canMsg)
  /\ UNCHANGED << onBus, rxFifo, rie, rm, other, pc, waiting, commandVars,
                  history >>

(* ... then rngBufPut and, if there was room, selWakeupAll(SELREAD). *)
IsrPut ==
  /\ isr = "put"
  /\ isr' = "idle"
  /\ canMsg' = NoFrame
  /\ IF Len(inputBuf) < RingCap
     THEN /\ inputBuf' = Append(inputBuf, canMsg)
          /\ woken' = woken \cup waiting
          /\ UNCHANGED lost
     ELSE /\ lost' = lost \cup ({canMsg} \ {NoFrame})
          /\ UNCHANGED << inputBuf, woken >>
  /\ UNCHANGED << onBus, rxFifo, rie, rm, other, pc, waiting, commandVars, out,
                  accepted, taken >>

(***************************************************************************)
(* select() and read().                                                    *)
(***************************************************************************)

(* Mutant: the node goes on the list only after the test. *)
MutSelectAdd(r) ==
  /\ TaskRuns /\ MutexFree
  /\ pc[r] = "idle"
  /\ pc' = [pc EXCEPT ![r] = "selecting"]
  /\ woken' = woken \ {r}
  /\ UNCHANGED << onBus, rxFifo, rie, rm, other, isrVars, inputBuf, waiting,
                  commandVars, history >>

(* FIOSELECT under the device mutex: first selNodeAdd ... *)
SelectAdd(r) ==
  /\ TaskRuns /\ MutexFree
  /\ pc[r] = "idle"
  /\ pc' = [pc EXCEPT ![r] = "selecting"]
  /\ waiting' = waiting \cup {r}
  /\ woken' = woken \ {r}
  /\ UNCHANGED << onBus, rxFifo, rie, rm, other, isrVars, inputBuf, commandVars,
                  history >>

(* ... then, under intLock, the test for a message. *)
SelectCheck(r) ==
  /\ TaskRuns
  /\ pc[r] = "selecting"
  /\ pc' = [pc EXCEPT ![r] = "pending"]
  /\ woken' = IF inputBuf # << >> THEN woken \cup {r} ELSE woken
  /\ UNCHANGED << onBus, rxFifo, rie, rm, other, isrVars, inputBuf, waiting,
                  commandVars, history >>

(* The task got its wake-up semaphore; FIOUNSELECT takes it off the list. *)
SelectReturn(r) ==
  /\ TaskRuns /\ MutexFree
  /\ pc[r] = "pending"
  /\ r \in woken
  /\ pc' = [pc EXCEPT ![r] = "ready"]
  /\ waiting' = waiting \ {r}
  /\ UNCHANGED << onBus, rxFifo, rie, rm, other, isrVars, inputBuf, woken,
                  commandVars, history >>

(* wncDevIOReadBuf: the oldest message, or 0 bytes from an empty ring. *)
ReadBuf(r) ==
  /\ TaskRuns
  /\ pc[r] \in {"idle", "ready"}
  /\ inputBuf # << >>
  /\ out' = Append(out, Head(inputBuf))
  /\ inputBuf' = Tail(inputBuf)
  /\ pc' = [pc EXCEPT ![r] = "idle"]
  /\ UNCHANGED << onBus, rxFifo, rie, rm, other, isrVars, waiting, woken,
                  commandVars, accepted, taken, lost >>

ReadBufEmpty(r) ==
  /\ TaskRuns
  /\ pc[r] \in {"idle", "ready"}
  /\ inputBuf = << >>
  /\ pc' = [pc EXCEPT ![r] = "idle"]
  /\ UNCHANGED << onBus, rxFifo, rie, rm, other, isrVars, inputBuf, waiting,
                  woken, commandVars, history >>

(***************************************************************************)
(* ioctl commands that reach the receive path.  They hold the device mutex *)
(* and never lock interrupts around the registers.                         *)
(***************************************************************************)

(* WNCAN_CHNCONFIG_GET: CAN_ReadID ... *)
GetId ==
  /\ "get" \in Commands
  /\ TaskRuns /\ MutexFree
  /\ cmd' = "gotId"
  /\ UNCHANGED << onBus, rxFifo, rie, rm, other, isrVars, inputBuf, readerVars,
                  saved, got, history >>

(* ... the data bytes of CAN_ReadData ... *)
GetData ==
  /\ TaskRuns
  /\ cmd = "gotId"
  /\ cmd' = "gotData"
  /\ got' = Window
  /\ UNCHANGED << onBus, rxFifo, rie, rm, other, isrVars, inputBuf, readerVars,
                  saved, history >>

(* ... and its release of whatever the receive buffer now holds. *)
GetRelease ==
  /\ TaskRuns
  /\ cmd = "gotData"
  /\ cmd' = "none"
  /\ rxFifo' = IF rxFifo = << >> THEN << >> ELSE Tail(rxFifo)
  /\ taken' = taken \cup ({got} \ {NoFrame})
  /\ got' = NoFrame
  /\ UNCHANGED << onBus, rie, rm, other, isrVars, inputBuf, readerVars, saved,
                  out, accepted, lost >>

(* WNCAN_CHNCONFIG_SET, SJA1000_WriteID on the receive channel: mask RIE ... *)
WriteIdMask ==
  /\ "writeid" \in Commands
  /\ TaskRuns /\ MutexFree
  /\ cmd' = "masked"
  /\ saved' = [saved EXCEPT !.rie = rie]
  /\ rie' = FALSE
  /\ UNCHANGED << onBus, rxFifo, rm, other, isrVars, inputBuf, readerVars, got,
                  history >>

(* ... enter reset mode, unless the controller is in it ... *)
WriteIdReset ==
  /\ TaskRuns
  /\ cmd = "masked"
  /\ cmd' = "acceptance"
  /\ saved' = [saved EXCEPT !.rm = rm]
  /\ IF rm THEN UNCHANGED << rm, rxFifo, lost >> ELSE EnterReset
  /\ UNCHANGED << onBus, rie, other, isrVars, inputBuf, readerVars, got, out,
                  accepted, taken >>

(* ... leave it again ... *)
WriteIdLeave ==
  /\ TaskRuns
  /\ cmd = "acceptance"
  /\ cmd' = "unmask"
  /\ rm' = saved.rm
  /\ UNCHANGED << onBus, rxFifo, rie, other, isrVars, inputBuf, readerVars,
                  saved, got, history >>

(* Mutant: the receive interrupt stays masked. *)
MutWriteIdUnmask ==
  /\ TaskRuns
  /\ cmd = "unmask"
  /\ cmd' = "none"
  /\ UNCHANGED << onBus, rxFifo, rie, rm, other, isrVars, inputBuf, readerVars,
                  saved, got, history >>

(* ... and restore RIE. *)
WriteIdUnmask ==
  /\ TaskRuns
  /\ cmd = "unmask"
  /\ cmd' = "none"
  /\ rie' = saved.rie
  /\ UNCHANGED << onBus, rxFifo, rm, other, isrVars, inputBuf, readerVars,
                  saved, got, history >>

(* SJA1000_SetGlobalRxFilter, GetGlobalRxFilter and SetBitTiming pass through
   reset mode without masking the interrupt. *)
FilterReset ==
  /\ "filter" \in Commands
  /\ TaskRuns /\ MutexFree
  /\ cmd' = "filter"
  /\ saved' = [saved EXCEPT !.rm = rm]
  /\ IF rm THEN UNCHANGED << rm, rxFifo, lost >> ELSE EnterReset
  /\ UNCHANGED << onBus, rie, other, isrVars, inputBuf, readerVars, got, out,
                  accepted, taken >>

FilterLeave ==
  /\ TaskRuns
  /\ cmd = "filter"
  /\ cmd' = "none"
  /\ rm' = saved.rm
  /\ UNCHANGED << onBus, rxFifo, rie, other, isrVars, inputBuf, readerVars,
                  saved, got, history >>

(* WNCAN_HALT TRUE and FALSE. *)
Stop ==
  /\ "halt" \in Commands
  /\ TaskRuns /\ MutexFree
  /\ ~rm
  /\ EnterReset
  /\ UNCHANGED << onBus, rie, other, isrVars, inputBuf, readerVars, commandVars,
                  out, accepted, taken >>

Start ==
  /\ "halt" \in Commands
  /\ TaskRuns /\ MutexFree
  /\ rm
  /\ rm' = FALSE
  /\ UNCHANGED << onBus, rxFifo, rie, other, isrVars, inputBuf, readerVars,
                  commandVars, history >>

(* FIOFLUSH, FIORFLUSH: rngFlush under intLock. *)
Flush ==
  /\ "flush" \in Commands
  /\ TaskRuns /\ MutexFree
  /\ inputBuf # << >>
  /\ inputBuf' = << >>
  /\ lost' = lost \cup (Entries(inputBuf) \ {NoFrame})
  /\ UNCHANGED << onBus, rxFifo, rie, rm, other, isrVars, readerVars,
                  commandVars, out, accepted, taken >>

(* WNCAN_CHN_ENABLE on the receive channel. *)
ChnEnable ==
  /\ "enable" \in Commands
  /\ TaskRuns /\ MutexFree
  /\ rie' = ~rie
  /\ UNCHANGED << onBus, rxFifo, rm, other, isrVars, inputBuf, readerVars,
                  commandVars, history >>

Chip == ChipReceive \/ ChipInterrupt \/ ChipBusOff
Isr  == IsrReadStatus \/ IsrRead \/ IsrPut

ReaderInCall(r) == SelectCheck(r) \/ SelectReturn(r)
Reader(r) == SelectAdd(r) \/ ReadBuf(r) \/ ReadBufEmpty(r) \/ ReaderInCall(r)

CommandInProgress ==
  \/ GetData \/ GetRelease
  \/ WriteIdReset \/ WriteIdLeave \/ WriteIdUnmask
  \/ FilterLeave

Ioctl ==
  \/ GetId \/ WriteIdMask \/ FilterReset
  \/ Stop \/ Start \/ Flush \/ ChnEnable
  \/ CommandInProgress

Next == Chip \/ Isr \/ Ioctl \/ \E r \in Readers : Reader(r)

Spec == Init /\ [][Next]_vars

(* A raised interrupt is serviced and a task inside a driver call gets the
   processor; a task that waits for the device mutex gets it when it is given
   back again and again, because semGive hands it to a waiting task; nobody is
   obliged to call, and the bus owes no frames. *)
Fairness ==
  /\ WF_vars(Isr)
  /\ WF_vars(CommandInProgress)
  /\ \A r \in Readers : WF_vars(SelectCheck(r)) /\ SF_vars(SelectReturn(r))

FairSpec == Spec /\ Fairness

(***************************************************************************)
(* Properties.                                                             *)
(***************************************************************************)

(* Neither the controller's FIFO nor the ring is overfilled, and every
   variable stays in its set. *)
TypeOK ==
  /\ onBus \in 0 .. MaxFrames
  /\ rxFifo \in Seq(Frame) /\ Len(rxFifo) <= FifoCap
  /\ rie \in BOOLEAN
  /\ rm \in BOOLEAN
  /\ other \in BOOLEAN
  /\ isr \in {"idle", "RX", "put"}
  /\ canMsg \in Frame \cup {NoFrame}
  /\ inputBuf \in Seq(Frame \cup {NoFrame}) /\ Len(inputBuf) <= RingCap
  /\ pc \in [Readers -> {"idle", "selecting", "pending", "ready"}]
  /\ waiting \subseteq Readers
  /\ woken \subseteq Readers
  /\ cmd \in {"none", "gotId", "gotData", "masked", "acceptance", "unmask", "filter"}
  /\ saved \in [rie : BOOLEAN, rm : BOOLEAN]
  /\ got \in Frame \cup {NoFrame}
  /\ out \in Seq(Frame \cup {NoFrame})
  /\ accepted \subseteq Frame
  /\ taken \subseteq Frame
  /\ lost \subseteq Frame

(* A task that sleeps in select() sleeps on an empty ring: the interrupt
   cannot slip a message in between the test and the sleep. *)
SleepsOnEmptyRing ==
  \A r \in Readers : pc[r] = "pending" /\ r \notin woken => inputBuf = << >>

(* A task that select() returned to finds a message for read(). *)
WokenReaderFindsMessage ==
  \A r \in Readers : pc[r] = "ready" => inputBuf # << >>

(* Every frame the controller accepted is still on its way, was returned to
   somebody, or was dropped by a full ring, a reset or a flush: none is
   released from the controller without having been read. *)
NoFrameUnseen ==
  accepted \subseteq
    Entries(rxFifo) \cup {canMsg} \cup Entries(inputBuf) \cup Entries(out)
      \cup taken \cup lost

(* What is on its way, oldest first: the ring, the handler's message and the
   receive FIFO. *)
Underway ==
  inputBuf \o (IF isr = "put" THEN << canMsg >> ELSE << >>) \o rxFifo

Received == INSTANCE LossyFifo WITH Item <- Frame, queue <- Underway, out <- out

(* read() returns frames in the order of the bus, each at most once, whatever
   a full ring, a reset or a flush drops on the way. *)
ImplementsLossyFifo == Received!Spec

(* A frame does not stay in the controller: either the interrupt fetches it
   or a reset drops it. *)
Fetched ==
  \A f \in Frame : (f \in Entries(rxFifo)) ~> (f \notin Entries(rxFifo))

(* select() returns once a message is queued. *)
SelectReturns ==
  \A r \in Readers :
    (pc[r] = "pending" /\ inputBuf # << >>) ~> (pc[r] = "ready")

(* A frame that arrives is fetched, wakes the task that waits for it, and is
   there for that task to read. *)
FramesServed == []WokenReaderFindsMessage /\ Fetched /\ SelectReturns
=============================================================================
