------------------------------- MODULE CanTx -------------------------------
(***************************************************************************)
(* The transmit path of one SJA1000 channel behind the VxWorks DevIO       *)
(* driver: write() queues a message in the channel's output ring and       *)
(* "jump starts" an idle controller, PR6120_CAN_ISR answers the transmit   *)
(* interrupt by sending the next queued message, select() blocks a task    *)
(* until the ring has room, and the ioctl commands of the device reset,    *)
(* abort or flush underneath.                                              *)
(*                                                                         *)
(* The system is a uniprocessor.  Tasks interleave at every point outside  *)
(* intLock(); an interrupt handler runs to completion before any task      *)
(* continues; the controller works on between any two register accesses.   *)
(* The channel's mode is WNCAN_CHN_TRANSMIT and its transmit interrupt was *)
(* enabled by WNCAN_CHN_ENABLE, as demo/main.c leaves it.                  *)
(***************************************************************************)
EXTENDS Naturals, FiniteSets, Rings

CONSTANTS
  Writers,        \* tasks that write() to the channel
  MaxWrites,      \* bound: messages the ring accepts from one writer
  RingCap,        \* messages the output ring holds (WNCAN_DEFAULT_RINGBUF_SIZE)
  Disturbances,   \* what else may happen to the controller, see AllDisturbances
  IllegalLen,     \* messages whose len exceeds 8: CAN_TxMsg always refuses them
  PromptIrq,      \* TRUE: a pending interrupt preempts the next task step
  NoMsg           \* no transmission is requested

(* "error", "wakeup", "warning": an interrupt source of the controller;
   "busoff": the transmit error counter overflows; the others are ioctls:
   "halt" WNCAN_HALT, "config" the commands that pass through reset mode,
   "abort" WNCAN_TX_ABORT, "flush" FIOFLUSH and FIOWFLUSH, "disable"
   WNCAN_CHN_ENABLE with FALSE (and TRUE again). *)
AllDisturbances == {"error", "wakeup", "warning", "busoff",
                    "halt", "config", "abort", "flush", "disable"}

(* The n-th message the ring accepted from writer w. *)
Msg == [w : Writers, n : 1 .. MaxWrites]

ASSUME TxAssumption ==
  /\ MaxWrites \in Nat
  /\ RingCap \in Nat \ {0}
  /\ Disturbances \subseteq AllDisturbances
  /\ IllegalLen \subseteq Msg
  /\ PromptIrq \in BOOLEAN
  /\ NoMsg \notin Msg

VARIABLES
  outputBuf,   \* the channel's output ring, oldest message first
  txReq,       \* message with CMR.TR pending; NoMsg when SR.TBS = 1
  ir,          \* interrupt register bits that are set (RI is CanRx's)
  tie,         \* IER.TIE
  rm,          \* MOD.RM: the controller is in reset mode
  busOff,      \* SR.BS
  isr,         \* where PR6120_CAN_ISR is, "idle" when no interrupt is serviced
  pc,          \* where each writer is in select() and write()
  waiting,     \* tasks on the channel's select wake-up list
  wokenBy,     \* who gave a selecting task its wake-up semaphore
  cfg,         \* the reset-mode command in progress under the device mutex
  accepted,    \* history: how many messages of each writer were accepted
  sent,        \* history: messages that went out on the bus, in order
  lost         \* history: accepted messages that can no longer go out

vars == << outputBuf, txReq, ir, tie, rm, busOff, isr, pc, waiting, wokenBy,
           cfg, accepted, sent, lost >>

chipVars   == << txReq, ir, tie, rm, busOff >>
selectVars == << waiting, wokenBy >>

PcStates == {"idle", "selecting", "pending", "ready", "kick", "locked"}

(***************************************************************************)
(* Who may run.  intLock() keeps interrupts and tasks out; the handler     *)
(* keeps tasks out; with PromptIrq a pending interrupt is taken first.     *)
(***************************************************************************)
IntLocked == \E w \in Writers : pc[w] = "locked"

TaskRuns ==
  /\ isr = "idle"
  /\ ~IntLocked
  /\ PromptIrq => ir = {}

(* semTake(wncDrv->mutex): taken by every ioctl, not by read() or write(). *)
MutexFree ==
  /\ cfg = "none"
  /\ \A w \in Writers : pc[w] # "selecting"

Init ==
  /\ outputBuf = << >>
  /\ txReq = NoMsg
  /\ ir = {}
  /\ tie = TRUE
  /\ rm = FALSE
  /\ busOff = FALSE
  /\ isr = "idle"
  /\ pc = [w \in Writers |-> "idle"]
  /\ waiting = {}
  /\ wokenBy = [w \in Writers |-> "nobody"]
  /\ cfg = "none"
  /\ accepted = [w \in Writers |-> 0]
  /\ sent = << >>
  /\ lost = {}

(***************************************************************************)
(* The SJA1000.                                                            *)
(***************************************************************************)

(* TBS going from 0 to 1 raises TI when TIE is set, an abort included. *)
ReleaseTxBuffer ==
  /\ txReq' = NoMsg
  /\ ir' = IF tie THEN ir \cup {"TI"} ELSE ir

(* The frame wins arbitration and is acknowledged. *)
ChipTransmit ==
  /\ txReq # NoMsg
  /\ ~rm /\ ~busOff
  /\ sent' = Append(sent, txReq)
  /\ ReleaseTxBuffer
  /\ UNCHANGED << outputBuf, tie, rm, busOff, isr, pc, waiting, wokenBy, cfg,
                  accepted, lost >>

(* Bus error (BEI), wake-up (WUI) and error warning (EI) set their bits. *)
ChipInterrupt ==
  /\ \/ "error"   \in Disturbances /\ ir' = ir \cup {"BEI"}
     \/ "wakeup"  \in Disturbances /\ ir' = ir \cup {"WUI"}
     \/ "warning" \in Disturbances /\ ir' = ir \cup {"EI"}
  /\ ~rm
  /\ UNCHANGED << outputBuf, txReq, tie, rm, busOff, isr, pc, waiting, wokenBy,
                  cfg, accepted, sent, lost >>

(* Entering reset mode releases the transmit buffer without a transmit
   interrupt and clears every interrupt bit but EI. *)
EnterReset ==
  /\ rm' = TRUE
  /\ txReq' = NoMsg
  /\ lost' = IF txReq = NoMsg THEN lost ELSE lost \cup {txReq}

(* The transmit error counter passes 255: bus off, which forces reset mode. *)
ChipBusOff ==
  /\ "busoff" \in Disturbances
  /\ txReq # NoMsg
  /\ ~rm /\ ~busOff
  /\ busOff' = TRUE
  /\ ir' = {"EI"}
  /\ EnterReset
  /\ UNCHANGED << outputBuf, tie, isr, pc, waiting, wokenBy, cfg, accepted, sent >>

(* 128 occurrences of bus-free after RM was cleared end bus off. *)
ChipRecover ==
  /\ busOff /\ ~rm
  /\ busOff' = FALSE
  /\ ir' = ir \cup {"EI"}
  /\ UNCHANGED << outputBuf, txReq, tie, rm, isr, pc, waiting, wokenBy, cfg,
                  accepted, sent, lost >>

(***************************************************************************)
(* wncDevIOIsrHandler, case WNCAN_INT_TXCLR: take the oldest message and   *)
(* give it to CAN_TxMsg; if that refuses, put it back at the END of the    *)
(* ring.  CAN_TxMsg refuses an illegal length and a busy controller.  In   *)
(* reset mode TBS reads 1 but the controller ignores CMR.TR: the caller is *)
(* told OK and the message is gone.                                        *)
(***************************************************************************)
TxMsgAccepts(m) ==
  /\ m \notin IllegalLen
  /\ txReq = NoMsg

TxClrEmpty ==
  /\ outputBuf = << >>
  /\ UNCHANGED << outputBuf, txReq, lost >>

TxClrSend ==
  /\ outputBuf # << >>
  /\ TxMsgAccepts(Head(outputBuf))
  /\ outputBuf' = Tail(outputBuf)
  /\ IF rm THEN /\ lost' = lost \cup {Head(outputBuf)}
                /\ UNCHANGED txReq
           ELSE /\ txReq' = Head(outputBuf)
                /\ UNCHANGED lost

(* Mutant: a refused message is not put back. *)
MutTxClrNoPutBack ==
  /\ outputBuf # << >>
  /\ ~TxMsgAccepts(Head(outputBuf))
  /\ outputBuf' = Tail(outputBuf)
  /\ UNCHANGED << txReq, lost >>

TxClrPutBack ==
  /\ outputBuf # << >>
  /\ ~TxMsgAccepts(Head(outputBuf))
  /\ outputBuf' = Append(Tail(outputBuf), Head(outputBuf))
  /\ UNCHANGED << txReq, lost >>

TxClr == TxClrEmpty \/ TxClrSend \/ TxClrPutBack

(***************************************************************************)
(* PR6120_CAN_ISR.                                                         *)
(***************************************************************************)

(* SJA1000_GetIntStatus: one status for all the bits that were set; a later
   test overwrites the result of an earlier one. *)
GetIntStatus(bits, bs) ==
  IF "EI" \in bits /\ bs  THEN "BUS_OFF"
  ELSE IF "BEI" \in bits THEN "ERROR"
  ELSE IF "WUI" \in bits THEN "WAKE_UP"
  ELSE IF "TI"  \in bits THEN "TX"
  ELSE "NONE"

(* Reading IR clears all its bits. *)
IsrReadStatus ==
  /\ isr = "idle"
  /\ ~IntLocked
  /\ ir # {}
  /\ ir' = {}
  /\ isr' = LET status == GetIntStatus(ir, busOff)
            IN  IF status = "NONE" THEN "idle" ELSE status
  /\ UNCHANGED << outputBuf, txReq, tie, rm, busOff, pc, waiting, wokenBy, cfg,
                  accepted, sent, lost >>

(* pISRCallback(ERROR, BUS_OFF or WAKE_UP) wakes the device's selecters, who
   play no part here; then the handler returns. *)
IsrError ==
  /\ isr \in {"ERROR", "BUS_OFF", "WAKE_UP"}
  /\ isr' = "idle"
  /\ UNCHANGED << outputBuf, txReq, ir, tie, rm, busOff, pc, waiting, wokenBy,
                  cfg, accepted, sent, lost >>

(* Mutant: the handler returns without the TXCLR callback. *)
MutIsrTxNoClr ==
  /\ isr = "TX"
  /\ isr' = "idle"
  /\ wokenBy' = [w \in Writers |-> IF w \in waiting THEN "interrupt" ELSE wokenBy[w]]
  /\ UNCHANGED << outputBuf, txReq, ir, tie, rm, busOff, pc, waiting, cfg,
                  accepted, sent, lost >>

(* pISRCallback(TX): selWakeupAll(SELWRITE). *)
IsrTx ==
  /\ isr = "TX"
  /\ isr' = "TXCLR"
  /\ wokenBy' = [w \in Writers |-> IF w \in waiting THEN "interrupt" ELSE wokenBy[w]]
  /\ UNCHANGED << outputBuf, txReq, ir, tie, rm, busOff, pc, waiting, cfg,
                  accepted, sent, lost >>

(* pISRCallback(TXCLR). *)
IsrTxClr ==
  /\ isr = "TXCLR"
  /\ isr' = "idle"
  /\ TxClr
  /\ UNCHANGED << ir, tie, rm, busOff, pc, waiting, wokenBy, cfg, accepted, sent >>

(***************************************************************************)
(* select() and write().                                                   *)
(***************************************************************************)

(* Mutant: the node is not on the list when the room is tested. *)
MutSelectAdd(w) ==
  /\ TaskRuns /\ MutexFree
  /\ pc[w] = "idle"
  /\ accepted[w] < MaxWrites
  /\ pc' = [pc EXCEPT ![w] = "selecting"]
  /\ wokenBy' = [wokenBy EXCEPT ![w] = "nobody"]
  /\ UNCHANGED << outputBuf, chipVars, isr, waiting, cfg, accepted, sent, lost >>

(* FIOSELECT under the device mutex: first selNodeAdd ... *)
SelectAdd(w) ==
  /\ TaskRuns /\ MutexFree
  /\ pc[w] = "idle"
  /\ accepted[w] < MaxWrites
  /\ pc' = [pc EXCEPT ![w] = "selecting"]
  /\ waiting' = waiting \cup {w}
  /\ wokenBy' = [wokenBy EXCEPT ![w] = "nobody"]
  /\ UNCHANGED << outputBuf, chipVars, isr, cfg, accepted, sent, lost >>

(* ... then, under intLock, the test for room. *)
SelectCheck(w) ==
  /\ TaskRuns
  /\ pc[w] = "selecting"
  /\ pc' = [pc EXCEPT ![w] = "pending"]
  /\ wokenBy' = IF Len(outputBuf) < RingCap
                THEN [wokenBy EXCEPT ![w] = "check"] ELSE wokenBy
  /\ UNCHANGED << outputBuf, chipVars, isr, waiting, cfg, accepted, sent, lost >>

(* The task got its wake-up semaphore; FIOUNSELECT takes it off the list. *)
SelectReturn(w) ==
  /\ TaskRuns /\ MutexFree
  /\ pc[w] = "pending"
  /\ wokenBy[w] # "nobody"
  /\ pc' = [pc EXCEPT ![w] = "ready"]
  /\ waiting' = waiting \ {w}
  /\ UNCHANGED << outputBuf, chipVars, isr, wokenBy, cfg, accepted, sent, lost >>

(* Mutants of WriteBuf: rngBufPut without its room test; the test for empty
   after the put; a jump start after every put. *)
MutWriteBufNoRoomTest(w) ==
  /\ TaskRuns
  /\ pc[w] \in {"idle", "ready"}
  /\ accepted[w] < MaxWrites
  /\ outputBuf' = Append(outputBuf, [w |-> w, n |-> accepted[w] + 1])
  /\ accepted' = [accepted EXCEPT ![w] = @ + 1]
  /\ pc' = [pc EXCEPT ![w] = IF outputBuf = << >> THEN "kick" ELSE "idle"]
  /\ UNCHANGED << chipVars, isr, selectVars, cfg, sent, lost >>

MutWriteBufTestAfterPut(w) ==
  /\ TaskRuns
  /\ pc[w] \in {"idle", "ready"}
  /\ accepted[w] < MaxWrites
  /\ Len(outputBuf) < RingCap
  /\ outputBuf' = Append(outputBuf, [w |-> w, n |-> accepted[w] + 1])
  /\ accepted' = [accepted EXCEPT ![w] = @ + 1]
  /\ pc' = [pc EXCEPT ![w] = IF outputBuf' = << >> THEN "kick" ELSE "idle"]
  /\ UNCHANGED << chipVars, isr, selectVars, cfg, sent, lost >>

MutWriteBufAlwaysKick(w) ==
  /\ TaskRuns
  /\ pc[w] \in {"idle", "ready"}
  /\ accepted[w] < MaxWrites
  /\ Len(outputBuf) < RingCap
  /\ outputBuf' = Append(outputBuf, [w |-> w, n |-> accepted[w] + 1])
  /\ accepted' = [accepted EXCEPT ![w] = @ + 1]
  /\ pc' = [pc EXCEPT ![w] = "kick"]
  /\ UNCHANGED << chipVars, isr, selectVars, cfg, sent, lost >>

(* wncDevIOWriteBuf, first critical section: test for empty, then put. *)
WriteBuf(w) ==
  /\ TaskRuns
  /\ pc[w] \in {"idle", "ready"}
  /\ accepted[w] < MaxWrites
  /\ Len(outputBuf) < RingCap
  /\ outputBuf' = Append(outputBuf, [w |-> w, n |-> accepted[w] + 1])
  /\ accepted' = [accepted EXCEPT ![w] = @ + 1]
  /\ pc' = [pc EXCEPT ![w] = IF outputBuf = << >> THEN "kick" ELSE "idle"]
  /\ UNCHANGED << chipVars, isr, selectVars, cfg, sent, lost >>

(* The ring is full: S_can_buffer_overflow, nothing was put. *)
WriteBufFull(w) ==
  /\ TaskRuns
  /\ pc[w] \in {"idle", "ready"}
  /\ accepted[w] < MaxWrites
  /\ Len(outputBuf) = RingCap
  /\ pc' = [pc EXCEPT ![w] = "idle"]
  /\ UNCHANGED << outputBuf, chipVars, isr, selectVars, cfg, accepted, sent, lost >>

(* Mutant: no jump start. *)
MutKickLock(w) ==
  /\ TaskRuns
  /\ pc[w] = "kick"
  /\ pc' = [pc EXCEPT ![w] = "idle"]
  /\ UNCHANGED << outputBuf, chipVars, isr, selectVars, cfg, accepted, sent, lost >>

(* The ring was empty before the put: "jump start", in a second critical
   section of its own. *)
KickLock(w) ==
  /\ TaskRuns
  /\ pc[w] = "kick"
  /\ pc' = [pc EXCEPT ![w] = "locked"]
  /\ UNCHANGED << outputBuf, chipVars, isr, selectVars, cfg, accepted, sent, lost >>

Kick(w) ==
  /\ pc[w] = "locked"
  /\ pc' = [pc EXCEPT ![w] = "idle"]
  /\ TxClr
  /\ UNCHANGED << ir, tie, rm, busOff, isr, selectVars, cfg, accepted, sent >>

(***************************************************************************)
(* ioctl commands that reach the transmit path.  They run in a task that   *)
(* holds the device mutex and never lock interrupts around the registers.  *)
(***************************************************************************)

(* WNCAN_HALT TRUE: SJA1000_Stop. *)
Stop ==
  /\ "halt" \in Disturbances
  /\ TaskRuns /\ MutexFree
  /\ ~rm
  /\ ir' = ir \cap {"EI"}
  /\ EnterReset
  /\ UNCHANGED << outputBuf, tie, busOff, isr, pc, selectVars, cfg, accepted, sent >>

(* WNCAN_HALT FALSE: SJA1000_Start clears RM.  It neither looks at the ring
   nor sends anything. *)
Start ==
  /\ "halt" \in Disturbances
  /\ TaskRuns /\ MutexFree
  /\ rm
  /\ rm' = FALSE
  /\ UNCHANGED << outputBuf, txReq, ir, tie, busOff, isr, pc, selectVars, cfg,
                  accepted, sent, lost >>

(* SJA1000_SetBitTiming, SetGlobalRxFilter, GetGlobalRxFilter and WriteID on
   the receive channel: into reset mode ... *)
ConfigEnter ==
  /\ "config" \in Disturbances
  /\ TaskRuns /\ MutexFree
  /\ cfg' = IF rm THEN "offline" ELSE "online"
  /\ IF rm THEN UNCHANGED << rm, txReq, lost, ir >>
           ELSE /\ ir' = ir \cap {"EI"}
                /\ EnterReset
  /\ UNCHANGED << outputBuf, tie, busOff, isr, pc, selectVars, accepted, sent >>

(* ... and back to the MOD value read on entry. *)
ConfigLeave ==
  /\ TaskRuns
  /\ cfg # "none"
  /\ cfg' = "none"
  /\ rm' = (cfg = "offline")
  /\ UNCHANGED << outputBuf, txReq, ir, tie, busOff, isr, pc, selectVars,
                  accepted, sent, lost >>

(* WNCAN_TX_ABORT: CMR.AT drops a request that is not on the bus yet and
   leaves one that is. *)
TxAbort ==
  /\ "abort" \in Disturbances
  /\ TaskRuns /\ MutexFree
  /\ txReq # NoMsg
  /\ lost' = lost \cup {txReq}
  /\ ReleaseTxBuffer
  /\ UNCHANGED << outputBuf, tie, rm, busOff, isr, pc, selectVars, cfg, accepted, sent >>

(* FIOFLUSH, FIOWFLUSH: rngFlush under intLock. *)
Flush ==
  /\ "flush" \in Disturbances
  /\ TaskRuns /\ MutexFree
  /\ outputBuf # << >>
  /\ outputBuf' = << >>
  /\ lost' = lost \cup Entries(outputBuf)
  /\ UNCHANGED << chipVars, isr, pc, selectVars, cfg, accepted, sent >>

(* WNCAN_CHN_ENABLE: SJA1000_DisableChannel and SJA1000_EnableChannel. *)
ChnEnable ==
  /\ "disable" \in Disturbances
  /\ TaskRuns /\ MutexFree
  /\ tie' = ~tie
  /\ UNCHANGED << outputBuf, txReq, ir, rm, busOff, isr, pc, selectVars, cfg,
                  accepted, sent, lost >>

Chip == ChipTransmit \/ ChipInterrupt \/ ChipBusOff \/ ChipRecover
Isr  == IsrReadStatus \/ IsrError \/ IsrTx \/ IsrTxClr
Ioctl == Stop \/ Start \/ ConfigEnter \/ ConfigLeave \/ TxAbort \/ Flush \/ ChnEnable

WriterInCall(w) ==
  SelectCheck(w) \/ SelectReturn(w) \/ KickLock(w) \/ Kick(w)

Writer(w) ==
  SelectAdd(w) \/ WriteBuf(w) \/ WriteBufFull(w) \/ WriterInCall(w)

Next == Chip \/ Isr \/ Ioctl \/ \E w \in Writers : Writer(w)

Spec == Init /\ [][Next]_vars

(* The controller transmits, a raised interrupt is serviced, and a task that
   is inside a driver call gets the processor; nobody is obliged to call. *)
Fairness ==
  /\ WF_vars(ChipTransmit)
  /\ WF_vars(Isr)
  /\ \A w \in Writers : WF_vars(WriterInCall(w))
  /\ \A w \in Writers : WF_vars(pc[w] = "ready" /\ (WriteBuf(w) \/ WriteBufFull(w)))

FairSpec == Spec /\ Fairness

(***************************************************************************)
(* Properties.                                                             *)
(***************************************************************************)

(* The ring never holds more than it was created for, put-backs included,
   and every variable stays in its set. *)
TypeOK ==
  /\ outputBuf \in Seq(Msg)
  /\ Len(outputBuf) <= RingCap
  /\ txReq \in Msg \cup {NoMsg}
  /\ ir \subseteq {"TI", "EI", "WUI", "BEI"}
  /\ tie \in BOOLEAN
  /\ rm \in BOOLEAN
  /\ busOff \in BOOLEAN
  /\ isr \in {"idle", "TX", "TXCLR", "ERROR", "BUS_OFF", "WAKE_UP"}
  /\ pc \in [Writers -> PcStates]
  /\ waiting \subseteq Writers
  /\ wokenBy \in [Writers -> {"nobody", "check", "interrupt"}]
  /\ cfg \in {"none", "online", "offline"}
  /\ accepted \in [Writers -> 0 .. MaxWrites]
  /\ sent \in Seq(Msg)
  /\ lost \subseteq Msg

(* A message is in one place only: in the ring, in the transmit buffer, on
   the bus, or lost.  So no message goes out twice and none goes out after a
   flush, an abort or a reset dropped it. *)
AtMostOnce ==
  /\ Distinct(outputBuf)
  /\ Distinct(sent)
  /\ txReq \notin Entries(outputBuf) \cup Entries(sent) \cup lost
  /\ Entries(outputBuf) \cap (Entries(sent) \cup lost) = {}
  /\ Entries(sent) \cap lost = {}

(* Where a message can be, and the messages write() accepted. *)
Placed  == Entries(outputBuf) \cup Entries(sent) \cup lost \cup ({txReq} \ {NoMsg})
Written == { m \in Msg : m.n <= accepted[m.w] }

(* Every message write() accepted is somewhere, and nothing else is: the
   put-back of the handler neither drops nor invents a message. *)
Accounted == Placed = Written

(* Every accepted message is in exactly one place, whatever resets, aborts,
   flushes and put-backs do between write() and the bus. *)
ExactlyOnce == AtMostOnce /\ Accounted

(* A queued message always has somebody who will send it: the controller is
   busy and will interrupt, the interrupt is raised or being serviced, or a
   writer is about to jump-start the controller. *)
NoStrandedMessage ==
  outputBuf # << >> =>
    \/ txReq # NoMsg
    \/ "TI" \in ir
    \/ isr \in {"TX", "TXCLR"}
    \/ \E w \in Writers : pc[w] \in {"kick", "locked"}

(* A task that select() returned to because of a transmit interrupt finds
   room for its message. *)
WokenWriterHasSpace ==
  \A w \in Writers :
    pc[w] = "ready" /\ wokenBy[w] = "interrupt" => Len(outputBuf) < RingCap

(* What is on its way, oldest first: the transmit buffer and the ring. *)
Underway == (IF txReq = NoMsg THEN << >> ELSE << txReq >>) \o outputBuf

Transmitted == INSTANCE LossyFifo WITH Item <- Msg, queue <- Underway, out <- sent

(* What one writer writes leaves on the bus in order and each message at
   most once, whatever resets, aborts and flushes drop on the way. *)
ImplementsLossyFifo == Transmitted!Spec

(* Every accepted message goes out on the bus, unless an abort or a flush
   drops it. *)
Delivered ==
  \A m \in Msg : (m.n <= accepted[m.w]) ~> (m \in Entries(sent) \cup lost)

(* select() on a full ring returns, as long as nobody flushes the ring: the
   flush commands make room but wake nobody. *)
SelectReturns ==
  \A w \in Writers : (pc[w] = "pending") ~> (pc[w] = "ready")
=============================================================================
