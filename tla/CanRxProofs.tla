---------------------------- MODULE CanRxProofs ----------------------------
(***************************************************************************)
(* Proofs about CanRx, for any number of readers, any capacities of the    *)
(* controller's FIFO and of the ring, and any set of commands.             *)
(***************************************************************************)
EXTENDS CanRx, RingLemmas

(***************************************************************************)
(* Type correctness.                                                       *)
(***************************************************************************)

(* What is in the FIFO and in the ring, and what their heads and tails are. *)
LEMMA FifoType ==
  ASSUME TypeOK
  PROVE  /\ Window \in Frame \cup {NoFrame}
         /\ Entries(rxFifo) \subseteq Frame
         /\ rxFifo # << >> => /\ Tail(rxFifo) \in Seq(Frame)
                              /\ Len(Tail(rxFifo)) <= FifoCap
<1>1. Entries(rxFifo) \subseteq Frame
  BY EntriesType DEF TypeOK
<1>2. ASSUME rxFifo # << >>
      PROVE  /\ Head(rxFifo) \in Frame
             /\ Tail(rxFifo) \in Seq(Frame)
             /\ Len(Tail(rxFifo)) <= FifoCap
  <2>1. /\ Head(rxFifo) \in Frame
        /\ Tail(rxFifo) \in Seq(Frame)
        /\ Len(Tail(rxFifo)) = Len(rxFifo) - 1
        /\ Len(rxFifo) \in Nat
    BY <1>2, HeadTailProperties, LenProperties DEF TypeOK
  <2> QED
    BY <2>1, RxAssumption DEF TypeOK
<1> QED
  BY <1>1, <1>2 DEF Window

LEMMA RingType ==
  ASSUME TypeOK, inputBuf # << >>
  PROVE  /\ Head(inputBuf) \in Frame \cup {NoFrame}
         /\ Tail(inputBuf) \in Seq(Frame \cup {NoFrame})
         /\ Len(Tail(inputBuf)) <= RingCap
<1>1. /\ Head(inputBuf) \in Frame \cup {NoFrame}
      /\ Tail(inputBuf) \in Seq(Frame \cup {NoFrame})
      /\ Len(Tail(inputBuf)) = Len(inputBuf) - 1
      /\ Len(inputBuf) \in Nat
  BY HeadTailProperties, LenProperties DEF TypeOK
<1> QED
  BY <1>1, RxAssumption DEF TypeOK

LEMMA TypeInit == Init => TypeOK
<1> SUFFICES ASSUME Init
             PROVE  TypeOK
  OBVIOUS
<1>1. /\ \A S : << >> \in Seq(S)
      /\ Len(<< >>) = 0
  BY EmptySeq
<1>2. 0 <= RingCap /\ 0 <= FifoCap /\ 0 \in 0 .. MaxFrames
  BY RxAssumption
<1> QED
  BY <1>1, <1>2 DEF Init, TypeOK

(* Reset mode drops what the FIFO holds. *)
LEMMA ResetType ==
  ASSUME TypeOK, EnterReset
  PROVE  /\ rm' \in BOOLEAN
         /\ rxFifo' \in Seq(Frame)
         /\ Len(rxFifo') <= FifoCap
         /\ lost' \subseteq Frame
<1>1. << >> \in Seq(Frame) /\ Len(<< >>) = 0 /\ 0 <= FifoCap
  BY EmptySeq, RxAssumption
<1> QED
  BY <1>1, FifoType DEF TypeOK, EnterReset

LEMMA TypeChip ==
  ASSUME TypeOK, Chip
  PROVE  TypeOK'
<1>1. CASE ChipReceive
  <2>1. onBus + 1 \in Frame /\ onBus' \in 0 .. MaxFrames
    BY <1>1, RxAssumption DEF TypeOK, ChipReceive, Frame
  <2>2. /\ Append(rxFifo, onBus + 1) \in Seq(Frame)
        /\ Len(Append(rxFifo, onBus + 1)) = Len(rxFifo) + 1
        /\ Len(rxFifo) \in Nat
    BY <2>1, AppendProperties, LenProperties DEF TypeOK
  <2>3. rxFifo' \in Seq(Frame) /\ Len(rxFifo') <= FifoCap
    <3>1. CASE Len(rxFifo) < FifoCap
      <4>1. rxFifo' = Append(rxFifo, onBus + 1)
        BY <1>1, <3>1 DEF ChipReceive
      <4>2. Len(rxFifo) + 1 <= FifoCap
        BY <2>2, <3>1, RxAssumption
      <4> QED
        BY <2>2, <4>1, <4>2
    <3>2. CASE ~(Len(rxFifo) < FifoCap)
      BY <1>1, <3>2 DEF TypeOK, ChipReceive
    <3> QED
      BY <3>1, <3>2
  <2>4. accepted' \subseteq Frame
    BY <1>1, <2>1 DEF TypeOK, ChipReceive
  <2> QED
    BY <1>1, <2>1, <2>3, <2>4
    DEF TypeOK, ChipReceive, isrVars, readerVars, commandVars
<1>2. CASE ChipInterrupt
  BY <1>2 DEF TypeOK, ChipInterrupt, isrVars, readerVars, commandVars, history
<1>3. CASE ChipBusOff
  BY <1>3, ResetType DEF TypeOK, ChipBusOff, isrVars, readerVars, commandVars
<1> QED
  BY <1>1, <1>2, <1>3 DEF Chip

LEMMA TypeIsr ==
  ASSUME TypeOK, Isr
  PROVE  TypeOK'
<1>1. CASE IsrReadStatus
  BY <1>1 DEF TypeOK, IsrReadStatus, readerVars, commandVars, history
<1>2. CASE IsrRead
  <2>1. rxFifo' \in Seq(Frame) /\ Len(rxFifo') <= FifoCap
    BY <1>2, FifoType DEF TypeOK, IsrRead
  <2> QED
    BY <1>2, <2>1, FifoType DEF TypeOK, IsrRead, readerVars, commandVars, history
<1>3. CASE IsrPut
  <2>1. /\ Append(inputBuf, canMsg) \in Seq(Frame \cup {NoFrame})
        /\ Len(Append(inputBuf, canMsg)) = Len(inputBuf) + 1
        /\ Len(inputBuf) \in Nat
    BY AppendProperties, LenProperties DEF TypeOK
  <2>2. inputBuf' \in Seq(Frame \cup {NoFrame}) /\ Len(inputBuf') <= RingCap
    <3>1. CASE Len(inputBuf) < RingCap
      <4>1. inputBuf' = Append(inputBuf, canMsg)
        BY <1>3, <3>1 DEF IsrPut
      <4>2. Len(inputBuf) + 1 <= RingCap
        BY <2>1, <3>1, RxAssumption
      <4> QED
        BY <2>1, <4>1, <4>2
    <3>2. CASE ~(Len(inputBuf) < RingCap)
      BY <1>3, <3>2 DEF TypeOK, IsrPut
    <3> QED
      BY <3>1, <3>2
  <2>3. lost' \subseteq Frame /\ woken' \subseteq Readers
    BY <1>3 DEF TypeOK, IsrPut
  <2> QED
    BY <1>3, <2>2, <2>3 DEF TypeOK, IsrPut, commandVars
<1> QED
  BY <1>1, <1>2, <1>3 DEF Isr

LEMMA TypeReader ==
  ASSUME TypeOK, NEW r \in Readers, Reader(r)
  PROVE  TypeOK'
<1> USE DEF isrVars, commandVars, history
<1>1. CASE SelectAdd(r)
  BY <1>1 DEF TypeOK, SelectAdd
<1>2. CASE SelectCheck(r)
  BY <1>2 DEF TypeOK, SelectCheck
<1>3. CASE SelectReturn(r)
  BY <1>3 DEF TypeOK, SelectReturn
<1>4. CASE ReadBuf(r)
  <2>1. out' \in Seq(Frame \cup {NoFrame})
    BY <1>4, RingType, AppendProperties DEF TypeOK, ReadBuf
  <2> QED
    BY <1>4, <2>1, RingType DEF TypeOK, ReadBuf
<1>5. CASE ReadBufEmpty(r)
  BY <1>5 DEF TypeOK, ReadBufEmpty
<1> QED
  BY <1>1, <1>2, <1>3, <1>4, <1>5 DEF Reader, ReaderInCall

LEMMA TypeIoctl ==
  ASSUME TypeOK, Ioctl
  PROVE  TypeOK'
<1> USE DEF isrVars, readerVars
<1>1. CASE GetId
  BY <1>1 DEF TypeOK, GetId, history
<1>2. CASE GetData
  BY <1>2, FifoType DEF TypeOK, GetData, history
<1>3. CASE GetRelease
  <2>1. rxFifo' \in Seq(Frame) /\ Len(rxFifo') <= FifoCap
    BY <1>3, FifoType DEF TypeOK, GetRelease
  <2> QED
    BY <1>3, <2>1 DEF TypeOK, GetRelease
<1>4. CASE WriteIdMask
  BY <1>4 DEF TypeOK, WriteIdMask, history
<1>5. CASE WriteIdReset
  <2>1. CASE rm
    BY <1>5, <2>1 DEF TypeOK, WriteIdReset
  <2>2. CASE ~rm
    BY <1>5, <2>2, ResetType DEF TypeOK, WriteIdReset
  <2> QED
    BY <2>1, <2>2
<1>6. CASE WriteIdLeave
  BY <1>6 DEF TypeOK, WriteIdLeave, history
<1>7. CASE WriteIdUnmask
  BY <1>7 DEF TypeOK, WriteIdUnmask, history
<1>8. CASE FilterReset
  <2>1. CASE rm
    BY <1>8, <2>1 DEF TypeOK, FilterReset
  <2>2. CASE ~rm
    BY <1>8, <2>2, ResetType DEF TypeOK, FilterReset
  <2> QED
    BY <2>1, <2>2
<1>9. CASE FilterLeave
  BY <1>9 DEF TypeOK, FilterLeave, history
<1>10. CASE Stop
  BY <1>10, ResetType DEF TypeOK, Stop, commandVars
<1>11. CASE Start
  BY <1>11 DEF TypeOK, Start, commandVars, history
<1>12. CASE Flush
  <2>1. inputBuf' \in Seq(Frame \cup {NoFrame}) /\ Len(inputBuf') <= RingCap
    BY <1>12, EmptySeq, RxAssumption DEF Flush
  <2>2. Entries(inputBuf) \subseteq Frame \cup {NoFrame}
    BY EntriesType DEF TypeOK
  <2> QED
    BY <1>12, <2>1, <2>2 DEF TypeOK, Flush, commandVars
<1>13. CASE ChnEnable
  BY <1>13 DEF TypeOK, ChnEnable, commandVars, history
<1> QED
  BY <1>1, <1>2, <1>3, <1>4, <1>5, <1>6, <1>7, <1>8, <1>9, <1>10, <1>11, <1>12,
     <1>13 DEF Ioctl, CommandInProgress

(* Neither the controller's FIFO nor the input ring is ever overfilled, and
   every variable stays in its set. *)
THEOREM TypeCorrect == Spec => []TypeOK
<1>1. Init => TypeOK
  BY TypeInit
<1>2. TypeOK /\ [Next]_vars => TypeOK'
  <2> SUFFICES ASSUME TypeOK, [Next]_vars
               PROVE  TypeOK'
    OBVIOUS
  <2>1. CASE UNCHANGED vars
    BY <2>1 DEF TypeOK, vars
  <2> QED
    BY <2>1, TypeChip, TypeIsr, TypeIoctl, TypeReader DEF Next
<1> QED
  BY <1>1, <1>2, PTL DEF Spec

(***************************************************************************)
(* No task sleeps while a message is queued.                               *)
(***************************************************************************)

(* A task inside select() is on the wake-up list, so that the handler's
   selWakeupAll reaches it. *)
Listed == \A r \in Readers : pc[r] \in {"selecting", "pending"} => r \in waiting

LEMMA SleepInit == Init => Listed /\ SleepsOnEmptyRing
BY DEF Init, Listed, SleepsOnEmptyRing

(* Steps that touch neither the readers nor the ring. *)
LEMMA SleepUnchanged ==
  ASSUME Listed, SleepsOnEmptyRing, UNCHANGED << readerVars, inputBuf >>
  PROVE  Listed' /\ SleepsOnEmptyRing'
BY DEF Listed, SleepsOnEmptyRing, readerVars

LEMMA SleepReader ==
  ASSUME TypeOK, Listed, SleepsOnEmptyRing, NEW r \in Readers, Reader(r)
  PROVE  Listed' /\ SleepsOnEmptyRing'
<1>1. CASE SelectAdd(r)
  BY <1>1 DEF TypeOK, Listed, SleepsOnEmptyRing, SelectAdd
<1>2. CASE SelectCheck(r)
  BY <1>2 DEF TypeOK, Listed, SleepsOnEmptyRing, SelectCheck
<1>3. CASE SelectReturn(r)
  BY <1>3 DEF TypeOK, Listed, SleepsOnEmptyRing, SelectReturn
<1>4. CASE ReadBuf(r)
  BY <1>4 DEF TypeOK, Listed, SleepsOnEmptyRing, ReadBuf
<1>5. CASE ReadBufEmpty(r)
  BY <1>5 DEF TypeOK, Listed, SleepsOnEmptyRing, ReadBufEmpty
<1> QED
  BY <1>1, <1>2, <1>3, <1>4, <1>5 DEF Reader, ReaderInCall

LEMMA SleepNext ==
  ASSUME TypeOK, Listed, SleepsOnEmptyRing, [Next]_vars
  PROVE  Listed' /\ SleepsOnEmptyRing'
<1>1. CASE Chip
  BY <1>1, SleepUnchanged DEF Chip, ChipReceive, ChipInterrupt, ChipBusOff
<1>2. CASE Isr
  <2>1. CASE IsrReadStatus \/ IsrRead
    BY <2>1, SleepUnchanged DEF IsrReadStatus, IsrRead
  <2>2. CASE IsrPut
    BY <2>2 DEF Listed, SleepsOnEmptyRing, IsrPut
  <2> QED
    BY <1>2, <2>1, <2>2 DEF Isr
<1>3. CASE Ioctl
  <2>1. CASE Flush
    BY <2>1 DEF Listed, SleepsOnEmptyRing, Flush, readerVars
  <2>2. CASE GetId \/ WriteIdMask \/ FilterReset \/ Stop \/ Start \/ ChnEnable
    BY <2>2, SleepUnchanged
    DEF GetId, WriteIdMask, FilterReset, Stop, Start, ChnEnable
  <2>3. CASE CommandInProgress
    BY <2>3, SleepUnchanged
    DEF CommandInProgress, GetData, GetRelease, WriteIdReset, WriteIdLeave,
        WriteIdUnmask, FilterLeave
  <2> QED
    BY <1>3, <2>1, <2>2, <2>3 DEF Ioctl
<1>4. CASE UNCHANGED vars
  BY <1>4, SleepUnchanged DEF vars, readerVars
<1> QED
  BY <1>1, <1>2, <1>3, <1>4, SleepReader DEF Next

(* A task that sleeps in select() sleeps on an empty ring, whatever comes
   between putting it on the list, the test and the sleep: the handler, other
   readers, a flush or any other command. *)
THEOREM NobodySleepsOnAMessage == Spec => []SleepsOnEmptyRing
<1>1. Init => Listed /\ SleepsOnEmptyRing
  BY SleepInit
<1>2. TypeOK /\ Listed /\ SleepsOnEmptyRing /\ [Next]_vars
        => Listed' /\ SleepsOnEmptyRing'
  BY SleepNext
<1> QED
  BY <1>1, <1>2, TypeCorrect, PTL DEF Spec

(***************************************************************************)
(* A message that woke a task is there for it.                             *)
(***************************************************************************)

(* Nobody else takes messages from the ring: with a second reader, or a flush
   between the wake-up and read(), the property fails. *)
SoleReader == (\A r, s \in Readers : r = s) /\ "flush" \notin Commands

(* A semaphore that was given inside this select() stands for a message. *)
Promised ==
  \A r \in Readers :
    r \in woken /\ pc[r] \in {"selecting", "pending"} => inputBuf # << >>

LEMMA WokenInit == Init => Promised /\ WokenReaderFindsMessage
BY DEF Init, Promised, WokenReaderFindsMessage

(* Steps that touch neither the readers nor the ring. *)
LEMMA WokenUnchanged ==
  ASSUME Promised, WokenReaderFindsMessage, UNCHANGED << readerVars, inputBuf >>
  PROVE  Promised' /\ WokenReaderFindsMessage'
BY DEF Promised, WokenReaderFindsMessage, readerVars

LEMMA WokenReader ==
  ASSUME SoleReader, TypeOK, Promised, WokenReaderFindsMessage,
         NEW r \in Readers, Reader(r)
  PROVE  Promised' /\ WokenReaderFindsMessage'
<1>1. CASE SelectAdd(r)
  BY <1>1 DEF TypeOK, Promised, WokenReaderFindsMessage, SelectAdd
<1>2. CASE SelectCheck(r)
  BY <1>2 DEF TypeOK, Promised, WokenReaderFindsMessage, SelectCheck
<1>3. CASE SelectReturn(r)
  BY <1>3 DEF TypeOK, Promised, WokenReaderFindsMessage, SelectReturn
<1>4. CASE ReadBuf(r)
  <2>1. \A s \in Readers : pc'[s] = "idle"
    BY <1>4 DEF SoleReader, TypeOK, ReadBuf
  <2> QED
    BY <2>1 DEF Promised, WokenReaderFindsMessage
<1>5. CASE ReadBufEmpty(r)
  BY <1>5 DEF TypeOK, Promised, WokenReaderFindsMessage, ReadBufEmpty
<1> QED
  BY <1>1, <1>2, <1>3, <1>4, <1>5 DEF Reader, ReaderInCall

LEMMA WokenNext ==
  ASSUME SoleReader, TypeOK, Promised, WokenReaderFindsMessage, [Next]_vars
  PROVE  Promised' /\ WokenReaderFindsMessage'
<1>1. CASE Chip
  BY <1>1, WokenUnchanged DEF Chip, ChipReceive, ChipInterrupt, ChipBusOff
<1>2. CASE Isr
  <2>1. CASE IsrReadStatus \/ IsrRead
    BY <2>1, WokenUnchanged DEF IsrReadStatus, IsrRead
  <2>2. CASE IsrPut
    <3>1. CASE Len(inputBuf) < RingCap
      <4>1. inputBuf' = Append(inputBuf, canMsg) /\ pc' = pc
        BY <2>2, <3>1 DEF IsrPut
      <4>2. /\ Len(Append(inputBuf, canMsg)) = Len(inputBuf) + 1
            /\ Len(inputBuf) \in Nat /\ Len(<< >>) = 0
        BY AppendProperties, LenProperties DEF TypeOK
      <4>3. inputBuf' # << >>
        BY <4>1, <4>2
      <4> QED
        BY <4>1, <4>3 DEF Promised, WokenReaderFindsMessage
    <3>2. CASE ~(Len(inputBuf) < RingCap)
      BY <2>2, <3>2 DEF IsrPut, Promised, WokenReaderFindsMessage
    <3> QED
      BY <3>1, <3>2
  <2> QED
    BY <1>2, <2>1, <2>2 DEF Isr
<1>3. CASE Ioctl
  <2>1. ~Flush
    BY DEF SoleReader, Flush
  <2>2. CASE GetId \/ WriteIdMask \/ FilterReset \/ Stop \/ Start \/ ChnEnable
    BY <2>2, WokenUnchanged
    DEF GetId, WriteIdMask, FilterReset, Stop, Start, ChnEnable
  <2>3. CASE CommandInProgress
    BY <2>3, WokenUnchanged
    DEF CommandInProgress, GetData, GetRelease, WriteIdReset, WriteIdLeave,
        WriteIdUnmask, FilterLeave
  <2> QED
    BY <1>3, <2>1, <2>2, <2>3 DEF Ioctl
<1>4. CASE UNCHANGED vars
  BY <1>4, WokenUnchanged DEF vars, readerVars
<1> QED
  BY <1>1, <1>2, <1>3, <1>4, WokenReader DEF Next

(* If one task reads and nobody flushes, read() after select() returns a
   message: the wake-up semaphore is never a leftover of an earlier select(),
   and nothing the handler does takes the message back. *)
THEOREM WokenReaderReads ==
  ASSUME SoleReader
  PROVE  Spec => []WokenReaderFindsMessage
<1>1. Init => Promised /\ WokenReaderFindsMessage
  BY WokenInit
<1>2. TypeOK /\ Promised /\ WokenReaderFindsMessage /\ [Next]_vars
        => Promised' /\ WokenReaderFindsMessage'
  BY WokenNext
<1> QED
  BY <1>1, <1>2, TypeCorrect, PTL DEF Spec

(***************************************************************************)
(* No frame leaves the controller unread.                                  *)
(***************************************************************************)

(* Nobody but the handler takes from the receive window: when
   WNCAN_CHNCONFIG_GET does, too, the property fails. *)
HandlerAlone == "get" \notin Commands

(* No such command is in progress, and the handler has queued its message
   before it reads the next one. *)
OneConsumer ==
  /\ cmd \notin {"gotId", "gotData"}
  /\ isr # "put" => canMsg = NoFrame

(* Where a frame the controller accepted can be. *)
Somewhere ==
  Entries(rxFifo) \cup {canMsg} \cup Entries(inputBuf) \cup Entries(out)
    \cup taken \cup lost

LEMMA SeenInit == Init => OneConsumer /\ NoFrameUnseen
BY DEF Init, OneConsumer, NoFrameUnseen

(* Steps that accept nothing and leave no place, NoFrame aside. *)
LEMMA SeenKept ==
  ASSUME TypeOK, NoFrameUnseen, accepted' = accepted,
         Somewhere \ {NoFrame} \subseteq Somewhere'
  PROVE  NoFrameUnseen'
BY RxAssumption DEF TypeOK, NoFrameUnseen, Somewhere

LEMMA SeenUnchanged ==
  ASSUME NoFrameUnseen, UNCHANGED << rxFifo, canMsg, inputBuf, history >>
  PROVE  NoFrameUnseen'
BY DEF NoFrameUnseen, history

(* What reset mode takes out of the FIFO counts as lost. *)
LEMMA SeenReset ==
  ASSUME TypeOK, NoFrameUnseen, EnterReset,
         UNCHANGED << canMsg, inputBuf, out, accepted, taken >>
  PROVE  NoFrameUnseen'
<1>1. Somewhere \subseteq Somewhere'
  BY DEF EnterReset, Somewhere
<1> QED
  BY <1>1, SeenKept

LEMMA SeenChip ==
  ASSUME TypeOK, OneConsumer, NoFrameUnseen, Chip
  PROVE  OneConsumer' /\ NoFrameUnseen'
<1>1. OneConsumer'
  BY DEF Chip, ChipReceive, ChipInterrupt, ChipBusOff, OneConsumer, isrVars,
         commandVars
<1>2. CASE ChipReceive
  <2>1. CASE Len(rxFifo) < FifoCap
    <3>1. onBus + 1 \in Frame
      BY <1>2, RxAssumption DEF TypeOK, ChipReceive, Frame
    <3>2. Entries(Append(rxFifo, onBus + 1)) = Entries(rxFifo) \cup {onBus + 1}
      BY <3>1, EntriesOfAppend DEF TypeOK
    <3>3. /\ Entries(rxFifo') = Entries(rxFifo) \cup {onBus + 1}
          /\ accepted' = accepted \cup {onBus + 1}
      BY <1>2, <2>1, <3>2 DEF ChipReceive
    <3> QED
      BY <1>1, <1>2, <3>3 DEF NoFrameUnseen, ChipReceive, isrVars
  <2>2. CASE ~(Len(rxFifo) < FifoCap)
    BY <1>1, <1>2, <2>2, SeenUnchanged DEF ChipReceive, isrVars, history
  <2> QED
    BY <2>1, <2>2
<1>3. CASE ChipInterrupt
  BY <1>1, <1>3, SeenUnchanged DEF ChipInterrupt, isrVars
<1>4. CASE ChipBusOff
  BY <1>1, <1>4, SeenReset DEF ChipBusOff, isrVars
<1> QED
  BY <1>1, <1>2, <1>3, <1>4 DEF Chip

LEMMA SeenIsr ==
  ASSUME TypeOK, OneConsumer, NoFrameUnseen, Isr
  PROVE  OneConsumer' /\ NoFrameUnseen'
<1>1. CASE IsrReadStatus
  BY <1>1, SeenUnchanged DEF IsrReadStatus, OneConsumer, commandVars
<1>2. CASE IsrRead
  <2>1. OneConsumer'
    BY <1>2 DEF IsrRead, OneConsumer, commandVars
  <2>2. canMsg = NoFrame
    BY <1>2 DEF IsrRead, OneConsumer
  <2>3. Entries(rxFifo) \subseteq Entries(rxFifo') \cup {canMsg'}
    <3>1. CASE rxFifo = << >>
      BY <1>2, <3>1 DEF IsrRead
    <3>2. CASE rxFifo # << >>
      BY <1>2, <3>2, EntriesOfTail DEF TypeOK, IsrRead, Window
    <3> QED
      BY <3>1, <3>2
  <2>4. Somewhere \ {NoFrame} \subseteq Somewhere'
    BY <1>2, <2>2, <2>3 DEF Somewhere, IsrRead, history
  <2> QED
    BY <1>2, <2>1, <2>4, SeenKept DEF IsrRead, history
<1>3. CASE IsrPut
  <2>1. OneConsumer'
    BY <1>3 DEF IsrPut, OneConsumer, commandVars
  <2>2. \/ inputBuf' = Append(inputBuf, canMsg) /\ lost' = lost
        \/ inputBuf' = inputBuf /\ lost' = lost \cup ({canMsg} \ {NoFrame})
    BY <1>3 DEF IsrPut
  <2>3. Entries(Append(inputBuf, canMsg)) = Entries(inputBuf) \cup {canMsg}
    BY EntriesOfAppend DEF TypeOK
  <2>4. Somewhere \ {NoFrame} \subseteq Somewhere'
    BY <1>3, <2>2, <2>3 DEF Somewhere, IsrPut
  <2> QED
    BY <1>3, <2>1, <2>4, SeenKept DEF IsrPut
<1> QED
  BY <1>1, <1>2, <1>3 DEF Isr

LEMMA SeenReader ==
  ASSUME TypeOK, OneConsumer, NoFrameUnseen, NEW r \in Readers, Reader(r)
  PROVE  OneConsumer' /\ NoFrameUnseen'
<1>1. OneConsumer'
  BY DEF Reader, ReaderInCall, SelectAdd, SelectCheck, SelectReturn, ReadBuf,
         ReadBufEmpty, OneConsumer, isrVars, commandVars
<1>2. CASE SelectAdd(r) \/ SelectCheck(r) \/ SelectReturn(r) \/ ReadBufEmpty(r)
  BY <1>1, <1>2, SeenUnchanged
  DEF SelectAdd, SelectCheck, SelectReturn, ReadBufEmpty, isrVars
<1>3. CASE ReadBuf(r)
  <2>1. Entries(inputBuf) = {Head(inputBuf)} \cup Entries(inputBuf')
    BY <1>3, EntriesOfTail DEF TypeOK, ReadBuf
  <2>2. Entries(out') = Entries(out) \cup {Head(inputBuf)}
    BY <1>3, EntriesOfAppend, RingType DEF TypeOK, ReadBuf
  <2>3. Somewhere \subseteq Somewhere'
    BY <1>3, <2>1, <2>2 DEF Somewhere, ReadBuf, isrVars
  <2> QED
    BY <1>1, <1>3, <2>3, SeenKept DEF ReadBuf
<1> QED
  BY <1>1, <1>2, <1>3 DEF Reader, ReaderInCall

LEMMA SeenIoctl ==
  ASSUME HandlerAlone, TypeOK, OneConsumer, NoFrameUnseen, Ioctl
  PROVE  OneConsumer' /\ NoFrameUnseen'
<1> USE DEF isrVars
<1>1. ~GetId /\ ~GetData /\ ~GetRelease
  BY DEF HandlerAlone, OneConsumer, GetId, GetData, GetRelease
<1>2. CASE WriteIdReset \/ FilterReset
  <2>1. OneConsumer'
    BY <1>2 DEF WriteIdReset, FilterReset, OneConsumer
  <2>2. CASE rm
    BY <1>2, <2>1, <2>2, SeenUnchanged DEF WriteIdReset, FilterReset, history
  <2>3. CASE ~rm
    BY <1>2, <2>1, <2>3, SeenReset DEF WriteIdReset, FilterReset
  <2> QED
    BY <2>2, <2>3
<1>3. CASE Stop
  BY <1>3, SeenReset DEF Stop, OneConsumer, commandVars
<1>4. CASE Flush
  <2>1. Somewhere \ {NoFrame} \subseteq Somewhere'
    BY <1>4 DEF Somewhere, Flush
  <2> QED
    BY <1>4, <2>1, SeenKept DEF Flush, OneConsumer, commandVars
<1>5. CASE WriteIdMask \/ WriteIdLeave \/ WriteIdUnmask \/ FilterLeave
  BY <1>5, SeenUnchanged
  DEF WriteIdMask, WriteIdLeave, WriteIdUnmask, FilterLeave, OneConsumer
<1>6. CASE Start \/ ChnEnable
  BY <1>6, SeenUnchanged DEF Start, ChnEnable, OneConsumer, commandVars
<1> QED
  BY <1>1, <1>2, <1>3, <1>4, <1>5, <1>6 DEF Ioctl, CommandInProgress

(* If no task reads the receive window beside the handler, every frame the
   controller accepted is on its way, was read, or was dropped by a full ring,
   a reset or a flush: also when the controller enters reset mode, for
   whatever reason, between the status and the read of the handler. *)
THEOREM NothingReleasedUnread ==
  ASSUME HandlerAlone
  PROVE  Spec => []NoFrameUnseen
<1>1. Init => OneConsumer /\ NoFrameUnseen
  BY SeenInit
<1>2. TypeOK /\ OneConsumer /\ NoFrameUnseen /\ [Next]_vars
        => OneConsumer' /\ NoFrameUnseen'
  <2> SUFFICES ASSUME TypeOK, OneConsumer, NoFrameUnseen, [Next]_vars
               PROVE  OneConsumer' /\ NoFrameUnseen'
    OBVIOUS
  <2>1. CASE UNCHANGED vars
    BY <2>1, SeenUnchanged DEF vars, OneConsumer, history
  <2> QED
    BY <2>1, SeenChip, SeenIsr, SeenReader, SeenIoctl DEF Next
<1> QED
  BY <1>1, <1>2, TypeCorrect, PTL DEF Spec

(***************************************************************************)
(* The receive path is a lossy queue of frames.                            *)
(***************************************************************************)

(* The controller never leaves the bus by itself: when it does between the
   status and the read, the handler queues stale bytes, which are no frame. *)
StaysOnBus == "busoff" \notin Commands

(* Then the handler always reads a frame: tasks, who could reset the
   controller, do not run between the status and the read. *)
OnlyFrames ==
  /\ isr = "RX" => rxFifo # << >>
  /\ isr = "put" => canMsg \in Frame
  /\ inputBuf \in Seq(Frame)

(* The handler's message and what is behind the ring. *)
InHand == IF isr = "put" THEN << canMsg >> ELSE << >>

LEMMA FramesUnderway ==
  ASSUME TypeOK, OnlyFrames
  PROVE  /\ inputBuf \in Seq(Frame)
         /\ InHand \in Seq(Frame)
         /\ rxFifo \in Seq(Frame)
         /\ inputBuf \o InHand \in Seq(Frame)
         /\ Underway = (inputBuf \o InHand) \o rxFifo
<1>1. << >> \in Seq(Frame)
  BY EmptySeq
<1>2. InHand \in Seq(Frame)
  BY <1>1, OneItem DEF OnlyFrames, InHand
<1> QED
  BY <1>2, ConcatProperties DEF TypeOK, OnlyFrames, Underway, InHand

LEMMA OnlyFramesInit == Init => OnlyFrames
BY EmptySeq DEF Init, OnlyFrames

LEMMA OnlyFramesNext ==
  ASSUME StaysOnBus, TypeOK, OnlyFrames, [Next]_vars
  PROVE  OnlyFrames'
<1>1. CASE Chip
  <2>1. CASE ChipReceive
    <3>1. CASE Len(rxFifo) < FifoCap
      <4>1. onBus + 1 \in Frame
        BY <2>1, RxAssumption DEF TypeOK, ChipReceive, Frame
      <4>2. rxFifo' # << >>
        BY <2>1, <3>1, <4>1, AppendProperties DEF TypeOK, ChipReceive
      <4> QED
        BY <2>1, <4>2 DEF OnlyFrames, ChipReceive, isrVars
    <3>2. CASE ~(Len(rxFifo) < FifoCap)
      BY <2>1, <3>2 DEF OnlyFrames, ChipReceive, isrVars
    <3> QED
      BY <3>1, <3>2
  <2>2. CASE ChipInterrupt
    BY <2>2 DEF OnlyFrames, ChipInterrupt, isrVars
  <2> QED
    BY <1>1, <2>1, <2>2 DEF Chip, ChipBusOff, StaysOnBus
<1>2. CASE Isr
  <2>1. CASE IsrReadStatus
    BY <2>1 DEF OnlyFrames, IsrReadStatus, ReceivePending
  <2>2. CASE IsrRead
    BY <2>2, HeadTailProperties DEF TypeOK, OnlyFrames, IsrRead, Window
  <2>3. CASE IsrPut
    BY <2>3, AppendProperties DEF OnlyFrames, IsrPut
  <2> QED
    BY <1>2, <2>1, <2>2, <2>3 DEF Isr
<1>3. ASSUME NEW r \in Readers, Reader(r)
      PROVE  OnlyFrames'
  <2>1. CASE SelectAdd(r) \/ SelectCheck(r) \/ SelectReturn(r) \/ ReadBufEmpty(r)
    BY <2>1
    DEF OnlyFrames, SelectAdd, SelectCheck, SelectReturn, ReadBufEmpty, isrVars
  <2>2. CASE ReadBuf(r)
    BY <2>2, HeadTailProperties DEF OnlyFrames, ReadBuf, TaskRuns, isrVars
  <2> QED
    BY <1>3, <2>1, <2>2 DEF Reader, ReaderInCall
<1>4. CASE Ioctl
  <2>1. isr = "idle" /\ UNCHANGED isr
    BY <1>4
    DEF Ioctl, CommandInProgress, GetId, GetData, GetRelease, WriteIdMask,
        WriteIdReset, WriteIdLeave, WriteIdUnmask, FilterReset, FilterLeave,
        Stop, Start, Flush, ChnEnable, TaskRuns, isrVars
  <2>2. inputBuf' = inputBuf \/ inputBuf' = << >>
    BY <1>4
    DEF Ioctl, CommandInProgress, GetId, GetData, GetRelease, WriteIdMask,
        WriteIdReset, WriteIdLeave, WriteIdUnmask, FilterReset, FilterLeave,
        Stop, Start, Flush, ChnEnable
  <2> QED
    BY <2>1, <2>2, EmptySeq DEF OnlyFrames
<1>5. CASE UNCHANGED vars
  BY <1>5 DEF OnlyFrames, vars
<1> QED
  BY <1>1, <1>2, <1>3, <1>4, <1>5 DEF Next

(* A step that leaves the three places alone is none of the queue. *)
LEMMA QueueUnchanged ==
  ASSUME UNCHANGED << inputBuf, isrVars, rxFifo, out >>
  PROVE  UNCHANGED << Underway, out >>
BY DEF Underway, isrVars

(* A frame the controller accepts joins the queue at its end. *)
LEMMA ReceivePuts ==
  ASSUME TypeOK, OnlyFrames, ChipReceive
  PROVE  [Received!Next]_<< Underway, out >>
<1>1. CASE Len(rxFifo) < FifoCap
  <2> DEFINE x == onBus + 1
  <2>1. x \in Frame
    BY RxAssumption DEF TypeOK, ChipReceive, Frame
  <2>2. /\ rxFifo' = Append(rxFifo, x)
        /\ UNCHANGED << inputBuf, isr, canMsg, out >>
    BY <1>1 DEF ChipReceive, isrVars
  <2> HIDE DEF x
  <2>3. Underway' = (inputBuf \o InHand) \o Append(rxFifo, x)
    BY <2>2 DEF Underway, InHand
  <2>4. Underway' = Append(Underway, x)
    BY <2>1, <2>3, FramesUnderway, AppendToLast
  <2> QED
    BY <2>1, <2>2, <2>4 DEF Received!Next, Received!Put
<1>2. CASE ~(Len(rxFifo) < FifoCap)
  BY <1>2, QueueUnchanged DEF ChipReceive
<1> QED
  BY <1>1, <1>2

(* What is dropped from the middle of the queue is lost. *)
LEMMA MiddleLost ==
  ASSUME NEW a \in Seq(Frame), NEW b \in Seq(Frame), NEW c \in Seq(Frame),
         Underway = (a \o b) \o c, Underway' = a \o c, UNCHANGED out
  PROVE  Received!Next
<1>1. RunLost(Underway, Underway')
  BY DropMiddle
<1>2. Received!Lose
  BY <1>1 DEF RunLost, Received!Lose
<1> QED
  BY <1>2 DEF Received!Next

(* Reset mode loses the end of the queue. *)
LEMMA ResetLoses ==
  ASSUME TypeOK, OnlyFrames, EnterReset, UNCHANGED << inputBuf, isrVars, out >>
  PROVE  Received!Next
<1> DEFINE a == inputBuf \o InHand
<1>1. /\ a \in Seq(Frame) /\ rxFifo \in Seq(Frame) /\ << >> \in Seq(Frame)
      /\ Underway = a \o rxFifo
  BY FramesUnderway, EmptySeq
<1>2. Underway' = a \o << >>
  BY DEF Underway, InHand, EnterReset, isrVars
<1> HIDE DEF a
<1>3. (a \o rxFifo) \o << >> = Underway
  BY <1>1, ConcatEmptySeq, ConcatProperties
<1> QED
  BY <1>1, <1>2, <1>3, MiddleLost

(* WNCAN_CHNCONFIG_GET loses the oldest frame of the FIFO. *)
LEMMA ReleaseLoses ==
  ASSUME TypeOK, OnlyFrames, GetRelease
  PROVE  [Received!Next]_<< Underway, out >>
<1>1. UNCHANGED << inputBuf, isrVars, out >>
  BY DEF GetRelease
<1>2. CASE rxFifo = << >>
  BY <1>1, <1>2, QueueUnchanged DEF GetRelease
<1>3. CASE rxFifo # << >>
  <2> DEFINE a == inputBuf \o InHand
             h == << Head(rxFifo) >>
             t == Tail(rxFifo)
  <2>1. /\ a \in Seq(Frame) /\ h \in Seq(Frame) /\ t \in Seq(Frame)
        /\ Underway = a \o rxFifo
        /\ rxFifo = h \o t
    BY <1>3, FramesUnderway, HeadTailProperties, OneItem, HeadThenTail
  <2>2. Underway' = a \o t
    BY <1>1, <1>3 DEF Underway, InHand, GetRelease, isrVars
  <2> HIDE DEF a, h, t
  <2>3. Underway = (a \o h) \o t
    BY <2>1, ConcatAssociative
  <2> QED
    BY <1>1, <2>1, <2>2, <2>3, MiddleLost
<1> QED
  BY <1>2, <1>3

(* The handler takes a frame from the FIFO, it stays where it is in the
   queue. *)
LEMMA ReadKeepsQueue ==
  ASSUME TypeOK, OnlyFrames, IsrRead
  PROVE  UNCHANGED << Underway, out >>
<1>1. /\ isr = "RX" /\ isr' = "put"
      /\ rxFifo # << >>
      /\ canMsg' = Head(rxFifo)
      /\ rxFifo' = Tail(rxFifo)
      /\ UNCHANGED << inputBuf, out >>
  BY DEF OnlyFrames, IsrRead, Window, history
<1>2. << Head(rxFifo) >> \in Seq(Frame) /\ Tail(rxFifo) \in Seq(Frame)
  BY <1>1, FramesUnderway, HeadTailProperties, OneItem
<1>3. Underway' = (inputBuf \o << Head(rxFifo) >>) \o Tail(rxFifo)
  BY <1>1 DEF Underway
<1>4. (inputBuf \o << Head(rxFifo) >>) \o Tail(rxFifo)
        = inputBuf \o (<< Head(rxFifo) >> \o Tail(rxFifo))
  BY <1>2, FramesUnderway, ConcatAssociative
<1>5. << Head(rxFifo) >> \o Tail(rxFifo) = rxFifo
  BY <1>1, FramesUnderway, HeadThenTail
<1>6. Underway = inputBuf \o rxFifo
  BY <1>1, FramesUnderway, ConcatEmptySeq DEF Underway
<1> QED
  BY <1>1, <1>3, <1>4, <1>5, <1>6

(* The handler's message goes into the ring or, when that is full, is lost. *)
LEMMA PutKeepsOrLoses ==
  ASSUME TypeOK, OnlyFrames, IsrPut
  PROVE  [Received!Next]_<< Underway, out >>
<1> DEFINE m == << canMsg >>
<1>1. /\ m \in Seq(Frame)
      /\ inputBuf \in Seq(Frame)
      /\ rxFifo \in Seq(Frame)
      /\ Append(inputBuf, canMsg) = inputBuf \o m
      /\ Underway = (inputBuf \o m) \o rxFifo
      /\ UNCHANGED << rxFifo, out >>
  BY FramesUnderway, OneItem, AppendIsConcat DEF IsrPut, OnlyFrames, Underway
<1> HIDE DEF m
<1>2. inputBuf' \in Seq(Frame) /\ Underway' = inputBuf' \o rxFifo
  <2>1. inputBuf' \in Seq(Frame)
    BY <1>1, AppendProperties, ZenonT(30) DEF IsrPut, OnlyFrames
  <2>2. Underway' = (inputBuf' \o << >>) \o rxFifo
    BY <1>1 DEF Underway, IsrPut
  <2> QED
    BY <2>1, <2>2, ConcatEmptySeq
<1>3. CASE Len(inputBuf) < RingCap
  BY <1>1, <1>2, <1>3 DEF IsrPut
<1>4. CASE ~(Len(inputBuf) < RingCap)
  <2>1. Underway' = inputBuf \o rxFifo
    BY <1>2, <1>4 DEF IsrPut
  <2> QED
    BY <1>1, <2>1, MiddleLost
<1> QED
  BY <1>3, <1>4

(* read() takes the oldest of the queue. *)
LEMMA ReadGets ==
  ASSUME TypeOK, OnlyFrames, NEW r \in Readers, ReadBuf(r)
  PROVE  Received!Next
<1>1. /\ inputBuf # << >>
      /\ inputBuf' = Tail(inputBuf)
      /\ out' = Append(out, Head(inputBuf))
      /\ isr = "idle" /\ UNCHANGED << isr, rxFifo >>
  BY DEF ReadBuf, TaskRuns, isrVars
<1>2. Tail(inputBuf) \in Seq(Frame)
  BY <1>1, FramesUnderway, HeadTailProperties
<1>3. Underway = inputBuf \o rxFifo
  BY <1>1, FramesUnderway, ConcatEmptySeq DEF Underway
<1>4. Underway' = Tail(inputBuf) \o rxFifo
  BY <1>1, <1>2, ConcatEmptySeq DEF Underway
<1>5. /\ Underway # << >>
      /\ Head(Underway) = Head(inputBuf)
      /\ Tail(Underway) = Tail(inputBuf) \o rxFifo
  BY <1>1, <1>3, FramesUnderway, HeadOfFirst
<1> QED
  BY <1>1, <1>4, <1>5 DEF Received!Next, Received!Get

(* A flush loses what the ring holds. *)
LEMMA FlushLoses ==
  ASSUME TypeOK, OnlyFrames, Flush
  PROVE  Received!Next
<1>1. /\ inputBuf' = << >>
      /\ isr = "idle" /\ UNCHANGED << isr, rxFifo, out >>
  BY DEF Flush, TaskRuns, isrVars
<1>2. << >> \in Seq(Frame) /\ inputBuf \in Seq(Frame) /\ rxFifo \in Seq(Frame)
  BY FramesUnderway, EmptySeq
<1>3. Underway = (<< >> \o inputBuf) \o rxFifo
  BY <1>1, <1>2, ConcatEmptySeq DEF Underway
<1>4. Underway' = << >> \o rxFifo
  BY <1>1, <1>2, ConcatEmptySeq DEF Underway
<1> QED
  BY <1>1, <1>2, <1>3, <1>4, MiddleLost

LEMMA ReceivedStep ==
  ASSUME StaysOnBus, TypeOK, OnlyFrames, [Next]_vars
  PROVE  [Received!Next]_<< Underway, out >>
<1>1. CASE Chip
  BY <1>1, ReceivePuts, QueueUnchanged
  DEF Chip, ChipInterrupt, ChipBusOff, StaysOnBus, history
<1>2. CASE Isr
  <2>1. CASE IsrReadStatus
    BY <2>1 DEF IsrReadStatus, Underway, history
  <2> QED
    BY <1>2, <2>1, ReadKeepsQueue, PutKeepsOrLoses DEF Isr
<1>3. CASE Ioctl
  <2>1. CASE GetId \/ GetData \/ WriteIdMask \/ WriteIdLeave \/ WriteIdUnmask
             \/ FilterLeave \/ Start \/ ChnEnable
    BY <2>1, QueueUnchanged
    DEF GetId, GetData, WriteIdMask, WriteIdLeave, WriteIdUnmask, FilterLeave,
        Start, ChnEnable, history
  <2>2. CASE WriteIdReset \/ FilterReset
    <3>1. UNCHANGED << inputBuf, isrVars, out >>
      BY <2>2 DEF WriteIdReset, FilterReset
    <3>2. CASE rm
      BY <2>2, <3>1, <3>2, QueueUnchanged DEF WriteIdReset, FilterReset
    <3>3. CASE ~rm
      BY <2>2, <3>1, <3>3, ResetLoses DEF WriteIdReset, FilterReset
    <3> QED
      BY <3>2, <3>3
  <2>3. CASE Stop
    BY <2>3, ResetLoses DEF Stop
  <2> QED
    BY <1>3, <2>1, <2>2, <2>3, FlushLoses, ReleaseLoses
    DEF Ioctl, CommandInProgress
<1>4. ASSUME NEW r \in Readers, Reader(r)
      PROVE  [Received!Next]_<< Underway, out >>
  <2>1. CASE SelectAdd(r) \/ SelectCheck(r) \/ SelectReturn(r) \/ ReadBufEmpty(r)
    BY <2>1, QueueUnchanged
    DEF SelectAdd, SelectCheck, SelectReturn, ReadBufEmpty, history
  <2> QED
    BY <1>4, <2>1, ReadGets DEF Reader, ReaderInCall
<1>5. CASE UNCHANGED vars
  BY <1>5, QueueUnchanged DEF vars, isrVars
<1> QED
  BY <1>1, <1>2, <1>3, <1>4, <1>5 DEF Next

LEMMA ReceivedInit == Init => Received!Init
<1> SUFFICES ASSUME Init
             PROVE  Received!Init
  OBVIOUS
<1>1. << >> \o << >> = << >>
  BY EmptySeq, ConcatEmptySeq
<1> QED
  BY <1>1 DEF Init, Underway, Received!Init

(* Whoever reads and whatever commands run, frames come out of read() in the
   order of the bus and each at most once: FIFO, handler and ring together
   implement a queue that may lose a run of frames and do nothing else. *)
THEOREM ReceivesInOrder ==
  ASSUME StaysOnBus
  PROVE  Spec => ImplementsLossyFifo
<1>1. Init => OnlyFrames /\ Received!Init
  BY OnlyFramesInit, ReceivedInit
<1>2. TypeOK /\ OnlyFrames /\ [Next]_vars => OnlyFrames'
  BY OnlyFramesNext
<1>3. TypeOK /\ OnlyFrames /\ [Next]_vars => [Received!Next]_<< Underway, out >>
  BY ReceivedStep
<1> QED
  BY <1>1, <1>2, <1>3, TypeCorrect, PTL
  DEF Spec, ImplementsLossyFifo, Received!Spec
=============================================================================
