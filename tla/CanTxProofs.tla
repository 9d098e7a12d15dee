---------------------------- MODULE CanTxProofs ----------------------------
(***************************************************************************)
(* Proofs about CanTx, for any number of writers, any ring capacity, any   *)
(* set of disturbances and both interrupt latencies.                       *)
(***************************************************************************)
EXTENDS CanTx, RingLemmas

(***************************************************************************)
(* The case TXCLR of the handler, which the interrupt and the jump start   *)
(* share.                                                                  *)
(***************************************************************************)

(* TXCLR keeps the ring within its capacity and every variable it writes in
   its set. *)
LEMMA TxClrType ==
  ASSUME TypeOK, TxClr
  PROVE  /\ outputBuf' \in Seq(Msg)
         /\ Len(outputBuf') <= RingCap
         /\ txReq' \in Msg \cup {NoMsg}
         /\ lost' \subseteq Msg
<1>1. CASE TxClrEmpty
  BY <1>1 DEF TypeOK, TxClrEmpty
<1>2. CASE outputBuf # << >>
  <2> DEFINE m == Head(outputBuf)
             t == Tail(outputBuf)
  <2>1. /\ m \in Msg
        /\ t \in Seq(Msg)
        /\ Len(t) = Len(outputBuf) - 1
        /\ Len(outputBuf) \in Nat
    BY <1>2, HeadTailProperties, LenProperties DEF TypeOK
  <2>2. Append(t, m) \in Seq(Msg) /\ Len(Append(t, m)) = Len(t) + 1
    BY <2>1, AppendProperties
  <2> HIDE DEF m, t
  <2>3. CASE TxClrSend
    BY <2>1, <2>3, TxAssumption DEF TypeOK, TxClrSend, m, t
  <2>4. CASE TxClrPutBack
    BY <2>1, <2>2, <2>4 DEF TypeOK, TxClrPutBack, m, t
  <2> QED
    BY <1>2, <2>3, <2>4 DEF TxClr, TxClrEmpty
<1> QED
  BY <1>1, <1>2 DEF TxClr, TxClrSend, TxClrPutBack

(* TXCLR only moves a message: no message is in two places afterwards, and
   the same messages are somewhere. *)
LEMMA TxClrMoves ==
  ASSUME TypeOK, AtMostOnce, TxClr, UNCHANGED sent
  PROVE  AtMostOnce' /\ Placed' = Placed
<1>1. CASE TxClrEmpty
  BY <1>1 DEF TxClrEmpty, AtMostOnce, Placed
<1>2. CASE outputBuf # << >>
  <2> DEFINE m == Head(outputBuf)
             t == Tail(outputBuf)
  <2>1. /\ m \in Msg
        /\ t \in Seq(Msg)
    BY <1>2, HeadTailProperties DEF TypeOK
  <2>2. Entries(outputBuf) = {m} \cup Entries(t)
    BY <1>2, EntriesOfTail DEF TypeOK
  <2>3. Distinct(t) /\ m \notin Entries(t)
    BY <1>2, DistinctTail DEF TypeOK, AtMostOnce
  <2> HIDE DEF m, t
  <2>4. Entries(Append(t, m)) = Entries(t) \cup {m}
    BY <2>1, EntriesOfAppend
  <2>5. Distinct(Append(t, m))
    BY <2>1, <2>3, DistinctAppend
  <2>6. NoMsg \notin Msg
    BY TxAssumption
  <2>7. CASE TxClrSend
    <3>1. outputBuf' = t /\ txReq = NoMsg
      BY <2>7 DEF TxClrSend, TxMsgAccepts, t
    <3>2. \/ txReq' = m /\ lost' = lost
          \/ txReq' = txReq /\ lost' = lost \cup {m}
      BY <2>7 DEF TxClrSend, m
    <3>3. AtMostOnce'
      BY <2>1, <2>2, <2>3, <2>6, <3>1, <3>2 DEF AtMostOnce
    <3>4. Placed' = Placed
      BY <2>1, <2>2, <2>6, <3>1, <3>2 DEF Placed
    <3> QED
      BY <3>3, <3>4
  <2>8. CASE TxClrPutBack
    <3>1. outputBuf' = Append(t, m) /\ txReq' = txReq /\ lost' = lost
      BY <2>8 DEF TxClrPutBack, m, t
    <3>2. Entries(outputBuf') = Entries(outputBuf)
      BY <2>2, <2>4, <3>1
    <3>3. Distinct(outputBuf')
      BY <2>5, <3>1
    <3> QED
      BY <3>1, <3>2, <3>3 DEF AtMostOnce, Placed
  <2> QED
    BY <1>2, <2>7, <2>8 DEF TxClr, TxClrEmpty
<1> QED
  BY <1>1, <1>2 DEF TxClr, TxClrSend, TxClrPutBack

(***************************************************************************)
(* Type correctness.                                                       *)
(***************************************************************************)

LEMMA TypeInit == Init => TypeOK
<1> SUFFICES ASSUME Init
             PROVE  TypeOK
  OBVIOUS
<1>1. << >> \in Seq(Msg) /\ Len(<< >>) = 0
  BY EmptySeq
<1>2. accepted \in [Writers -> 0 .. MaxWrites]
  BY TxAssumption DEF Init
<1>3. /\ pc \in [Writers -> PcStates]
      /\ wokenBy \in [Writers -> {"nobody", "check", "interrupt"}]
  BY DEF Init, PcStates
<1>4. 0 <= RingCap
  BY TxAssumption
<1> QED
  BY <1>1, <1>2, <1>3, <1>4 DEF Init, TypeOK

LEMMA TypeChip ==
  ASSUME TypeOK, Chip
  PROVE  TypeOK'
<1>1. CASE ChipTransmit
  <2>1. sent' \in Seq(Msg)
    BY <1>1, AppendProperties DEF TypeOK, ChipTransmit
  <2> QED
    BY <1>1, <2>1 DEF TypeOK, ChipTransmit, ReleaseTxBuffer
<1>2. CASE ChipInterrupt
  BY <1>2 DEF TypeOK, ChipInterrupt
<1>3. CASE ChipBusOff
  BY <1>3 DEF TypeOK, ChipBusOff, EnterReset
<1>4. CASE ChipRecover
  BY <1>4 DEF TypeOK, ChipRecover
<1> QED
  BY <1>1, <1>2, <1>3, <1>4 DEF Chip

LEMMA TypeIsr ==
  ASSUME TypeOK, Isr
  PROVE  TypeOK'
<1>1. CASE IsrReadStatus
  <2>1. GetIntStatus(ir, busOff) \in {"NONE", "TX", "ERROR", "BUS_OFF", "WAKE_UP"}
    BY DEF GetIntStatus
  <2> QED
    BY <1>1, <2>1 DEF TypeOK, IsrReadStatus
<1>2. CASE IsrError
  BY <1>2 DEF TypeOK, IsrError
<1>3. CASE IsrTx
  BY <1>3 DEF TypeOK, IsrTx
<1>4. CASE IsrTxClr
  BY <1>4, TxClrType DEF TypeOK, IsrTxClr
<1> QED
  BY <1>1, <1>2, <1>3, <1>4 DEF Isr

LEMMA TypeWriter ==
  ASSUME TypeOK, NEW w \in Writers, Writer(w)
  PROVE  TypeOK'
<1> USE DEF PcStates
<1>1. CASE SelectAdd(w)
  BY <1>1 DEF TypeOK, SelectAdd, chipVars
<1>2. CASE SelectCheck(w)
  BY <1>2 DEF TypeOK, SelectCheck, chipVars
<1>3. CASE SelectReturn(w)
  BY <1>3 DEF TypeOK, SelectReturn, chipVars
<1>4. CASE WriteBuf(w)
  <2> DEFINE m == [w |-> w, n |-> accepted[w] + 1]
  <2>1. accepted[w] + 1 \in 1 .. MaxWrites
    BY <1>4, TxAssumption DEF TypeOK, WriteBuf
  <2>2. m \in Msg
    BY <2>1 DEF Msg
  <2> HIDE DEF m
  <2>3. /\ Append(outputBuf, m) \in Seq(Msg)
        /\ Len(Append(outputBuf, m)) = Len(outputBuf) + 1
    BY <2>2, AppendProperties DEF TypeOK
  <2>4. outputBuf' \in Seq(Msg) /\ Len(outputBuf') <= RingCap
    BY <1>4, <2>3, TxAssumption, LenProperties DEF TypeOK, WriteBuf, m
  <2>5. accepted' \in [Writers -> 0 .. MaxWrites]
    BY <1>4, <2>1 DEF TypeOK, WriteBuf
  <2> QED
    BY <1>4, <2>4, <2>5 DEF TypeOK, WriteBuf, chipVars, selectVars
<1>5. CASE WriteBufFull(w)
  BY <1>5 DEF TypeOK, WriteBufFull, chipVars, selectVars
<1>6. CASE KickLock(w)
  BY <1>6 DEF TypeOK, KickLock, chipVars, selectVars
<1>7. CASE Kick(w)
  BY <1>7, TxClrType DEF TypeOK, Kick, selectVars
<1> QED
  BY <1>1, <1>2, <1>3, <1>4, <1>5, <1>6, <1>7 DEF Writer, WriterInCall

LEMMA TypeIoctl ==
  ASSUME TypeOK, Ioctl
  PROVE  TypeOK'
<1>1. CASE Stop
  BY <1>1 DEF TypeOK, Stop, EnterReset, selectVars
<1>2. CASE Start
  BY <1>2 DEF TypeOK, Start, selectVars
<1>3. CASE ConfigEnter
  BY <1>3 DEF TypeOK, ConfigEnter, EnterReset, selectVars
<1>4. CASE ConfigLeave
  BY <1>4 DEF TypeOK, ConfigLeave, selectVars
<1>5. CASE TxAbort
  BY <1>5 DEF TypeOK, TxAbort, ReleaseTxBuffer, selectVars
<1>6. CASE Flush
  <2>1. outputBuf' \in Seq(Msg) /\ Len(outputBuf') <= RingCap
    BY <1>6, TxAssumption, EmptySeq DEF TypeOK, Flush
  <2>2. Entries(outputBuf) \subseteq Msg
    BY EntriesType DEF TypeOK
  <2> QED
    BY <1>6, <2>1, <2>2 DEF TypeOK, Flush, chipVars, selectVars
<1>7. CASE ChnEnable
  BY <1>7 DEF TypeOK, ChnEnable, selectVars
<1> QED
  BY <1>1, <1>2, <1>3, <1>4, <1>5, <1>6, <1>7 DEF Ioctl

(* The output ring never exceeds the size it was created with, whatever the
   handler puts back, and every variable stays in its set. *)
THEOREM TypeCorrect == Spec => []TypeOK
<1>1. Init => TypeOK
  BY TypeInit
<1>2. TypeOK /\ [Next]_vars => TypeOK'
  <2> SUFFICES ASSUME TypeOK, [Next]_vars
               PROVE  TypeOK'
    OBVIOUS
  <2>1. CASE UNCHANGED vars
    BY <2>1 DEF TypeOK, vars
  <2> QED
    BY <2>1, TypeChip, TypeIsr, TypeIoctl, TypeWriter DEF Next
<1> QED
  BY <1>1, <1>2, PTL DEF Spec

(***************************************************************************)
(* Every accepted message is in exactly one place.                         *)
(***************************************************************************)

Conserved == TypeOK /\ AtMostOnce /\ Accounted

LEMMA ConservedInit == Init => AtMostOnce /\ Accounted
<1> SUFFICES ASSUME Init
             PROVE  AtMostOnce /\ Accounted
  OBVIOUS
<1>1. Entries(<< >>) = {} /\ Distinct(<< >>)
  BY DEF Entries, Distinct
<1>2. Written = {}
  BY TxAssumption DEF Init, Written, Msg
<1>3. NoMsg \notin {} /\ Placed = {}
  BY <1>1 DEF Init, Placed
<1> QED
  BY <1>1, <1>2, <1>3 DEF Init, AtMostOnce, Accounted

(* A step that leaves the four places and the counters alone. *)
LEMMA ConservedUnchanged ==
  ASSUME Conserved, UNCHANGED << outputBuf, txReq, sent, lost, accepted >>
  PROVE  AtMostOnce' /\ Accounted'
BY DEF Conserved, AtMostOnce, Accounted, Placed, Written

(* The controller's request moves to the bus or is dropped. *)
LEMMA ConservedRelease ==
  ASSUME Conserved, txReq # NoMsg, txReq' = NoMsg,
         UNCHANGED << outputBuf, accepted >>,
         \/ sent' = Append(sent, txReq) /\ lost' = lost
         \/ sent' = sent /\ lost' = lost \cup {txReq}
  PROVE  AtMostOnce' /\ Accounted'
<1>1. /\ txReq \in Msg /\ NoMsg \notin Msg
      /\ sent \in Seq(Msg)
  BY TxAssumption DEF Conserved, TypeOK
<1>2. /\ Entries(outputBuf) \subseteq Msg
      /\ Entries(sent) \subseteq Msg
      /\ lost \subseteq Msg
  BY EntriesType DEF Conserved, TypeOK
<1>3. CASE sent' = Append(sent, txReq) /\ lost' = lost
  <2>1. Entries(sent') = Entries(sent) \cup {txReq}
    BY <1>1, <1>3, EntriesOfAppend
  <2>2. Distinct(sent')
    BY <1>1, <1>3, DistinctAppend DEF Conserved, AtMostOnce
  <2>3. AtMostOnce'
    BY <1>1, <1>2, <1>3, <2>1, <2>2 DEF Conserved, AtMostOnce
  <2>4. Placed' = Placed
    BY <1>1, <1>3, <2>1 DEF Placed
  <2> QED
    BY <2>3, <2>4 DEF Conserved, Accounted, Written
<1>4. CASE sent' = sent /\ lost' = lost \cup {txReq}
  <2>1. AtMostOnce'
    BY <1>1, <1>2, <1>4 DEF Conserved, AtMostOnce
  <2>2. Placed' = Placed
    BY <1>1, <1>4 DEF Placed
  <2> QED
    BY <2>1, <2>2 DEF Conserved, Accounted, Written
<1> QED
  BY <1>3, <1>4

(* Reset mode drops the request, if there is one. *)
LEMMA ConservedReset ==
  ASSUME Conserved, EnterReset, UNCHANGED << outputBuf, sent, accepted >>
  PROVE  AtMostOnce' /\ Accounted'
<1>1. CASE txReq = NoMsg
  BY <1>1, ConservedUnchanged DEF EnterReset
<1>2. CASE txReq # NoMsg
  BY <1>2, ConservedRelease DEF EnterReset
<1> QED
  BY <1>1, <1>2

(* write() puts a message that was nowhere before. *)
LEMMA ConservedWrite ==
  ASSUME Conserved, NEW w \in Writers, WriteBuf(w)
  PROVE  AtMostOnce' /\ Accounted'
<1> DEFINE m == [w |-> w, n |-> accepted[w] + 1]
<1>1. /\ accepted[w] + 1 \in 1 .. MaxWrites
      /\ accepted[w] \in Nat
  BY TxAssumption DEF Conserved, TypeOK, WriteBuf
<1>2. m \in Msg /\ m.w = w /\ m.n = accepted[w] + 1
  BY <1>1 DEF Msg
<1>3. outputBuf' = Append(outputBuf, m)
  BY DEF WriteBuf
<1> HIDE DEF m
<1>4. m \notin Written
  BY <1>1, <1>2 DEF Written
<1>5. Written' = Written \cup {m}
  <2>1. accepted' = [accepted EXCEPT ![w] = accepted[w] + 1]
    BY DEF WriteBuf
  <2>2. ASSUME NEW x \in Msg
        PROVE  x \in Written' <=> x \in Written \cup {m}
    <3>1. /\ x.w \in Writers
          /\ x.n \in Nat
          /\ x = [w |-> x.w, n |-> x.n]
          /\ accepted[x.w] \in Nat
      BY TxAssumption DEF Msg, Conserved, TypeOK
    <3>2. CASE x.w # w
      <4>1. accepted'[x.w] = accepted[x.w] /\ x # m
        BY <1>2, <2>1, <3>1, <3>2 DEF Conserved, TypeOK
      <4> QED
        BY <4>1 DEF Written
    <3>3. CASE x.w = w
      <4>1. accepted'[x.w] = accepted[w] + 1
        BY <2>1, <3>1, <3>3 DEF Conserved, TypeOK
      <4>2. x = m <=> x.n = accepted[w] + 1
        BY <1>2, <3>1, <3>3 DEF m
      <4> QED
        BY <1>1, <3>1, <3>3, <4>1, <4>2 DEF Written
    <3> QED
      BY <3>2, <3>3
  <2> QED
    BY <1>2, <2>2 DEF Written
<1>6. m \notin Placed
  BY <1>4 DEF Conserved, Accounted
<1>7. /\ Entries(outputBuf') = Entries(outputBuf) \cup {m}
      /\ Distinct(outputBuf')
  <2>1. m \notin Entries(outputBuf)
    BY <1>6 DEF Placed
  <2> QED
    BY <1>2, <1>3, <2>1, EntriesOfAppend, DistinctAppend
    DEF Conserved, TypeOK, AtMostOnce
<1>8. UNCHANGED << txReq, sent, lost >>
  BY DEF WriteBuf, chipVars
<1>9. AtMostOnce'
  BY <1>2, <1>6, <1>7, <1>8, TxAssumption DEF Conserved, AtMostOnce, Placed
<1>10. Placed' = Placed \cup {m}
  BY <1>7, <1>8 DEF Placed
<1> QED
  BY <1>5, <1>9, <1>10 DEF Conserved, Accounted

(* A flush drops everything that is in the ring. *)
LEMMA ConservedFlush ==
  ASSUME Conserved, Flush
  PROVE  AtMostOnce' /\ Accounted'
<1>1. Entries(<< >>) = {} /\ Distinct(<< >>)
  BY DEF Entries, Distinct
<1>2. /\ outputBuf' = << >>
      /\ lost' = lost \cup Entries(outputBuf)
      /\ UNCHANGED << txReq, sent, accepted >>
  BY DEF Flush, chipVars
<1>3. Entries(outputBuf') = {} /\ Distinct(outputBuf')
  BY <1>1, <1>2
<1>4. AtMostOnce'
  BY <1>2, <1>3 DEF Conserved, AtMostOnce
<1>5. Placed' = Placed
  BY <1>2, <1>3 DEF Placed
<1> QED
  BY <1>2, <1>4, <1>5 DEF Conserved, Accounted, Written

(* TXCLR, from the interrupt or from write(). *)
LEMMA ConservedTxClr ==
  ASSUME Conserved, TxClr, UNCHANGED << sent, accepted >>
  PROVE  AtMostOnce' /\ Accounted'
BY TxClrMoves DEF Conserved, Accounted, Written

LEMMA ConservedNext ==
  ASSUME Conserved, [Next]_vars
  PROVE  AtMostOnce' /\ Accounted'
<1>1. CASE Chip
  <2>1. CASE ChipTransmit
    BY <2>1, ConservedRelease DEF ChipTransmit, ReleaseTxBuffer
  <2>2. CASE ChipInterrupt
    BY <2>2, ConservedUnchanged DEF ChipInterrupt
  <2>3. CASE ChipBusOff
    BY <2>3, ConservedReset DEF ChipBusOff
  <2>4. CASE ChipRecover
    BY <2>4, ConservedUnchanged DEF ChipRecover
  <2> QED
    BY <1>1, <2>1, <2>2, <2>3, <2>4 DEF Chip
<1>2. CASE Isr
  <2>1. CASE IsrReadStatus
    BY <2>1, ConservedUnchanged DEF IsrReadStatus
  <2>2. CASE IsrError
    BY <2>2, ConservedUnchanged DEF IsrError
  <2>3. CASE IsrTx
    BY <2>3, ConservedUnchanged DEF IsrTx
  <2>4. CASE IsrTxClr
    BY <2>4, ConservedTxClr DEF IsrTxClr
  <2> QED
    BY <1>2, <2>1, <2>2, <2>3, <2>4 DEF Isr
<1>3. CASE Ioctl
  <2>1. CASE Stop
    BY <2>1, ConservedReset DEF Stop, selectVars
  <2>2. CASE Start
    BY <2>2, ConservedUnchanged DEF Start
  <2>3. CASE ConfigEnter
    <3>1. UNCHANGED << outputBuf, sent, accepted >>
      BY <2>3 DEF ConfigEnter
    <3>2. CASE rm
      BY <2>3, <3>1, <3>2, ConservedUnchanged DEF ConfigEnter
    <3>3. CASE ~rm
      BY <2>3, <3>1, <3>3, ConservedReset DEF ConfigEnter
    <3> QED
      BY <3>2, <3>3
  <2>4. CASE ConfigLeave
    BY <2>4, ConservedUnchanged DEF ConfigLeave
  <2>5. CASE TxAbort
    BY <2>5, ConservedRelease DEF TxAbort, ReleaseTxBuffer
  <2>6. CASE Flush
    BY <2>6, ConservedFlush
  <2>7. CASE ChnEnable
    BY <2>7, ConservedUnchanged DEF ChnEnable
  <2> QED
    BY <1>3, <2>1, <2>2, <2>3, <2>4, <2>5, <2>6, <2>7 DEF Ioctl
<1>4. ASSUME NEW w \in Writers, Writer(w)
      PROVE  AtMostOnce' /\ Accounted'
  <2>1. CASE SelectAdd(w) \/ SelectCheck(w) \/ SelectReturn(w) \/ WriteBufFull(w)
             \/ KickLock(w)
    BY <2>1, ConservedUnchanged
    DEF SelectAdd, SelectCheck, SelectReturn, WriteBufFull, KickLock, chipVars
  <2>2. CASE WriteBuf(w)
    BY <2>2, ConservedWrite
  <2>3. CASE Kick(w)
    BY <2>3, ConservedTxClr DEF Kick
  <2> QED
    BY <1>4, <2>1, <2>2, <2>3 DEF Writer, WriterInCall
<1>5. CASE UNCHANGED vars
  BY <1>5, ConservedUnchanged DEF vars
<1> QED
  BY <1>1, <1>2, <1>3, <1>4, <1>5 DEF Next

(* No message is in two places or goes out twice, and every message write()
   accepted is in the ring, in the controller, on the bus or among those a
   reset, an abort or a flush dropped: whatever the writers, the controller
   and the ioctl commands do, illegal lengths included. *)
THEOREM MessagesConserved == Spec => []ExactlyOnce
<1>1. Init => Conserved
  BY TypeInit, ConservedInit DEF Conserved
<1>2. TypeOK /\ TypeOK' /\ Conserved /\ [Next]_vars => Conserved'
  BY ConservedNext DEF Conserved
<1>3. Conserved => ExactlyOnce
  BY DEF Conserved, ExactlyOnce
<1> QED
  BY <1>1, <1>2, <1>3, TypeCorrect, PTL DEF Spec

(***************************************************************************)
(* A queued message always has somebody who will send it.                  *)
(***************************************************************************)

(* Only commands that neither reset the controller nor mask its transmit
   interrupt, no other interrupt source, and no illegal length: the
   property fails with another interrupt source, whose bit hides the transmit
   bit that is read with it. *)
Undisturbed ==
  /\ Disturbances \subseteq {"abort", "flush"}
  /\ IllegalLen = {}

(* What such a controller's registers then look like. *)
Online ==
  /\ tie = TRUE
  /\ rm = FALSE
  /\ busOff = FALSE
  /\ cfg = "none"
  /\ ir \subseteq {"TI"}
  /\ isr \in {"idle", "TX", "TXCLR"}

Served == TypeOK /\ Online /\ NoStrandedMessage

(* TXCLR leaves the ring empty or the controller busy. *)
LEMMA TxClrServes ==
  ASSUME TypeOK, Undisturbed, Online, TxClr
  PROVE  outputBuf' = << >> \/ txReq' # NoMsg
<1>1. CASE TxClrEmpty
  BY <1>1 DEF TxClrEmpty
<1>2. CASE TxClrSend
  <2>1. outputBuf # << >> /\ txReq' = Head(outputBuf)
    BY <1>2 DEF TxClrSend, Online
  <2>2. Head(outputBuf) \in Msg
    BY <2>1, HeadTailProperties DEF TypeOK
  <2> QED
    BY <2>1, <2>2, TxAssumption
<1>3. CASE TxClrPutBack
  BY <1>3 DEF TxClrPutBack, TxMsgAccepts, Undisturbed
<1> QED
  BY <1>1, <1>2, <1>3 DEF TxClr

LEMMA ServedInit == Init => Online /\ NoStrandedMessage
BY DEF Init, Online, NoStrandedMessage

LEMMA ServedChip ==
  ASSUME Undisturbed, Served, Chip
  PROVE  Online' /\ NoStrandedMessage'
<1>1. CASE ChipTransmit
  BY <1>1 DEF Served, Online, NoStrandedMessage, ChipTransmit, ReleaseTxBuffer
<1>2. ~ChipInterrupt /\ ~ChipBusOff
  BY DEF Undisturbed, ChipInterrupt, ChipBusOff
<1>3. ~ChipRecover
  BY DEF Served, Online, ChipRecover
<1> QED
  BY <1>1, <1>2, <1>3 DEF Chip

LEMMA ServedIsr ==
  ASSUME Undisturbed, Served, Isr
  PROVE  Online' /\ NoStrandedMessage'
<1>1. CASE IsrReadStatus
  <2>1. ir = {"TI"}
    BY <1>1 DEF Served, Online, IsrReadStatus
  <2>2. GetIntStatus(ir, busOff) = "TX"
    BY <2>1 DEF GetIntStatus
  <2> QED
    BY <1>1, <2>2 DEF Served, Online, NoStrandedMessage, IsrReadStatus
<1>2. ~IsrError
  BY DEF Served, Online, IsrError
<1>3. CASE IsrTx
  BY <1>3 DEF Served, Online, NoStrandedMessage, IsrTx
<1>4. CASE IsrTxClr
  BY <1>4, TxClrServes DEF Served, Online, NoStrandedMessage, IsrTxClr
<1> QED
  BY <1>1, <1>2, <1>3, <1>4 DEF Isr

LEMMA ServedIoctl ==
  ASSUME Undisturbed, Served, Ioctl
  PROVE  Online' /\ NoStrandedMessage'
<1>1. ~Stop /\ ~Start /\ ~ConfigEnter /\ ~ChnEnable
  BY DEF Undisturbed, Stop, Start, ConfigEnter, ChnEnable
<1>2. ~ConfigLeave
  BY DEF Served, Online, ConfigLeave
<1>3. CASE TxAbort
  BY <1>3 DEF Served, Online, NoStrandedMessage, TxAbort, ReleaseTxBuffer
<1>4. CASE Flush
  BY <1>4 DEF Served, Online, NoStrandedMessage, Flush, chipVars
<1> QED
  BY <1>1, <1>2, <1>3, <1>4 DEF Ioctl

(* A writer that is not about to jump-start the controller moves on. *)
LEMMA OtherWritersKeepServing ==
  ASSUME TypeOK, NoStrandedMessage, NEW w \in Writers, NEW p,
         pc[w] \notin {"kick", "locked"}, pc' = [pc EXCEPT ![w] = p],
         UNCHANGED << outputBuf, txReq, ir, isr >>
  PROVE  NoStrandedMessage'
<1>1. \A v \in Writers : pc[v] \in {"kick", "locked"} => pc'[v] = pc[v]
  BY DEF TypeOK
<1> QED
  BY <1>1 DEF NoStrandedMessage

LEMMA ServedWriter ==
  ASSUME Undisturbed, Served, NEW w \in Writers, Writer(w)
  PROVE  Online' /\ NoStrandedMessage'
<1>1. CASE SelectAdd(w)
  BY <1>1, OtherWritersKeepServing DEF Served, Online, SelectAdd, chipVars
<1>2. CASE SelectCheck(w)
  BY <1>2, OtherWritersKeepServing DEF Served, Online, SelectCheck, chipVars
<1>3. CASE SelectReturn(w)
  BY <1>3, OtherWritersKeepServing DEF Served, Online, SelectReturn, chipVars
<1>4. CASE WriteBufFull(w)
  BY <1>4, OtherWritersKeepServing DEF Served, Online, WriteBufFull, chipVars
<1>5. CASE WriteBuf(w)
  <2>1. Online'
    BY <1>5 DEF Served, Online, WriteBuf, chipVars
  <2>2. CASE outputBuf = << >>
    <3>1. pc'[w] = "kick"
      BY <1>5, <2>2 DEF Served, TypeOK, WriteBuf
    <3> QED
      BY <2>1, <3>1 DEF NoStrandedMessage
  <2>3. CASE outputBuf # << >>
    <3>1. \A v \in Writers : pc[v] \in {"kick", "locked"} => pc'[v] = pc[v]
      BY <1>5 DEF Served, TypeOK, WriteBuf
    <3> QED
      BY <1>5, <2>1, <2>3, <3>1 DEF Served, NoStrandedMessage, WriteBuf, chipVars
  <2> QED
    BY <2>2, <2>3
<1>6. CASE KickLock(w)
  <2>1. pc'[w] = "locked"
    BY <1>6 DEF Served, TypeOK, KickLock
  <2> QED
    BY <1>6, <2>1 DEF Served, Online, NoStrandedMessage, KickLock, chipVars
<1>7. CASE Kick(w)
  <2>1. outputBuf' = << >> \/ txReq' # NoMsg
    BY <1>7, TxClrServes DEF Served, Kick
  <2> QED
    BY <1>7, <2>1 DEF Served, Online, NoStrandedMessage, Kick
<1> QED
  BY <1>1, <1>2, <1>3, <1>4, <1>5, <1>6, <1>7 DEF Writer, WriterInCall

(* As long as nothing resets the controller, masks its transmit interrupt or
   raises another interrupt, the ring never holds a message nobody will send:
   for any number of writers racing each other and the interrupt, with aborts
   and flushes in between. *)
THEOREM NeverStranded ==
  ASSUME Undisturbed
  PROVE  Spec => []NoStrandedMessage
<1>1. Init => Online /\ NoStrandedMessage
  BY ServedInit
<1>2. TypeOK /\ Online /\ NoStrandedMessage /\ [Next]_vars
        => Online' /\ NoStrandedMessage'
  <2> SUFFICES ASSUME Served, [Next]_vars
               PROVE  Online' /\ NoStrandedMessage'
    BY DEF Served
  <2>1. CASE UNCHANGED vars
    BY <2>1 DEF Served, Online, NoStrandedMessage, vars
  <2> QED
    BY <2>1, ServedChip, ServedIsr, ServedIoctl, ServedWriter DEF Next
<1> QED
  BY <1>1, <1>2, TypeCorrect, PTL DEF Spec
(***************************************************************************)
(* One writer, whose interrupts are taken at once.                         *)
(***************************************************************************)

(* Two writers may put more than one message into the ring before the jump
   start, and take each other's room; a late interrupt meets a controller
   that the jump start has made busy; an illegal message goes to the end of
   the ring: each of these breaks what follows. *)
OneWriterPrompt ==
  /\ \A v, w \in Writers : v = w
  /\ PromptIrq
  /\ IllegalLen = {}

(* A transmit interrupt that is raised or served finds the controller free
   or the ring empty, and is not raised again while it is served unless the
   ring is empty. *)
NothingBehindBusy ==
  /\ txReq # NoMsg /\ ("TI" \in ir \/ isr \in {"TX", "TXCLR"}) => outputBuf = << >>
  /\ "TI" \in ir /\ isr \in {"TX", "TXCLR"} => outputBuf = << >>

(* The jump start finds only the message it was made for. *)
KickAlone ==
  \A w \in Writers : pc[w] \in {"kick", "locked"} => Len(outputBuf) <= 1

(* A writer that a transmit interrupt woke has room, as soon as the handler
   has sent the next message, and keeps it when select() returned. *)
RoomComes ==
  /\ \A w \in Writers :
        pc[w] \in {"selecting", "pending"} /\ wokenBy[w] = "interrupt"
          => Len(outputBuf) < RingCap \/ isr = "TXCLR"
  /\ \A w \in Writers : pc[w] = "ready" => w \notin waiting
  /\ WokenWriterHasSpace

Paced == NothingBehindBusy /\ KickAlone /\ RoomComes

LEMMA PacedInit == Init => Paced
BY DEF Init, Paced, NothingBehindBusy, KickAlone, RoomComes, WokenWriterHasSpace

(* What TXCLR does then: nothing, send or lose the oldest message, or put the
   only message back where it was. *)
LEMMA TxClrPaced ==
  ASSUME OneWriterPrompt, TypeOK, TxClr,
         txReq # NoMsg => Len(outputBuf) <= 1
  PROVE  \/ UNCHANGED << outputBuf, txReq >>
         \/ /\ outputBuf # << >>
            /\ outputBuf' = Tail(outputBuf)
            /\ txReq = NoMsg
            /\ txReq' = IF rm THEN NoMsg ELSE Head(outputBuf)
<1>1. CASE TxClrEmpty
  BY <1>1 DEF TxClrEmpty
<1>2. CASE TxClrSend
  BY <1>2 DEF TxClrSend, TxMsgAccepts
<1>3. CASE TxClrPutBack
  <2> DEFINE m == Head(outputBuf)
             t == Tail(outputBuf)
  <2>1. /\ outputBuf # << >>
        /\ outputBuf' = Append(t, m)
        /\ UNCHANGED txReq
        /\ txReq # NoMsg
    BY <1>3 DEF TxClrPutBack, TxMsgAccepts, OneWriterPrompt
  <2>2. /\ m \in Msg /\ t \in Seq(Msg)
        /\ Len(t) = Len(outputBuf) - 1
        /\ Len(outputBuf) \in Nat \ {0}
        /\ m = outputBuf[1]
    BY <2>1, HeadTailProperties, EmptySeq DEF TypeOK
  <2> HIDE DEF m, t
  <2>3. Len(outputBuf) = 1 /\ Len(t) = 0
    BY <2>1, <2>2
  <2>4. /\ Append(t, m) \in Seq(Msg)
        /\ Len(Append(t, m)) = 1
        /\ Append(t, m)[1] = m
    BY <2>2, <2>3, AppendProperties
  <2>5. Append(t, m) = outputBuf
    BY <2>2, <2>3, <2>4, SeqEqual DEF TypeOK
  <2> QED
    BY <2>1, <2>5
<1> QED
  BY <1>1, <1>2, <1>3 DEF TxClr

(* TXCLR makes the ring no longer. *)
LEMMA TxClrShortens ==
  ASSUME TypeOK, outputBuf # << >>, outputBuf' = Tail(outputBuf)
  PROVE  /\ Len(outputBuf') = Len(outputBuf) - 1
         /\ Len(outputBuf) \in Nat \ {0}
         /\ Head(outputBuf) \in Msg
BY HeadTailProperties, EmptySeq DEF TypeOK

(* A step that leaves the ring alone, releases the transmit buffer only and
   raises no transmit interrupt. *)
LEMMA PacedRelease ==
  ASSUME Paced, txReq' \in {txReq, NoMsg}, "TI" \in ir' => "TI" \in ir,
         isr' = isr \/ (isr \notin {"TX", "TXCLR"} /\ isr' \notin {"TX", "TXCLR"}),
         UNCHANGED << outputBuf, pc, waiting, wokenBy >>
  PROVE  Paced'
BY DEF Paced, NothingBehindBusy, KickAlone, RoomComes, WokenWriterHasSpace

LEMMA PacedChip ==
  ASSUME Paced, Chip
  PROVE  Paced'
<1>1. CASE ChipTransmit
  BY <1>1
  DEF ChipTransmit, ReleaseTxBuffer, Paced, NothingBehindBusy, KickAlone, RoomComes, WokenWriterHasSpace
<1>2. CASE ChipInterrupt
  BY <1>2, PacedRelease DEF ChipInterrupt
<1>3. CASE ChipBusOff
  BY <1>3, PacedRelease DEF ChipBusOff, EnterReset
<1>4. CASE ChipRecover
  BY <1>4, PacedRelease DEF ChipRecover
<1> QED
  BY <1>1, <1>2, <1>3, <1>4 DEF Chip

LEMMA PacedIsr ==
  ASSUME OneWriterPrompt, TypeOK, Paced, Isr
  PROVE  Paced'
<1>1. CASE IsrReadStatus
  <2>1. isr' = "TX" => "TI" \in ir
    BY <1>1 DEF IsrReadStatus, GetIntStatus
  <2>2. isr' # "TXCLR"
    BY <1>1 DEF IsrReadStatus, GetIntStatus
  <2> QED
    BY <1>1, <2>1, <2>2
    DEF IsrReadStatus, Paced, NothingBehindBusy, KickAlone, RoomComes, WokenWriterHasSpace
<1>2. CASE IsrError
  BY <1>2, PacedRelease DEF IsrError
<1>3. CASE IsrTx
  BY <1>3 DEF IsrTx, Paced, NothingBehindBusy, KickAlone, RoomComes, WokenWriterHasSpace
<1>4. CASE IsrTxClr
  <2>1. /\ isr = "TXCLR" /\ isr' = "idle"
        /\ TxClr
        /\ UNCHANGED << ir, pc, waiting, wokenBy >>
    BY <1>4 DEF IsrTxClr
  <2>2. Len(<< >>) = 0 /\ 0 <= 1 /\ 0 < RingCap
    BY EmptySeq, TxAssumption
  <2>3. txReq # NoMsg => outputBuf = << >>
    BY <2>1 DEF Paced, NothingBehindBusy
  <2>4. CASE UNCHANGED << outputBuf, txReq >>
    <3>1. outputBuf = << >>
      BY <2>1, <2>3, <2>4, TxClrShortens
      DEF TxClr, TxClrEmpty, TxClrSend, TxClrPutBack, TxMsgAccepts, OneWriterPrompt
    <3> QED
      BY <2>1, <2>2, <2>4, <3>1 DEF Paced, NothingBehindBusy, KickAlone, RoomComes, WokenWriterHasSpace
  <2>5. CASE outputBuf # << >> /\ outputBuf' = Tail(outputBuf)
    <3>1. Len(outputBuf') = Len(outputBuf) - 1 /\ Len(outputBuf) \in Nat \ {0}
      BY <2>5, TxClrShortens
    <3>2. Len(outputBuf') < RingCap
      BY <3>1, TxAssumption DEF TypeOK
    <3>3. Len(outputBuf) <= 1 => Len(outputBuf') <= 1
      BY <3>1
    <3>4. "TI" \notin ir'
      BY <2>1, <2>5 DEF Paced, NothingBehindBusy
    <3> QED
      BY <2>1, <3>2, <3>3, <3>4 DEF Paced, NothingBehindBusy, KickAlone, RoomComes, WokenWriterHasSpace
  <2> QED
    BY <2>1, <2>2, <2>3, <2>4, <2>5, TxClrPaced
<1> QED
  BY <1>1, <1>2, <1>3, <1>4 DEF Isr

LEMMA PacedIoctl ==
  ASSUME OneWriterPrompt, Paced, Ioctl
  PROVE  Paced'
<1>1. CASE Stop
  BY <1>1, PacedRelease DEF Stop, EnterReset, selectVars
<1>2. CASE Start
  BY <1>2, PacedRelease DEF Start, selectVars
<1>3. CASE ConfigEnter
  BY <1>3, PacedRelease DEF ConfigEnter, EnterReset, selectVars
<1>4. CASE ConfigLeave
  BY <1>4, PacedRelease DEF ConfigLeave, selectVars
<1>5. CASE TxAbort
  BY <1>5
  DEF TxAbort, ReleaseTxBuffer, TaskRuns, selectVars, Paced, NothingBehindBusy,
      KickAlone, RoomComes, WokenWriterHasSpace
<1>6. CASE Flush
  <2>1. Len(<< >>) = 0 /\ 0 <= 1 /\ 0 < RingCap
    BY EmptySeq, TxAssumption
  <2> QED
    BY <1>6, <2>1
    DEF Flush, selectVars, chipVars, Paced, NothingBehindBusy, KickAlone, RoomComes, WokenWriterHasSpace
<1>7. CASE ChnEnable
  BY <1>7, PacedRelease DEF ChnEnable, selectVars
<1> QED
  BY <1>1, <1>2, <1>3, <1>4, <1>5, <1>6, <1>7 DEF Ioctl

LEMMA PacedWriter ==
  ASSUME OneWriterPrompt, TypeOK, Paced, NEW w \in Writers, Writer(w)
  PROVE  Paced'
<1>1. \A v \in Writers : v = w
  BY DEF OneWriterPrompt
<1>2. CASE SelectAdd(w) \/ SelectCheck(w) \/ SelectReturn(w) \/ WriteBufFull(w)
           \/ KickLock(w)
  <2>1. UNCHANGED << outputBuf, txReq, ir, isr >>
    BY <1>2
    DEF SelectAdd, SelectCheck, SelectReturn, WriteBufFull, KickLock, chipVars
  <2>2. NothingBehindBusy'
    BY <2>1 DEF Paced, NothingBehindBusy
  <2>3. KickAlone'
    BY <1>1, <1>2, <2>1
    DEF TypeOK, Paced, KickAlone, SelectAdd, SelectCheck, SelectReturn,
        WriteBufFull, KickLock
  <2>4. RoomComes'
    <3> USE DEF TypeOK, Paced, RoomComes, WokenWriterHasSpace
    <3>1. CASE SelectAdd(w)
      BY <1>1, <2>1, <3>1 DEF SelectAdd
    <3>2. CASE SelectCheck(w)
      BY <1>1, <2>1, <3>2 DEF SelectCheck
    <3>3. CASE SelectReturn(w)
      BY <1>1, <2>1, <3>3 DEF SelectReturn, TaskRuns
    <3>4. CASE WriteBufFull(w) \/ KickLock(w)
      BY <1>1, <2>1, <3>4 DEF WriteBufFull, KickLock, selectVars
    <3> QED
      BY <1>2, <3>1, <3>2, <3>3, <3>4
  <2> QED
    BY <2>2, <2>3, <2>4 DEF Paced
<1>3. CASE WriteBuf(w)
  <2> DEFINE m == [w |-> w, n |-> accepted[w] + 1]
  <2>1. /\ ir = {} /\ isr = "idle" /\ UNCHANGED << ir, isr, txReq, waiting >>
        /\ outputBuf' = Append(outputBuf, m)
        /\ pc' = [pc EXCEPT ![w] = IF outputBuf = << >> THEN "kick" ELSE "idle"]
    BY <1>3 DEF WriteBuf, TaskRuns, OneWriterPrompt, chipVars, selectVars
  <2>2. m \in Msg
    BY <1>3, TxAssumption DEF TypeOK, WriteBuf, Msg
  <2> HIDE DEF m
  <2>3. Len(outputBuf') = Len(outputBuf) + 1
    BY <2>1, <2>2, AppendProperties DEF TypeOK
  <2>4. outputBuf = << >> => Len(outputBuf') <= 1
    BY <2>3, EmptySeq
  <2>5. NothingBehindBusy'
    BY <2>1 DEF NothingBehindBusy
  <2>6. KickAlone' /\ RoomComes'
    BY <1>1, <2>1, <2>4 DEF TypeOK, KickAlone, RoomComes, WokenWriterHasSpace
  <2> QED
    BY <2>5, <2>6 DEF Paced
<1>4. CASE Kick(w)
  <2>1. /\ pc[w] = "locked" /\ pc' = [pc EXCEPT ![w] = "idle"]
        /\ TxClr
        /\ UNCHANGED << ir, isr, waiting, wokenBy >>
    BY <1>4 DEF Kick, selectVars
  <2>2. pc'[w] = "idle" /\ Len(outputBuf) <= 1
    BY <2>1 DEF TypeOK, Paced, KickAlone
  <2>3. KickAlone' /\ RoomComes'
    BY <1>1, <2>2 DEF KickAlone, RoomComes, WokenWriterHasSpace
  <2>4. NothingBehindBusy'
    <3>1. CASE UNCHANGED << outputBuf, txReq >>
      BY <2>1, <3>1 DEF Paced, NothingBehindBusy
    <3>2. CASE outputBuf # << >> /\ outputBuf' = Tail(outputBuf)
      <4>1. /\ Len(outputBuf') = Len(outputBuf) - 1
            /\ Len(outputBuf) \in Nat \ {0}
            /\ outputBuf' \in Seq(Msg)
        BY <3>2, TxClrShortens, HeadTailProperties DEF TypeOK
      <4>2. outputBuf' = << >>
        BY <2>2, <4>1, EmptySeq
      <4> QED
        BY <4>2 DEF NothingBehindBusy
    <3> QED
      BY <2>1, <2>2, <3>1, <3>2, TxClrPaced
  <2> QED
    BY <2>3, <2>4 DEF Paced
<1> QED
  BY <1>2, <1>3, <1>4 DEF Writer, WriterInCall

LEMMA PacedNext ==
  ASSUME OneWriterPrompt, TypeOK, Paced, [Next]_vars
  PROVE  Paced'
<1>1. CASE UNCHANGED vars
  BY <1>1, PacedRelease DEF vars
<1> QED
  BY <1>1, PacedChip, PacedIsr, PacedIoctl, PacedWriter DEF Next

(* A select() that returned because of a transmit interrupt means room: also
   after resets, aborts, flushes and interrupts that hide the transmit bit. *)
THEOREM WokenWriterWrites ==
  ASSUME OneWriterPrompt
  PROVE  Spec => []WokenWriterHasSpace
<1>1. Init => Paced
  BY PacedInit
<1>2. TypeOK /\ Paced /\ [Next]_vars => Paced'
  BY PacedNext
<1>3. Paced => WokenWriterHasSpace
  BY DEF Paced, RoomComes
<1> QED
  BY <1>1, <1>2, <1>3, TypeCorrect, PTL DEF Spec

(***************************************************************************)
(* For that writer the transmit path is a lossy queue of messages.         *)
(***************************************************************************)

InBuffer == IF txReq = NoMsg THEN << >> ELSE << txReq >>

LEMMA MessagesUnderway ==
  ASSUME TypeOK
  PROVE  /\ InBuffer \in Seq(Msg)
         /\ outputBuf \in Seq(Msg)
         /\ Underway = InBuffer \o outputBuf
         /\ << >> \in Seq(Msg)
<1>1. << >> \in Seq(Msg)
  BY EmptySeq
<1>2. InBuffer \in Seq(Msg)
  BY <1>1, OneItem DEF TypeOK, InBuffer
<1> QED
  BY <1>1, <1>2 DEF TypeOK, Underway, InBuffer

(* What is dropped from the middle of the queue is lost. *)
LEMMA MiddleLost ==
  ASSUME NEW a \in Seq(Msg), NEW b \in Seq(Msg), NEW c \in Seq(Msg),
         Underway = (a \o b) \o c, Underway' = a \o c, UNCHANGED sent
  PROVE  Transmitted!Next
<1>1. RunLost(Underway, Underway')
  BY DropMiddle
<1>2. Transmitted!Lose
  BY <1>1 DEF RunLost, Transmitted!Lose
<1> QED
  BY <1>2 DEF Transmitted!Next

LEMMA QueueUnchanged ==
  ASSUME UNCHANGED << txReq, outputBuf, sent >>
  PROVE  UNCHANGED << Underway, sent >>
BY DEF Underway

(* What goes out on the bus is the oldest of the queue. *)
LEMMA TransmitGets ==
  ASSUME TypeOK, ChipTransmit
  PROVE  Transmitted!Next
<1>1. /\ txReq \in Msg
      /\ txReq' = NoMsg
      /\ sent' = Append(sent, txReq)
      /\ UNCHANGED outputBuf
  BY DEF TypeOK, ChipTransmit, ReleaseTxBuffer
<1> DEFINE q == << txReq >>
<1>2. q \in Seq(Msg) /\ Len(q) = 1 /\ q[1] = txReq
  BY <1>1, OneItem
<1>3. q # << >> /\ Head(q) = txReq /\ Tail(q) = << >>
  OBVIOUS
<1>4. Underway = q \o outputBuf
  BY <1>1 DEF Underway, ChipTransmit
<1>5. Underway' = << >> \o outputBuf
  BY <1>1 DEF Underway
<1> HIDE DEF q
<1>6. /\ Underway # << >>
      /\ Head(Underway) = txReq
      /\ Tail(Underway) = << >> \o outputBuf
  <2>1. outputBuf \in Seq(Msg)
    BY DEF TypeOK
  <2>2. /\ q \o outputBuf # << >>
        /\ Head(q \o outputBuf) = Head(q)
        /\ Tail(q \o outputBuf) = Tail(q) \o outputBuf
    BY <1>2, <1>3, <2>1, HeadOfFirst
  <2> QED
    BY <1>3, <1>4, <2>2
<1> QED
  BY <1>1, <1>5, <1>6 DEF Transmitted!Next, Transmitted!Get

(* A reset or an abort loses what is in the transmit buffer. *)
LEMMA BufferLost ==
  ASSUME TypeOK, txReq' = NoMsg, UNCHANGED << outputBuf, sent >>
  PROVE  Transmitted!Next
<1>1. Underway = (<< >> \o InBuffer) \o outputBuf
  BY MessagesUnderway, ConcatEmptySeq
<1>2. Underway' = << >> \o outputBuf
  BY DEF Underway
<1> QED
  BY <1>1, <1>2, MessagesUnderway, MiddleLost

(* A flush loses what is in the ring. *)
LEMMA RingLost ==
  ASSUME TypeOK, outputBuf' = << >>, UNCHANGED << txReq, sent >>
  PROVE  Transmitted!Next
<1>1. Underway = (InBuffer \o outputBuf) \o << >>
  BY MessagesUnderway, ConcatEmptySeq, ConcatProperties
<1>2. Underway' = InBuffer \o << >>
  BY DEF Underway, InBuffer
<1> QED
  BY <1>1, <1>2, MessagesUnderway, MiddleLost

(* write() puts its message at the end. *)
LEMMA WritePuts ==
  ASSUME TypeOK, NEW w \in Writers, WriteBuf(w)
  PROVE  Transmitted!Next
<1> DEFINE m == [w |-> w, n |-> accepted[w] + 1]
<1>1. m \in Msg
  BY TxAssumption DEF TypeOK, WriteBuf, Msg
<1>2. outputBuf' = Append(outputBuf, m) /\ UNCHANGED << txReq, sent >>
  BY DEF WriteBuf, chipVars
<1> HIDE DEF m
<1>3. Underway' = InBuffer \o Append(outputBuf, m)
  BY <1>2 DEF Underway, InBuffer
<1>4. Underway' = Append(Underway, m)
  BY <1>1, <1>3, MessagesUnderway, AppendToLast
<1> QED
  BY <1>1, <1>2, <1>4 DEF Transmitted!Next, Transmitted!Put

(* TXCLR moves the oldest message of the ring to the transmit buffer, where it
   stays the oldest, or loses it to a controller in reset mode. *)
LEMMA TxClrKeepsOrLoses ==
  ASSUME OneWriterPrompt, TypeOK, TxClr, UNCHANGED sent,
         txReq # NoMsg => Len(outputBuf) <= 1
  PROVE  [Transmitted!Next]_<< Underway, sent >>
<1>1. CASE UNCHANGED << outputBuf, txReq >>
  BY <1>1, QueueUnchanged
<1>2. CASE /\ outputBuf # << >>
           /\ outputBuf' = Tail(outputBuf)
           /\ txReq = NoMsg
           /\ txReq' = IF rm THEN NoMsg ELSE Head(outputBuf)
  <2> DEFINE h == << Head(outputBuf) >>
             t == Tail(outputBuf)
  <2>1. /\ Head(outputBuf) \in Msg
        /\ h \in Seq(Msg)
        /\ t \in Seq(Msg)
        /\ h \o t = outputBuf
    BY <1>2, MessagesUnderway, HeadTailProperties, OneItem, HeadThenTail
  <2>2. Underway = << >> \o outputBuf
    BY <1>2 DEF Underway
  <2>3. CASE rm
    <3>1. Underway' = << >> \o t
      BY <1>2, <2>3 DEF Underway
    <3> HIDE DEF h, t
    <3>2. Underway = (<< >> \o h) \o t
      BY <2>1, <2>2, MessagesUnderway, ConcatEmptySeq
    <3> QED
      BY <2>1, <3>1, <3>2, MessagesUnderway, MiddleLost
  <2>4. CASE ~rm
    <3>1. txReq' = Head(outputBuf) /\ txReq' # NoMsg
      BY <1>2, <2>1, <2>4, TxAssumption
    <3>2. Underway' = h \o t
      BY <1>2, <3>1 DEF Underway
    <3> HIDE DEF h, t
    <3>3. Underway' = Underway
      BY <2>1, <2>2, <3>2, MessagesUnderway, ConcatEmptySeq
    <3> QED
      BY <3>3
  <2> QED
    BY <2>3, <2>4
<1> QED
  BY <1>1, <1>2, TxClrPaced

LEMMA TransmittedStep ==
  ASSUME OneWriterPrompt, TypeOK, Paced, [Next]_vars
  PROVE  [Transmitted!Next]_<< Underway, sent >>
<1>1. CASE Chip
  <2>1. CASE ChipBusOff
    BY <2>1, BufferLost DEF ChipBusOff, EnterReset
  <2> QED
    BY <1>1, <2>1, TransmitGets, QueueUnchanged
    DEF Chip, ChipInterrupt, ChipRecover
<1>2. CASE Isr
  <2>1. CASE IsrTxClr
    <3>1. txReq # NoMsg => outputBuf = << >>
      BY <2>1 DEF IsrTxClr, Paced, NothingBehindBusy
    <3>2. txReq # NoMsg => Len(outputBuf) <= 1
      BY <3>1, EmptySeq
    <3> QED
      BY <2>1, <3>2, TxClrKeepsOrLoses DEF IsrTxClr
  <2> QED
    BY <1>2, <2>1, QueueUnchanged DEF Isr, IsrReadStatus, IsrError, IsrTx
<1>3. CASE Ioctl
  <2>1. CASE Stop
    BY <2>1, BufferLost DEF Stop, EnterReset
  <2>2. CASE ConfigEnter
    BY <2>2, BufferLost, QueueUnchanged DEF ConfigEnter, EnterReset
  <2>3. CASE TxAbort
    BY <2>3, BufferLost DEF TxAbort, ReleaseTxBuffer
  <2>4. CASE Flush
    BY <2>4, RingLost DEF Flush, chipVars
  <2>5. CASE Start \/ ConfigLeave \/ ChnEnable
    BY <2>5, QueueUnchanged DEF Start, ConfigLeave, ChnEnable
  <2> QED
    BY <1>3, <2>1, <2>2, <2>3, <2>4, <2>5 DEF Ioctl
<1>4. ASSUME NEW w \in Writers, Writer(w)
      PROVE  [Transmitted!Next]_<< Underway, sent >>
  <2>1. CASE SelectAdd(w) \/ SelectCheck(w) \/ SelectReturn(w) \/ WriteBufFull(w)
             \/ KickLock(w)
    BY <2>1, QueueUnchanged
    DEF SelectAdd, SelectCheck, SelectReturn, WriteBufFull, KickLock, chipVars
  <2>2. CASE Kick(w)
    <3>1. Len(outputBuf) <= 1
      BY <2>2 DEF Kick, Paced, KickAlone
    <3> QED
      BY <2>2, <3>1, TxClrKeepsOrLoses DEF Kick
  <2> QED
    BY <1>4, <2>1, <2>2, WritePuts DEF Writer, WriterInCall
<1>5. CASE UNCHANGED vars
  BY <1>5, QueueUnchanged DEF vars
<1> QED
  BY <1>1, <1>2, <1>3, <1>4, <1>5 DEF Next

LEMMA TransmittedInit == Init => Transmitted!Init
<1> SUFFICES ASSUME Init
             PROVE  Transmitted!Init
  OBVIOUS
<1>1. << >> \o << >> = << >>
  BY EmptySeq, ConcatEmptySeq
<1> QED
  BY <1>1 DEF Init, Underway, Transmitted!Init

(* What one writer writes leaves on the bus in order and each message at most
   once, whatever resets, aborts, flushes and bus errors drop on the way:
   transmit buffer and ring together implement a queue that may lose a run of
   messages and do nothing else. *)
THEOREM TransmitsInOrder ==
  ASSUME OneWriterPrompt
  PROVE  Spec => ImplementsLossyFifo
<1>1. Init => Paced /\ Transmitted!Init
  BY PacedInit, TransmittedInit
<1>2. TypeOK /\ Paced /\ [Next]_vars => Paced'
  BY PacedNext
<1>3. TypeOK /\ Paced /\ [Next]_vars => [Transmitted!Next]_<< Underway, sent >>
  BY TransmittedStep
<1> QED
  BY <1>1, <1>2, <1>3, TypeCorrect, PTL
  DEF Spec, ImplementsLossyFifo, Transmitted!Spec
=============================================================================
