------------------------ MODULE CanControllerProofs ------------------------
(***************************************************************************)
(* What a command disturbs on its way through reset mode it restores: for  *)
(* any programs of clients, identifiers and masks.                         *)
(***************************************************************************)
EXTENDS CanController, TLAPS

ModBits == {"RM", "AFM", "SM"}
IerBits == {"RIE", "TIE", "ERR"}
Sectioned == {"filter", "readfilter", "timing"}

(* What StatePreserved says of a value of MOD. *)
ModeIsRight(m) ==
  /\ (online /\ ~fellOff) => "RM" \notin m
  /\ ~online => "RM" \in m

(* The command under way and the step it is at. *)
CmdOK ==
  /\ cmd = [op |-> cmd.op, at |-> cmd.at, val |-> cmd.val, regVal |-> cmd.regVal,
            arg |-> cmd.arg]
  /\ \/ cmd.op = None /\ cmd.at = None
     \/ cmd.op = "rxid" /\ cmd.at \in {"enter", "write", "leave", "irq"}
     \/ cmd.op \in Sectioned /\ cmd.at \in {"enter", "write", "leave", "spin", "delay"}
     \/ cmd.op = "start" /\ cmd.at \in {"spin", "delay", "frame", "clear"}
     \/ cmd.op = "tx" /\ cmd.at \in {"info", "ident", "data", "request"}
  /\ cmd.val \subseteq ModBits /\ cmd.regVal \subseteq IerBits
  /\ cmd.op \in {"rxid", "filter"} => cmd.arg \in Id
  /\ cmd.op = "timing" => cmd.arg \in {"default", "fast"}
  /\ ~isOpen => cmd.op = None

(* Between entering reset mode and leaving it MOD is remembered in val; WriteID
   remembers IER in regVal as long as the receive interrupt is off. *)
Remembered ==
  /\ btr = timing
  /\ IF cmd.op = "rxid" THEN cmd.regVal = wantIer /\ ier = wantIer \ {"RIE"}
                        ELSE ier = wantIer
  /\ IF cmd.at \in {"write", "leave"} THEN "RM" \in mod /\ ModeIsRight(cmd.val)
                                      ELSE ModeIsRight(mod)

IInv == TypeOK /\ CmdOK /\ Remembered

USE DEF None, ModBits, IerBits, Sectioned

LEMMA InitOK == Init => IInv
BY ControllerAssumption DEF Init, IInv, TypeOK, CmdOK, Remembered, ModeIsRight, Idle, Ones

LEMMA ChipOK == ASSUME IInv, Chip PROVE IInv'
<1> USE DEF IInv, TypeOK, CmdOK, Remembered, ModeIsRight, config, filter, tx, wants
<1>1. CASE ChipTransmit
  BY <1>1, ControllerAssumption DEF ChipTransmit
<1>2. CASE ChipBusOff
  BY <1>2, ControllerAssumption DEF ChipBusOff
<1>3. CASE ChipWakes
  BY <1>3, ControllerAssumption DEF ChipWakes
<1> QED
  BY <1>1, <1>2, <1>3 DEF Chip

LEMMA CompositionsOK == ASSUME IInv, Compositions PROVE IInv'
<1> USE DEF IInv, TypeOK, CmdOK, Remembered, ModeIsRight, config, filter, tx, wants
<1>1. CASE TxMsg
  <2>1. acr' \in {acr, Junk} /\ amr' \in {amr, Junk} /\ stale' = {"id", "data"} /\ tbs' \in BOOLEAN
    BY <1>1 DEF TxMsg
  <2>2. UNCHANGED << program, isOpen, cmd, timing, btr, mod, ier, wantIer, online, fellOff >>
    BY <1>1 DEF TxMsg
  <2> QED
    BY <2>1, <2>2 DEF Junk
<1>2. CASE WriteID
  BY <1>2, ControllerAssumption DEF WriteID, Free, Compose
<1>3. CASE WriteData
  BY <1>3, ControllerAssumption DEF WriteData, Free, Compose
<1>4. CASE SetRTR
  BY <1>4, ControllerAssumption DEF SetRTR, Free, Compose
<1>5. CASE Tx
  BY <1>5, ControllerAssumption DEF Tx, Free, Idle
<1>6. CASE TxInfo
  BY <1>6, ControllerAssumption DEF TxInfo, TxStep, WriteTxBuf, Junk
<1>7. CASE TxIdent
  BY <1>7, ControllerAssumption DEF TxIdent, TxStep, WriteTxBuf, Junk
<1>8. CASE TxData
  BY <1>8, ControllerAssumption DEF TxData, TxStep, WriteTxBuf, Junk
<1>9. CASE TxRequest
  BY <1>9, ControllerAssumption DEF TxRequest, Idle
<1> QED
  BY <1>1, <1>2, <1>3, <1>4, <1>5, <1>6, <1>7, <1>8, <1>9 DEF Compositions

LEMMA SectionsOK == ASSUME IInv, Sections PROVE IInv'
<1> USE DEF IInv, TypeOK, CmdOK, Remembered, ModeIsRight, config, filter, tx, wants
<1>1. CASE RxIdBegin
  BY <1>1, ControllerAssumption DEF RxIdBegin, Free, Idle
<1>2. CASE EnterReset
  BY <1>2, ControllerAssumption DEF EnterReset, WriteMod
<1>3. CASE RxIdWrite
  BY <1>3, ControllerAssumption DEF RxIdWrite, WriteFilter, Goto, Id
<1>4. CASE RxIdLeave
  BY <1>4, ControllerAssumption DEF RxIdLeave, WriteMod, Goto, Idle
<1>5. CASE RxIdIrq
  BY <1>5, ControllerAssumption DEF RxIdIrq, Idle
<1>6. CASE SectionBegin
  BY <1>6, ControllerAssumption DEF SectionBegin, Free, Idle, InRange
<1>7. CASE FilterWrite
  BY <1>7, ControllerAssumption DEF FilterWrite, WriteFilter, Goto, Id
<1>8. CASE FilterRead
  BY <1>8, ControllerAssumption DEF FilterRead, Goto
<1>9. CASE TimingWrite
  BY <1>9, ControllerAssumption DEF TimingWrite, WriteBtr, Goto
<1>10. CASE LeaveReset
  BY <1>10, ControllerAssumption DEF LeaveReset, WriteMod, Goto, Idle
<1>11. CASE Spin
  BY <1>11, ControllerAssumption DEF Spin, Goto
<1>12. CASE Delay
  BY <1>12, ControllerAssumption DEF Delay, Goto, Idle
<1> QED
  BY <1>1, <1>2, <1>3, <1>4, <1>5, <1>6, <1>7, <1>8, <1>9, <1>10, <1>11, <1>12 DEF Sections

LEMMA ModesOK == ASSUME IInv, Modes PROVE IInv'
<1> USE DEF IInv, TypeOK, CmdOK, Remembered, ModeIsRight, config, filter, tx, wants
<1>1. CASE Start
  BY <1>1, ControllerAssumption DEF Start, Free, WriteMod, Idle
<1>2. CASE StartFrame
  BY <1>2, ControllerAssumption DEF StartFrame, Goto, Junk
<1>3. CASE StartClear
  BY <1>3, ControllerAssumption DEF StartClear, Idle
<1>4. CASE Stop
  BY <1>4, ControllerAssumption DEF Stop, Free, WriteMod
<1>5. CASE Sleep
  BY <1>5, ControllerAssumption DEF Sleep, Free, WriteMod
<1>6. CASE WakeUp
  BY <1>6, ControllerAssumption DEF WakeUp, Free, WriteMod
<1>7. CASE TxAbort
  BY <1>7, ControllerAssumption DEF TxAbort, Free
<1>8. CASE SwitchChannel
  BY <1>8, ControllerAssumption DEF SwitchChannel, Free
<1>9. CASE Close
  <2>1. cmd.op = None /\ cmd.at = None /\ online' = FALSE /\ ier' = {} /\ wantIer' = {} /\ isOpen' = FALSE
    BY <1>9 DEF Close, Free
  <2>2. "RM" \in mod' /\ mod' \subseteq ModBits /\ tbs' \in BOOLEAN
    BY <1>9 DEF Close, WriteMod
  <2>3. UNCHANGED << program, cmd, timing, btr, acr, amr, stale, fellOff >>
    BY <1>9 DEF Close
  <2> QED
    BY <2>1, <2>2, <2>3
<1>10. CASE Open
  BY <1>10, ControllerAssumption DEF Open, Ones, Free
<1> QED
  BY <1>1, <1>2, <1>3, <1>4, <1>5, <1>6, <1>7, <1>8, <1>9, <1>10 DEF Modes

LEMMA StepOK == IInv /\ [Next]_vars => IInv'
<1> SUFFICES ASSUME IInv, [Next]_vars PROVE IInv'
  OBVIOUS
<1>1. CASE UNCHANGED vars
  BY <1>1 DEF IInv, TypeOK, CmdOK, Remembered, ModeIsRight, vars, config, filter, tx, wants
<1>2. CASE Next
  BY <1>2, ChipOK, CompositionsOK, SectionsOK, ModesOK DEF Next
<1> QED
  BY <1>1, <1>2

(* The mode, the bit timing and the interrupts are those asked for whenever no
   command is under way: SJA1000_SetBitTiming, SetGlobalRxFilter, WriteID and
   their like leave behind what they found, for any clients. *)
THEOREM CommandsRestoreAll == Spec => []CommandsRestore
<1>1. IInv => CommandsRestore
  BY DEF IInv, CommandsRestore, CmdOK, Remembered, ModeIsRight, StatePreserved,
         TimingSurvives, InterruptsAsAsked
<1> QED
  BY <1>1, InitOK, StepOK, PTL DEF Spec

(***************************************************************************)
(* The acceptance filter.                                                  *)
(***************************************************************************)

(* As long as the controller was not halted it has one filter, and each of
   WriteID and SetGlobalRxFilter left its half of it. *)
FilterInv ==
  /\ wantId \in Id \cup {NoId} /\ wantMask \in Id \cup {NoId}
  /\ (isOpen /\ ~halted /\ ~strayed) =>
       /\ "AFM" \in mod
       /\ cmd.at \in {"write", "leave"} => "AFM" \in cmd.val
       /\ wantId # NoId =>
            acr.lo = wantId.lo /\ (wantId.ext => acr.hi = wantId.hi)
       /\ wantMask # NoId =>
            /\ amr.lo = 1 - wantMask.lo
            /\ amr.hi = IF wantMask.ext THEN 1 - wantMask.hi ELSE 1

LEMMA InitFilter == Init => FilterInv
BY DEF Init, FilterInv, Idle, NoId

LEMMA ChipFilterInv == ASSUME IInv, FilterInv, Chip PROVE FilterInv'
<1> USE DEF FilterInv, IInv, CmdOK, Remembered, config, filter, tx, wants
<1>1. CASE ChipTransmit
  BY <1>1 DEF ChipTransmit
<1>2. CASE ChipBusOff
  BY <1>2 DEF ChipBusOff
<1>3. CASE ChipWakes
  BY <1>3 DEF ChipWakes
<1> QED
  BY <1>1, <1>2, <1>3 DEF Chip

LEMMA CompositionsFilterInv == ASSUME IInv, FilterInv, Compositions PROVE FilterInv'
<1> USE DEF FilterInv, IInv, CmdOK, Remembered, config, filter, tx, wants
<1>1. CASE TxMsg
  BY <1>1 DEF TxMsg, Junk
<1>2. CASE WriteID
  BY <1>2 DEF WriteID, Free, Compose
<1>3. CASE WriteData
  BY <1>3 DEF WriteData, Free, Compose
<1>4. CASE SetRTR
  BY <1>4 DEF SetRTR, Free, Compose
<1>5. CASE Tx
  BY <1>5 DEF Tx, Free, Idle
<1>6. CASE TxInfo
  BY <1>6 DEF TxInfo, TxStep, WriteTxBuf, Junk
<1>7. CASE TxIdent
  BY <1>7 DEF TxIdent, TxStep, WriteTxBuf, Junk
<1>8. CASE TxData
  BY <1>8 DEF TxData, TxStep, WriteTxBuf, Junk
<1>9. CASE TxRequest
  BY <1>9 DEF TxRequest, Idle
<1> QED
  BY <1>1, <1>2, <1>3, <1>4, <1>5, <1>6, <1>7, <1>8, <1>9 DEF Compositions

LEMMA SectionsFilterInv == ASSUME IInv, FilterInv, Sections PROVE FilterInv'
<1> USE DEF FilterInv, IInv, CmdOK, Remembered, config, filter, tx, wants
<1>1. CASE RxIdBegin
  BY <1>1 DEF RxIdBegin, Free, Idle
<1>2. CASE EnterReset
  BY <1>2 DEF EnterReset, WriteMod
<1>3. CASE RxIdWrite
  BY <1>3 DEF RxIdWrite, WriteFilter, Goto
<1>4. CASE RxIdLeave
  BY <1>4 DEF RxIdLeave, WriteMod, Goto, Idle
<1>5. CASE RxIdIrq
  BY <1>5 DEF RxIdIrq, Idle
<1>6. CASE SectionBegin
  BY <1>6 DEF SectionBegin, Free, Idle, InRange
<1>7. CASE FilterWrite
  BY <1>7 DEF FilterWrite, WriteFilter, Goto
<1>8. CASE FilterRead
  BY <1>8 DEF FilterRead, Goto
<1>9. CASE TimingWrite
  BY <1>9 DEF TimingWrite, WriteBtr, Goto
<1>10. CASE LeaveReset
  BY <1>10 DEF LeaveReset, WriteMod, Goto, Idle
<1>11. CASE Spin
  BY <1>11 DEF Spin, Goto
<1>12. CASE Delay
  BY <1>12 DEF Delay, Goto, Idle
<1> QED
  BY <1>1, <1>2, <1>3, <1>4, <1>5, <1>6, <1>7, <1>8, <1>9, <1>10, <1>11, <1>12 DEF Sections

LEMMA ModesFilterInv == ASSUME IInv, FilterInv, Modes PROVE FilterInv'
<1> USE DEF FilterInv, IInv, CmdOK, Remembered, config, filter, tx, wants
<1>1. CASE Start
  BY <1>1 DEF Start, Free, WriteMod, Idle
<1>2. CASE StartFrame
  BY <1>2 DEF StartFrame, Goto, Junk
<1>3. CASE StartClear
  BY <1>3 DEF StartClear, Idle
<1>4. CASE Stop
  BY <1>4 DEF Stop, Free, WriteMod
<1>5. CASE Sleep
  BY <1>5 DEF Sleep, Free, WriteMod
<1>6. CASE WakeUp
  BY <1>6 DEF WakeUp, Free, WriteMod
<1>7. CASE TxAbort
  BY <1>7 DEF TxAbort, Free
<1>8. CASE SwitchChannel
  BY <1>8 DEF SwitchChannel, Free
<1>9. CASE Close
  BY <1>9 DEF Close, Free, WriteMod
<1>10. CASE Open
  BY <1>10 DEF Open, Ones, Free
<1> QED
  BY <1>1, <1>2, <1>3, <1>4, <1>5, <1>6, <1>7, <1>8, <1>9, <1>10 DEF Modes

LEMMA NextFilterInv == IInv /\ FilterInv /\ [Next]_vars => FilterInv'
<1> SUFFICES ASSUME IInv, FilterInv, [Next]_vars PROVE FilterInv'
  OBVIOUS
<1>1. CASE UNCHANGED vars
  BY <1>1 DEF FilterInv, vars, IInv, CmdOK, Remembered, config, filter, tx, wants
<1>2. CASE Next
  BY <1>2, ChipFilterInv, CompositionsFilterInv, SectionsFilterInv, ModesFilterInv DEF Next
<1> QED
  BY <1>1, <1>2

(* What passes the filter is what the client asked for, for any identifiers and
   masks: neither the passages through reset mode nor sleep, bus off and
   reopening change the acceptance that SJA1000_WriteID and
   SJA1000_SetGlobalRxFilter set up together. *)
THEOREM FilterHolds == Spec => []FilterAsAsked
<1>1. IInv /\ FilterInv => FilterAsAsked
  BY DEF FilterInv, FilterAsAsked, Accepts, Match, Id, NoId
<1> QED
  BY <1>1, InitOK, StepOK, InitFilter, NextFilterInv, PTL DEF Spec

(***************************************************************************)
(* The frame on its way.                                                   *)
(***************************************************************************)

(* Outside the fields another message went through, csData is the client's
   draft; while Tx runs undisturbed the transmit buffer follows csData. *)
FrameInv ==
  /\ csData = [id |-> csData.id, data |-> csData.data, rtr |-> csData.rtr]
  /\ draft = [id |-> draft.id, data |-> draft.data, rtr |-> draft.rtr]
  /\ txbuf = [id |-> txbuf.id, data |-> txbuf.data, rtr |-> txbuf.rtr]
  /\ csData.rtr = draft.rtr
  /\ "id" \notin stale => csData.id = draft.id
  /\ "data" \notin stale => csData.data = draft.data
  /\ (cmd.op = "tx" /\ stale = {} /\ "RM" \notin mod) =>
       /\ tbs
       /\ cmd.at # "info" => txbuf.rtr = csData.rtr
       /\ cmd.at \in {"data", "request"} => txbuf.id = csData.id
       /\ cmd.at = "request" => txbuf.data = csData.data
  /\ FrameAsAsked

LEMMA InitFrame == Init => FrameInv
BY DEF Init, FrameInv, FrameAsAsked, Idle, NoFrame

LEMMA ChipFrameInv == ASSUME IInv, FrameInv, Chip PROVE FrameInv'
<1> USE DEF FrameInv, FrameAsAsked, IInv, TypeOK, CmdOK, Remembered, config, filter, tx, wants
<1>1. CASE ChipTransmit
  BY <1>1 DEF ChipTransmit
<1>2. CASE ChipBusOff
  BY <1>2 DEF ChipBusOff
<1>3. CASE ChipWakes
  BY <1>3 DEF ChipWakes
<1> QED
  BY <1>1, <1>2, <1>3 DEF Chip

LEMMA CompositionsFrameInv == ASSUME IInv, FrameInv, Compositions PROVE FrameInv'
<1> USE DEF FrameInv, FrameAsAsked, IInv, TypeOK, CmdOK, Remembered, config, filter, tx, wants
<1>1. CASE TxMsg
  <2>1. /\ csData' = [id |-> "ring", data |-> "ring", rtr |-> csData.rtr]
        /\ stale' = {"id", "data"} /\ UNCHANGED << cmd, draft, mod >>
    BY <1>1 DEF TxMsg
  <2>2. CASE "RM" \in mod
    <3>1. UNCHANGED << txbuf, tbs, promise >>
      BY <1>1, <2>2 DEF TxMsg
    <3> QED
      BY <2>1, <3>1
  <2>3. CASE "RM" \notin mod
    <3>1. txbuf' = csData' /\ tbs' = FALSE
      BY <1>1, <2>3 DEF TxMsg
    <3>2. promise' = [csData' EXCEPT !.rtr = draft.rtr]
      BY <1>1, <2>3 DEF TxMsg
    <3>3. promise' = csData'
      BY <2>1, <3>2
    <3> QED
      BY <2>1, <3>1, <3>3
  <2> QED
    BY <2>2, <2>3
<1>2. CASE WriteID
  BY <1>2 DEF WriteID, Free, Compose
<1>3. CASE WriteData
  BY <1>3 DEF WriteData, Free, Compose
<1>4. CASE SetRTR
  <2>1. cmd.op = None
    BY <1>4 DEF SetRTR, Free
  <2>2. PICK rtr \in BOOLEAN : Compose("rtr", rtr)
    BY <1>4 DEF SetRTR
  <2>3. /\ csData' = [id |-> csData.id, data |-> csData.data, rtr |-> rtr]
        /\ draft' = [id |-> draft.id, data |-> draft.data, rtr |-> rtr]
    BY <2>2 DEF Compose
  <2>4. stale' = stale /\ UNCHANGED << cmd, txbuf, mod, tbs, promise >>
    BY <2>2 DEF Compose
  <2> QED
    BY <2>1, <2>3, <2>4
<1>5. CASE Tx
  BY <1>5 DEF Tx, Free, Idle
<1>6. CASE TxInfo
  BY <1>6 DEF TxInfo, TxStep, WriteTxBuf, Junk
<1>7. CASE TxIdent
  BY <1>7 DEF TxIdent, TxStep, WriteTxBuf, Junk
<1>8. CASE TxData
  BY <1>8 DEF TxData, TxStep, WriteTxBuf, Junk
<1>9. CASE TxRequest
  BY <1>9 DEF TxRequest, Idle
<1> QED
  BY <1>1, <1>2, <1>3, <1>4, <1>5, <1>6, <1>7, <1>8, <1>9 DEF Compositions

LEMMA SectionsFrameInv == ASSUME IInv, FrameInv, Sections PROVE FrameInv'
<1> USE DEF FrameInv, FrameAsAsked, IInv, TypeOK, CmdOK, Remembered, config, filter, tx, wants
<1>1. CASE RxIdBegin
  BY <1>1 DEF RxIdBegin, Free, Idle
<1>2. CASE EnterReset
  BY <1>2 DEF EnterReset, WriteMod
<1>3. CASE RxIdWrite
  BY <1>3 DEF RxIdWrite, WriteFilter, Goto
<1>4. CASE RxIdLeave
  BY <1>4 DEF RxIdLeave, WriteMod, Goto, Idle
<1>5. CASE RxIdIrq
  BY <1>5 DEF RxIdIrq, Idle
<1>6. CASE SectionBegin
  BY <1>6 DEF SectionBegin, Free, Idle, InRange
<1>7. CASE FilterWrite
  BY <1>7 DEF FilterWrite, WriteFilter, Goto
<1>8. CASE FilterRead
  BY <1>8 DEF FilterRead, Goto
<1>9. CASE TimingWrite
  BY <1>9 DEF TimingWrite, WriteBtr, Goto
<1>10. CASE LeaveReset
  BY <1>10 DEF LeaveReset, WriteMod, Goto, Idle
<1>11. CASE Spin
  BY <1>11 DEF Spin, Goto
<1>12. CASE Delay
  BY <1>12 DEF Delay, Goto, Idle
<1> QED
  BY <1>1, <1>2, <1>3, <1>4, <1>5, <1>6, <1>7, <1>8, <1>9, <1>10, <1>11, <1>12 DEF Sections

LEMMA ModesFrameInv == ASSUME IInv, FrameInv, Modes PROVE FrameInv'
<1> USE DEF FrameInv, FrameAsAsked, IInv, TypeOK, CmdOK, Remembered, config, filter, tx, wants
<1>1. CASE Start
  BY <1>1 DEF Start, Free, WriteMod, Idle
<1>2. CASE StartFrame
  BY <1>2 DEF StartFrame, Goto, Junk
<1>3. CASE StartClear
  BY <1>3 DEF StartClear, Idle
<1>4. CASE Stop
  BY <1>4 DEF Stop, Free, WriteMod
<1>5. CASE Sleep
  BY <1>5 DEF Sleep, Free, WriteMod
<1>6. CASE WakeUp
  BY <1>6 DEF WakeUp, Free, WriteMod
<1>7. CASE TxAbort
  BY <1>7 DEF TxAbort, Free
<1>8. CASE SwitchChannel
  BY <1>8 DEF SwitchChannel, Free
<1>9. CASE Close
  BY <1>9 DEF Close, Free, WriteMod
<1>10. CASE Open
  BY <1>10 DEF Open, Ones, Free
<1> QED
  BY <1>1, <1>2, <1>3, <1>4, <1>5, <1>6, <1>7, <1>8, <1>9, <1>10 DEF Modes

LEMMA NextFrameInv == IInv /\ FrameInv /\ [Next]_vars => FrameInv'
<1> SUFFICES ASSUME IInv, FrameInv, [Next]_vars PROVE FrameInv'
  OBVIOUS
<1>1. CASE UNCHANGED vars
  BY <1>1 DEF FrameInv, vars, FrameAsAsked, IInv, TypeOK, CmdOK, Remembered, config, filter, tx, wants
<1>2. CASE Next
  BY <1>2, ChipFrameInv, CompositionsFrameInv, SectionsFrameInv, ModesFrameInv DEF Next
<1> QED
  BY <1>1, <1>2

(* No frame on its way is made of two messages, although SJA1000_TxMsg in the
   interrupt handler and the client's calls fill one csData. *)
THEOREM FramesAreWhole == Spec => []FrameAsAsked
<1>1. FrameInv => FrameAsAsked
  BY DEF FrameInv
<1> QED
  BY <1>1, InitOK, StepOK, InitFrame, NextFrameInv, PTL DEF Spec
=============================================================================
