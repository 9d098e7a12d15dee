--------------------------- MODULE CanController ---------------------------
(***************************************************************************)
(* The operations of sja1000.c on one controller, as wncanDevIO.c calls    *)
(* them: every ioctl() holds the device mutex, so one command at a time is *)
(* between its register accesses; the interrupt handler and write() call   *)
(* SJA1000_TxMsg with interrupts locked, and so at any such point.  The    *)
(* output ring behind those calls is CanTx's, the life of the descriptors  *)
(* CanDevIO's: here both channels have their mode while the device is      *)
(* open.                                                                   *)
(*                                                                         *)
(* In reset mode the addresses of the transmit buffer are those of the     *)
(* acceptance code and mask (SFF = ACR0, TXID = ACR1 ...).  An identifier  *)
(* has two parts: lo is what a standard frame carries in ACR0 and ACR1,    *)
(* hi what an extended one has in ACR2 and ACR3, where the filter compares *)
(* the first data bytes of a standard frame.  Reading MOD and writing it   *)
(* back is one step: no bus off or wake-up is modelled between the two.    *)
(***************************************************************************)
EXTENDS Naturals, FiniteSets

CONSTANTS
  Programs,   \* the sets of calls a client confines itself to
  RxIds,      \* identifiers WriteID gives the receive channel
  RxMasks     \* masks SetGlobalRxFilter is called with: 1 must match

AllCalls == {"halt", "sleep", "abort", "timing", "rxid", "filter", "readfilter",
             "enable", "txid", "txdata", "rtr", "tx", "reopen"}

Id == [ext : BOOLEAN, lo : {0, 1}, hi : {0, 1}]

ASSUME ControllerAssumption ==
  /\ Programs \subseteq SUBSET AllCalls
  /\ RxIds \subseteq Id
  /\ RxMasks \subseteq Id

Junk == [lo |-> 2, hi |-> 2]       \* what a frame leaves in the filter
Ones == [lo |-> 1, hi |-> 1]
None == "none"
NoId == [ext |-> FALSE, lo |-> 2, hi |-> 2]
NoFrame == [id |-> None, data |-> None, rtr |-> FALSE]

VARIABLES
  program,   \* the calls the client makes
  isOpen,
  cmd,       \* the command under way: op, at (its next step), val (regMod),
             \* regVal (IER), arg
  \* struct WNCAN_Controller
  timing,    \* brp, sjw, tseg1, tseg2, samples
  csData,    \* struct TxMsg: id (with ext), data (with len), rtr
  \* SJA1000
  mod,       \* bits of MOD
  ier,       \* bits of IER; "ERR" for BEIE, WUIE and EIE
  btr,       \* BTR0, BTR1
  acr, amr,
  txbuf,     \* the transmit buffer
  tbs,       \* SR.TBS: the transmit buffer is released
  \* histories
  draft,     \* what the client wrote with WriteID, WriteData and SetRTR
  stale,     \* fields of csData another message was put into since
  promise,   \* the frame that was asked for, or NoFrame
  wantId, wantMask, wantIer, online,
  halted,    \* Stop was called since Init
  fellOff,   \* bus off since Start
  strayed    \* a frame was written into the filter since Init

config == << timing, btr >>
filter == << acr, amr >>
tx     == << csData, txbuf, draft, stale >>
wants  == << wantId, wantMask, wantIer, online, halted >>
vars == << program, isOpen, cmd, config, filter, tx, mod, ier, tbs, promise, wants,
           fellOff, strayed >>

Idle == [op |-> None, at |-> None, val |-> {}, regVal |-> {}, arg |-> None]

Free(call) == isOpen /\ cmd.op = None /\ call \in program

(* sys_PR6120_CAN_Init's default timing, SJA1000_Init, SetIntMask(ALL) and
   EnableInt of wncDevIOOpen, then the modes of the two channels. *)
Init ==
  /\ program \in Programs
  /\ isOpen = TRUE /\ cmd = Idle
  /\ timing = "default" /\ btr = "default"
  /\ mod = {"RM", "AFM"} /\ ier = {"RIE", "ERR"}
  /\ acr = Ones /\ amr = Ones
  /\ csData = [id |-> "zero", data |-> "zero", rtr |-> FALSE]
  /\ txbuf = csData /\ tbs = TRUE
  /\ draft = csData /\ stale = {} /\ promise = NoFrame
  /\ wantId = NoId /\ wantMask = NoId /\ wantIer = ier
  /\ online = FALSE /\ halted = FALSE /\ fellOff = FALSE /\ strayed = FALSE

(***************************************************************************)
(* The controller.                                                         *)
(***************************************************************************)

(* In reset mode SM cannot be set; in operating mode the chip may or may not
   take AFM.  Entering reset mode releases the transmit buffer. *)
WriteMod(v) ==
  /\ IF "RM" \in mod
     THEN mod' = v \ {"SM"}
     ELSE \E afm \in {mod, v} :
            mod' = (afm \cap {"AFM"}) \cup
                   (IF "RM" \in v THEN {"RM"} ELSE v \cap {"SM"})
  /\ tbs' = (tbs \/ "RM" \in v)
  /\ promise' = IF "RM" \in v THEN NoFrame ELSE promise

(* One field of the frame at the transmit buffer's address. *)
WriteTxBuf(field, value) ==
  IF "RM" \in mod
  THEN /\ acr' = Junk
       /\ amr' \in IF field = "data" THEN {amr, Junk} ELSE {amr}
       /\ strayed' = TRUE
       /\ UNCHANGED txbuf
  ELSE /\ txbuf' = IF tbs THEN [txbuf EXCEPT ![field] = value] ELSE txbuf
       /\ UNCHANGED << filter, strayed >>

(* ACR and AMR: in operating mode the addresses are the transmit buffer's. *)
WriteFilter(code, mask) ==
  IF "RM" \in mod THEN /\ acr' = code /\ amr' = mask
  ELSE UNCHANGED filter

WriteBtr(v) == btr' = IF "RM" \in mod THEN v ELSE btr

ChipTransmit ==
  /\ ~tbs /\ mod \cap {"RM", "SM"} = {}
  /\ tbs' = TRUE
  /\ promise' = NoFrame
  /\ UNCHANGED << program, isOpen, cmd, config, filter, tx, mod, ier, wants,
                  fellOff, strayed >>

ChipBusOff ==
  /\ ~tbs /\ mod \cap {"RM", "SM"} = {}
  /\ mod' = mod \cup {"RM"}
  /\ tbs' = TRUE /\ promise' = NoFrame
  /\ fellOff' = TRUE
  /\ UNCHANGED << program, isOpen, cmd, config, filter, tx, ier, wants, strayed >>

(* Activity on the bus. *)
ChipWakes ==
  /\ "SM" \in mod
  /\ mod' = mod \ {"SM"}
  /\ UNCHANGED << program, isOpen, cmd, config, filter, tx, ier, tbs, promise, wants,
                  fellOff, strayed >>

(***************************************************************************)
(* SJA1000_TxMsg with a message of the output ring.                        *)
(***************************************************************************)

(* Mutant: the busy check is dropped. *)
MutTxMsg ==
  /\ isOpen
  /\ csData' = [csData EXCEPT !.id = "ring", !.data = "ring"]
  /\ stale' = {"id", "data"}
  /\ IF "RM" \in mod
     THEN /\ acr' = Junk /\ amr' \in {amr, Junk} /\ strayed' = TRUE
          /\ UNCHANGED << txbuf, tbs, promise >>
     ELSE /\ txbuf' = IF tbs THEN csData' ELSE txbuf
          /\ tbs' = FALSE
          /\ promise' = [csData' EXCEPT !.rtr = draft.rtr]
          /\ UNCHANGED << filter, strayed >>
  /\ UNCHANGED << program, isOpen, cmd, config, draft, mod, ier, wants, fellOff >>

(* The copy in csData keeps its rtr, and it is csData's rtr that goes out. *)
TxMsg ==
  /\ isOpen
  /\ tbs
  /\ csData' = [csData EXCEPT !.id = "ring", !.data = "ring"]
  /\ stale' = {"id", "data"}
  /\ IF "RM" \in mod
     THEN /\ acr' = Junk /\ amr' \in {amr, Junk} /\ strayed' = TRUE
          /\ UNCHANGED << txbuf, tbs, promise >>
     ELSE /\ txbuf' = csData'
          /\ tbs' = FALSE
          /\ promise' = [csData' EXCEPT !.rtr = draft.rtr]
          /\ UNCHANGED << filter, strayed >>
  /\ UNCHANGED << program, isOpen, cmd, config, draft, mod, ier, wants, fellOff >>

(***************************************************************************)
(* Messages the client composes.                                           *)
(***************************************************************************)
Compose(field, value) ==
  /\ csData' = [csData EXCEPT ![field] = value]
  /\ draft' = [draft EXCEPT ![field] = value]
  /\ stale' = stale \ {field}
  /\ UNCHANGED << program, isOpen, cmd, config, filter, txbuf, mod, ier, tbs, promise,
                  wants, fellOff, strayed >>

WriteID == Free("txid") /\ Compose("id", "client")

WriteData == Free("txdata") /\ Compose("data", "client")

SetRTR == Free("rtr") /\ \E rtr \in BOOLEAN : Compose("rtr", rtr)

(* SJA1000_Tx: the busy check, then one step per part of the frame. *)
Tx ==
  /\ Free("tx")
  /\ tbs
  /\ cmd' = [Idle EXCEPT !.op = "tx", !.at = "info"]
  /\ UNCHANGED << program, isOpen, config, filter, tx, mod, ier, tbs, promise, wants,
                  fellOff, strayed >>

TxStep(at, field, next) ==
  /\ cmd.op = "tx" /\ cmd.at = at
  /\ WriteTxBuf(field, csData[field])
  /\ cmd' = [cmd EXCEPT !.at = next]
  /\ UNCHANGED << program, isOpen, config, csData, draft, stale, mod, ier, tbs,
                  promise, wants, fellOff >>

TxInfo == TxStep("info", "rtr", "ident")
TxIdent == TxStep("ident", "id", "data")

TxData == TxStep("data", "data", "request")

(* CMR_TR: without effect while a request is pending or in reset mode. *)
TxRequest ==
  /\ cmd.op = "tx" /\ cmd.at = "request"
  /\ cmd' = Idle
  /\ IF tbs /\ "RM" \notin mod
     THEN /\ tbs' = FALSE
          /\ promise' = IF stale = {} THEN draft ELSE NoFrame
     ELSE UNCHANGED << tbs, promise >>
  /\ UNCHANGED << program, isOpen, config, filter, tx, mod, ier, wants, fellOff, strayed >>

Compositions == TxMsg \/ WriteID \/ WriteData \/ SetRTR \/ Tx \/ TxInfo \/ TxIdent
                \/ TxData \/ TxRequest

(***************************************************************************)
(* Commands that pass through reset mode.  "Begin" reads MOD and enters,   *)
(* the last steps restore MOD, spin until it reads back and delay.         *)
(***************************************************************************)
Goto(at) == cmd' = [cmd EXCEPT !.at = at]

(* WriteID of the receive channel: reception interrupts off first. *)
RxIdBegin ==
  /\ Free("rxid")
  /\ \E id \in RxIds :
       /\ cmd' = [Idle EXCEPT !.op = "rxid", !.at = "enter", !.regVal = ier, !.arg = id]
       /\ ier' = ier \ {"RIE"}
  /\ UNCHANGED << program, isOpen, config, filter, tx, mod, tbs, promise, wants,
                  fellOff, strayed >>

(* regMod; reset mode is entered, by WriteID and SetBitTiming only if the
   controller is not in it. *)
EnterReset ==
  /\ cmd.at = "enter"
  /\ cmd' = [cmd EXCEPT !.at = "write", !.val = mod]
  /\ WriteMod(mod \cup {"RM"})
  /\ UNCHANGED << program, isOpen, config, filter, tx, ier, wants, fellOff, strayed >>

(* A standard identifier leaves ACR2 and ACR3 alone. *)
RxIdWrite ==
  /\ cmd.op = "rxid" /\ cmd.at = "write"
  /\ WriteFilter([lo |-> cmd.arg.lo,
                  hi |-> IF cmd.arg.ext THEN cmd.arg.hi ELSE acr.hi], amr)
  /\ wantId' = cmd.arg
  /\ Goto("leave")
  /\ UNCHANGED << program, isOpen, config, tx, mod, ier, tbs, promise, wantMask,
                  wantIer, online, halted, fellOff, strayed >>

(* Mutant: the receive interrupt stays off. *)
MutRxIdLeave ==
  /\ cmd.op = "rxid" /\ cmd.at = "leave"
  /\ IF "RM" \notin cmd.val THEN WriteMod(cmd.val) ELSE UNCHANGED << mod, tbs, promise >>
  /\ cmd' = Idle
  /\ UNCHANGED << program, isOpen, config, filter, tx, ier, wants, fellOff, strayed >>

(* WriteID does not wait for the controller to leave reset mode. *)
RxIdLeave ==
  /\ cmd.op = "rxid" /\ cmd.at = "leave"
  /\ IF "RM" \notin cmd.val THEN WriteMod(cmd.val) ELSE UNCHANGED << mod, tbs, promise >>
  /\ IF "RIE" \in cmd.regVal
     THEN Goto("irq")
     ELSE cmd' = Idle
  /\ UNCHANGED << program, isOpen, config, filter, tx, ier, wants, fellOff, strayed >>

RxIdIrq ==
  /\ cmd.at = "irq"
  /\ ier' = cmd.regVal
  /\ cmd' = Idle
  /\ UNCHANGED << program, isOpen, config, filter, tx, mod, tbs, promise, wants,
                  fellOff, strayed >>

(* The check of tseg1, tseg2, brp and sjw. *)
InRange(bits) == bits # "illegal"

(* SetGlobalRxFilter, GetGlobalRxFilter and SetBitTiming. *)
SectionBegin ==
  /\ \E op \in {"filter", "readfilter", "timing"} :
       /\ Free(op)
       /\ \E arg \in CASE op = "filter" -> RxMasks
                       [] op = "timing" -> {bits \in {"default", "fast", "illegal"} : InRange(bits)}
                       [] OTHER -> {None} :
            cmd' = [Idle EXCEPT !.op = op, !.at = "enter", !.arg = arg]
  /\ UNCHANGED << program, isOpen, config, filter, tx, mod, ier, tbs, promise, wants,
                  fellOff, strayed >>

(* Mutant: the mask of a standard identifier leaves AMR2 and AMR3 alone. *)
MutFilterWrite ==
  /\ cmd.op = "filter" /\ cmd.at = "write"
  /\ WriteFilter(acr, [lo |-> 1 - cmd.arg.lo,
                       hi |-> IF cmd.arg.ext THEN 1 - cmd.arg.hi ELSE amr.hi])
  /\ wantMask' = cmd.arg
  /\ Goto("leave")
  /\ UNCHANGED << program, isOpen, config, tx, mod, ier, tbs, promise, wantId,
                  wantIer, online, halted, fellOff, strayed >>

(* The controller's mask is the complement; a standard mask cares for nothing
   in AMR2 and AMR3. *)
FilterWrite ==
  /\ cmd.op = "filter" /\ cmd.at = "write"
  /\ WriteFilter(acr, [lo |-> 1 - cmd.arg.lo,
                       hi |-> IF cmd.arg.ext THEN 1 - cmd.arg.hi ELSE 1])
  /\ wantMask' = cmd.arg
  /\ Goto("leave")
  /\ UNCHANGED << program, isOpen, config, tx, mod, ier, tbs, promise, wantId,
                  wantIer, online, halted, fellOff, strayed >>

FilterRead ==
  /\ cmd.op = "readfilter" /\ cmd.at = "write"
  /\ Goto("leave")
  /\ UNCHANGED << program, isOpen, config, filter, tx, mod, ier, tbs, promise, wants,
                  fellOff, strayed >>

TimingWrite ==
  /\ cmd.op = "timing" /\ cmd.at = "write"
  /\ timing' = cmd.arg
  /\ WriteBtr(cmd.arg)
  /\ Goto("leave")
  /\ UNCHANGED << program, isOpen, filter, tx, mod, ier, tbs, promise, wants, fellOff,
                  strayed >>

(* MOD gets back what was read; SetBitTiming leaves a controller in reset. *)
LeaveReset ==
  /\ cmd.op \in {"filter", "readfilter", "timing"} /\ cmd.at = "leave"
  /\ IF cmd.op = "timing" /\ "RM" \in cmd.val
     THEN /\ cmd' = Idle
          /\ UNCHANGED << mod, tbs, promise >>
     ELSE /\ WriteMod(cmd.val)
          /\ Goto("spin")
  /\ UNCHANGED << program, isOpen, config, filter, tx, ier, wants, fellOff, strayed >>

Spin ==
  /\ cmd.at = "spin"
  /\ mod = cmd.val
  /\ Goto("delay")
  /\ UNCHANGED << program, isOpen, config, filter, tx, mod, ier, tbs, promise, wants,
                  fellOff, strayed >>

(* taskDelay(1): the bus status is never looked at, the test compares the
   address of SJA1000_GetBusStatus. *)
Delay ==
  /\ cmd.at = "delay"
  /\ IF cmd.op = "start" THEN Goto("frame") ELSE cmd' = Idle
  /\ UNCHANGED << program, isOpen, config, filter, tx, mod, ier, tbs, promise, wants,
                  fellOff, strayed >>

(***************************************************************************)
(* WNCAN_HALT, WNCAN_SLEEP, WNCAN_WAKE, WNCAN_TX_ABORT, WNCAN_CHN_ENABLE.  *)
(***************************************************************************)

(* Mutant: waits for the value read before MOD_RM was cleared. *)
MutStart ==
  /\ Free("halt")
  /\ WriteMod(mod \ {"RM"})
  /\ cmd' = [Idle EXCEPT !.op = "start", !.at = "spin", !.val = mod]
  /\ online' = TRUE
  /\ fellOff' = FALSE
  /\ UNCHANGED << program, isOpen, config, filter, tx, ier, wantId, wantMask, wantIer,
                  halted, strayed >>

Start ==
  /\ Free("halt")
  /\ WriteMod(mod \ {"RM"})
  /\ cmd' = [Idle EXCEPT !.op = "start", !.at = "spin", !.val = mod \ {"RM"}]
  /\ online' = TRUE
  /\ fellOff' = FALSE
  /\ UNCHANGED << program, isOpen, config, filter, tx, ier, wantId, wantMask, wantIer,
                  halted, strayed >>

(* SFF := 0, which is ACR0 if the controller is back in reset mode. *)
StartFrame ==
  /\ cmd.at = "frame"
  /\ IF "RM" \in mod
     THEN /\ acr' = Junk /\ strayed' = TRUE
          /\ UNCHANGED << txbuf, amr >>
     ELSE /\ txbuf' = IF tbs THEN [txbuf EXCEPT !.rtr = FALSE] ELSE txbuf
          /\ UNCHANGED << filter, strayed >>
  /\ Goto("clear")
  /\ UNCHANGED << program, isOpen, config, csData, draft, stale, mod, ier, tbs, promise,
                  wants, fellOff >>

StartClear ==
  /\ cmd.at = "clear"
  /\ csData' = [id |-> "zero", data |-> "zero", rtr |-> FALSE]
  /\ draft' = csData'
  /\ stale' = {}
  /\ cmd' = Idle
  /\ UNCHANGED << program, isOpen, config, filter, txbuf, mod, ier, tbs, promise, wants,
                  fellOff, strayed >>

(* MOD := RM alone: AFM goes if the controller already is in reset mode, SM
   in any case. *)
Stop ==
  /\ Free("halt")
  /\ WriteMod({"RM"})
  /\ online' = FALSE
  /\ halted' = TRUE
  /\ UNCHANGED << program, isOpen, cmd, config, filter, tx, ier, wantId, wantMask,
                  wantIer, fellOff, strayed >>

(* Refused in reset mode. *)
Sleep ==
  /\ Free("sleep")
  /\ "RM" \notin mod
  /\ WriteMod(mod \cup {"SM"})
  /\ UNCHANGED << program, isOpen, cmd, config, filter, tx, ier, wants, fellOff, strayed >>

WakeUp ==
  /\ Free("sleep")
  /\ WriteMod(mod \ {"SM"})
  /\ UNCHANGED << program, isOpen, cmd, config, filter, tx, ier, wants, fellOff, strayed >>

(* CMR_AT: a frame already on its way still goes out. *)
TxAbort ==
  /\ Free("abort")
  /\ ~tbs
  /\ tbs' = TRUE /\ promise' = NoFrame
  /\ UNCHANGED << program, isOpen, cmd, config, filter, tx, mod, ier, wants, fellOff, strayed >>

(* EnableChannel and DisableChannel: IER is read and written without a lock
   but under the device mutex. *)
SwitchChannel ==
  /\ Free("enable")
  /\ \E bit \in {"RIE", "TIE"} : ier' \in {ier \cup {bit}, ier \ {bit}}
  /\ wantIer' = ier'
  /\ UNCHANGED << program, isOpen, cmd, config, filter, tx, mod, tbs, promise, wantId,
                  wantMask, online, halted, fellOff, strayed >>

(***************************************************************************)
(* wncDevIOClose and wncDevIOOpen.  csData and timing outlive both.        *)
(***************************************************************************)
Close ==
  /\ Free("reopen")
  /\ isOpen' = FALSE
  /\ WriteMod({"RM"})
  /\ ier' = {} /\ wantIer' = {}
  /\ online' = FALSE /\ halted' = TRUE
  /\ UNCHANGED << program, cmd, config, filter, tx, wantId, wantMask, fellOff, strayed >>

(* SJA1000_Init enters reset mode before it writes MOD_RM and MOD_AFM. *)
Open ==
  /\ ~isOpen
  /\ isOpen' = TRUE
  /\ mod' = {"RM", "AFM"} /\ ier' = {"RIE", "ERR"}
  /\ btr' = timing
  /\ acr' = Ones /\ amr' = Ones
  /\ wantId' = NoId /\ wantMask' = NoId /\ wantIer' = ier'
  /\ online' = FALSE /\ halted' = FALSE /\ fellOff' = FALSE /\ strayed' = FALSE
  /\ UNCHANGED << program, cmd, timing, tx, tbs, promise >>

Sections == RxIdBegin \/ EnterReset \/ RxIdWrite \/ RxIdLeave \/ RxIdIrq \/ SectionBegin
            \/ FilterWrite \/ FilterRead \/ TimingWrite \/ LeaveReset \/ Spin \/ Delay

Modes == Start \/ StartFrame \/ StartClear \/ Stop \/ Sleep \/ WakeUp \/ TxAbort
         \/ SwitchChannel \/ Close \/ Open

Chip == ChipTransmit \/ ChipBusOff \/ ChipWakes

Next == Chip \/ Compositions \/ Sections \/ Modes

(* The task inside a command keeps running. *)
Fairness ==
  WF_vars(EnterReset \/ RxIdWrite \/ RxIdLeave \/ RxIdIrq \/ FilterWrite \/ FilterRead
          \/ TimingWrite \/ LeaveReset \/ Spin \/ Delay \/ StartFrame \/ StartClear
          \/ TxInfo \/ TxIdent \/ TxData \/ TxRequest)

Spec == Init /\ [][Next]_vars /\ Fairness

(***************************************************************************)
(* What the filter lets through.                                           *)
(***************************************************************************)
Match(part, bit) == amr[part] = 1 \/ acr[part] = bit

(* Without AFM the two halves are two filters on the same bits. *)
Accepts(frame) ==
  IF "AFM" \in mod
  THEN Match("lo", frame.lo) /\ Match("hi", frame.hi)
  ELSE Match("lo", frame.lo) \/ Match("hi", frame.lo)

(***************************************************************************)
(* Properties                                                              *)
(***************************************************************************)

(* The variables hold values of their kinds. *)
TypeOK ==
  /\ program \in Programs /\ isOpen \in BOOLEAN
  /\ mod \subseteq {"RM", "AFM", "SM"} /\ ier \subseteq {"RIE", "TIE", "ERR"}
  /\ {timing, btr} \subseteq {"default", "fast"}
  /\ {acr, amr} \subseteq [lo : 0 .. 2, hi : 0 .. 2]
  /\ tbs \in BOOLEAN /\ stale \subseteq {"id", "data"}

(* CAN_WriteID: "CAN messages with this Id will be received".  After WriteID
   and SetGlobalRxFilter for the same format, in either order and with other
   commands between, the controller accepts exactly the frames of that format
   that agree with the identifier where the mask is 1 - unless the controller
   was halted, which may have turned the one filter into two, or a frame was
   written into the filter. *)
FilterAsAsked ==
  (/\ isOpen /\ cmd.op = None /\ ~halted /\ ~strayed
   /\ wantId # NoId /\ wantMask # NoId) =>
  (wantId.ext = wantMask.ext =>
     \A frame \in Id : frame.ext = wantId.ext =>
       (Accepts(frame) <=>
          /\ wantMask.lo = 1 => frame.lo = wantId.lo
          /\ (frame.ext /\ wantMask.hi = 1) => frame.hi = wantId.hi))

(* "if the CAN controller is online when the function is called, then the CAN
   controller will be online when the function exits", and no command but
   WNCAN_HALT brings a stopped controller online. *)
StatePreserved ==
  (isOpen /\ cmd.op = None) =>
    /\ (online /\ ~fellOff) => "RM" \notin mod
    /\ ~online => "RM" \in mod

(* "so that the bit timing values are not lost if Init is called again". *)
TimingSurvives == (isOpen /\ cmd.op = None) => btr = timing

(* The interrupts enabled are those the last calls asked for, whatever was
   called between: WriteID gives the receive interrupt back. *)
InterruptsAsAsked == cmd.op = None => ier = wantIer

(* Whatever mode a command passes through and whatever it masks on its way,
   the controller is as the last calls asked for once it is over. *)
CommandsRestore ==
  TypeOK /\ StatePreserved /\ TimingSurvives /\ InterruptsAsAsked

(* The frame that is on its way is a message of the ring or the one the client
   composed, never parts of both, and is a remote frame only if the client
   set RTR; nothing is claimed of a composed message while a message of the
   ring went through csData since, or between Tx's accesses. *)
FrameAsAsked == promise # NoFrame => ~tbs /\ txbuf = promise

(* Every command comes to an end, and with it the device mutex, unless the
   controller was asleep when the command read MOD, or has gone bus off: then
   the task may wait for ever for MOD to read back what it wrote. *)
CommandsEnd == (cmd.op # None) ~> (cmd.op = None \/ "SM" \in cmd.val \/ fellOff)
=============================================================================
