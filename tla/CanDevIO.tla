------------------------------ MODULE CanDevIO ------------------------------
(***************************************************************************)
(* The life of one CAN device behind the VxWorks I/O system: installing    *)
(* the driver, creating and destroying the device, opening and closing it  *)
(* and its channels, and the ioctls that decide which interrupts arrive    *)
(* and which pointers the interrupt handler follows when they do.          *)
(*                                                                         *)
(* The SJA1000 has a receive channel (0) and a transmit channel (1).  The  *)
(* device mutex serialises open(), close() and ioctl(), not write() nor    *)
(* the destruction of the device, which tests first and deletes later.     *)
(* One processor: an interrupt is serviced before the next step of a task. *)
(* The I/O system forgets a descriptor whatever its close() returns.       *)
(***************************************************************************)
EXTENDS Naturals, FiniteSets

CONSTANTS
  Tasks,      \* tasks that use the device
  MaxFds,     \* bound: descriptors opened over time
  Clients     \* kinds of clients: what they may do besides the protocol of
              \* demo/main.c, and a bound on the descriptors they open

(* "no_mode": a channel is closed, or its mode changed under an enabled
   interrupt, while it has no transmit or receive mode; "second_fd": a channel
   is opened twice; "early_start": the controller is started before its
   receive channel is ready; "second_open": the device is opened twice;
   "device_first": it is closed before its channels; "wrong_flags": a channel
   is opened without the ring its interrupt uses; "no_memory": malloc() fails
   in open(); "concurrent": a descriptor is closed under a call of another
   task, or the device destroyed while other tasks call it. *)
AllIrregular == {"no_mode", "second_fd", "early_start", "second_open",
                 "device_first", "wrong_flags", "no_memory", "concurrent"}

Fd == 1 .. MaxFds

ASSUME DevIOAssumption ==
  /\ MaxFds \in Nat
  /\ Clients \subseteq [irregular : SUBSET AllIrregular, fds : 0 .. MaxFds]

Rx == 0
Tx == 1
Channel == {Rx, Tx}

(* g_sja1000chnType, and the interrupt enable bit of each channel. *)
chnType == [c \in Channel |-> IF c = Rx THEN "RECEIVE" ELSE "TRANSMIT"]
IntBit  == [c \in Channel |-> IF c = Rx THEN "RIE" ELSE "TIE"]

(* Pointers that are no descriptor: NULL, and uninitialised memory. *)
Null    == 0
Garbage == MaxFds + 1

VARIABLES
  installed,     \* wncDevIODrvNum > 0
  created,       \* the device is known to the I/O system (wncDevDrvInstance)
  isDeviceOpen,  \* WNCAN_DEVIO_DRVINFO.isDeviceOpen
  numOpenChans,  \* WNCAN_DEVIO_DRVINFO.numOpenChans
  allocated,     \* PR6120_CAN_DeviceEntry.allocated
  userData,      \* WNCAN_Device.userData: the device's DevIO info
  chnInfo,       \* that info's array of channel infos
  chnMode,       \* pCtrl->chnMode
  ier,           \* IER: RIE, TIE and the error sources
  online,        \* MOD.RM = 0
  txBusy,        \* a transmission is under way
  ti,            \* IR.TI
  info,          \* memory behind each descriptor
  open,          \* descriptors the I/O system knows
  orphans,       \* descriptors whose wnDevIODrv points to a freed instance
  overtaken,     \* history: descriptors opened between the tests and the
                 \*   deletion of a wncDevIODevDestroy()
  pc,            \* where each task is in open(), close(), write() and destroy
  cur,           \* the descriptor that call is about
  fault,         \* what went wrong in the processor
  client         \* the kind of clients there are

vars == << installed, created, isDeviceOpen, numOpenChans, allocated, userData,
           chnInfo, chnMode, ier, online, txBusy, ti, info, open, orphans, overtaken,
           pc, cur, fault, client >>

driverVars == << installed, created, client >>
deviceVars == << isDeviceOpen, numOpenChans, allocated, userData, chnInfo >>
chipVars   == << ier, online, txBusy, ti >>
lostVars   == << orphans, overtaken >>
fdVars     == << info, open, lostVars >>
taskVars   == << pc, cur >>

Unused == [type |-> "none", chn |-> Null, in |-> FALSE, out |-> FALSE, live |-> FALSE]

Irregular == client.irregular

NextFd == 1 + Cardinality({ f \in Fd : info[f].type # "none" })

Live(p)       == p \in Fd /\ info[p].live
IsDevice(f)   == f \in open /\ info[f].type = "device"
IsChannel(f)  == f \in open /\ info[f].type = "channel"
ChannelFds(c) == { f \in open : IsChannel(f) /\ info[f].chn = c }

(* What wncDevIOIsrHandler follows: pDev->userData, its chnInfo[chnNum] and
   that channel's ring. *)
HandlerFinds(c) ==
  /\ Live(userData)
  /\ Live(chnInfo[c])
  /\ IF c = Rx THEN info[chnInfo[c]].in ELSE info[chnInfo[c]].out

(* Where a task does not hold the device mutex; "lost": the device was
   destroyed under its call. *)
Outside == {"idle", "kick", "destroying", "lost"}

(* Unless clients are careless, nobody calls while the device is destroyed. *)
Undestroyed ==
  "concurrent" \in Irregular \/ \A t \in Tasks : pc[t] # "destroying"

MutexFree  == \A t \in Tasks : pc[t] \in Outside
TaskRuns   == fault = "none" /\ ~ti
MayCall(t) == TaskRuns /\ MutexFree /\ pc[t] = "idle" /\ created /\ Undestroyed

(* Nobody else is in a call with f, unless clients are careless. *)
Unshared(f) ==
  "concurrent" \in Irregular \/ \A t \in Tasks : cur[t] # f

Init ==
  /\ installed = FALSE
  /\ created = FALSE
  /\ isDeviceOpen = FALSE
  /\ numOpenChans = 0
  /\ allocated = FALSE
  /\ userData = Null
  /\ chnInfo = [c \in Channel |-> Garbage]
  /\ chnMode = [c \in Channel |-> "INVALID"]
  /\ ier = {}
  /\ online = FALSE
  /\ txBusy = FALSE
  /\ ti = FALSE
  /\ info = [f \in Fd |-> Unused]
  /\ open = {}
  /\ orphans = {}
  /\ overtaken = {}
  /\ pc = [t \in Tasks |-> "idle"]
  /\ cur = [t \in Tasks |-> Null]
  /\ fault = "none"
  /\ client \in Clients

(***************************************************************************)
(* The driver and its device instance.                                     *)
(***************************************************************************)
DrvInstall ==
  /\ TaskRuns
  /\ ~installed
  /\ installed' = TRUE
  /\ UNCHANGED << created, client, deviceVars, chnMode, chipVars, fdVars, taskVars, fault >>

DrvRemove ==
  /\ TaskRuns
  /\ installed /\ ~created
  /\ installed' = FALSE
  /\ UNCHANGED << created, client, deviceVars, chnMode, chipVars, fdVars, taskVars, fault >>

DevCreate ==
  /\ TaskRuns
  /\ installed /\ ~created
  /\ created' = TRUE
  /\ isDeviceOpen' = FALSE
  /\ numOpenChans' = 0
  /\ UNCHANGED << installed, client, allocated, userData, chnInfo, chnMode, chipVars,
                  fdVars, taskVars, fault >>

(* wncDevIODevDestroy is refused while the device or a channel is open.  It
   looks without the mutex ... *)
DevDestroyCheck(t) ==
  /\ TaskRuns
  /\ pc[t] = "idle"
  /\ installed /\ created
  /\ numOpenChans = 0
  /\ ~isDeviceOpen
  /\ "concurrent" \in Irregular \/ \A u \in Tasks : pc[u] = "idle"
  /\ pc' = [pc EXCEPT ![t] = "destroying"]
  /\ UNCHANGED << driverVars, deviceVars, chnMode, chipVars, fdVars, cur, fault >>

(* ... and deletes later: iosDevDelete, semDelete and the free of the instance,
   with its flag and its count.  iosDevDelete does not touch descriptors: those
   of open files, and calls under way, keep their pointer to what is freed.
   (A task that is idle here may be caught in a call as well: it has looked the
   device up and waits for the mutex, or has still to give it back.) *)
DevDestroyDelete(t) ==
  /\ TaskRuns
  /\ pc[t] = "destroying"
  /\ created' = FALSE
  /\ isDeviceOpen' = FALSE
  /\ numOpenChans' = 0
  /\ orphans' = { f \in Fd : info[f].live }
  /\ \E caught \in SUBSET (Tasks \ {t}) :
       /\ \A u \in Tasks \ {t} : pc[u] # "idle" => u \in caught
       /\ "concurrent" \in Irregular \/ \A u \in caught : pc[u] # "idle"
       /\ pc' = [u \in Tasks |-> IF u \in caught THEN "lost" ELSE "idle"]
  /\ UNCHANGED << installed, client, allocated, userData, chnInfo, chnMode, chipVars,
                  info, open, overtaken, cur, fault >>

(* The next step of such a call, and any call on such a descriptor. *)
LostCall(t) ==
  /\ TaskRuns
  /\ pc[t] = "lost"
  /\ fault' = "pointer"
  /\ UNCHANGED << driverVars, deviceVars, chnMode, chipVars, fdVars, taskVars >>

OrphanCall(t, f) ==
  /\ TaskRuns
  /\ pc[t] = "idle"
  /\ f \in orphans
  /\ fault' = "pointer"
  /\ UNCHANGED << driverVars, deviceVars, chnMode, chipVars, fdVars, taskVars >>

(***************************************************************************)
(* What open() and close() ask of the controller.                          *)
(***************************************************************************)

(* pr6120_can_open: one user at a time. *)
CanOpen ==
  /\ ~allocated
  /\ allocated' = TRUE

(* SJA1000_Init leaves the controller in reset mode, every channel free. *)
CanInit ==
  /\ online' = FALSE
  /\ txBusy' = FALSE
  /\ chnMode' = [c \in Channel |-> "INVALID"]

(* SJA1000_SetIntMask(WNCAN_INT_ALL) and SJA1000_EnableInt. *)
EnableInt == ier' = {"RIE", "ERR"}

(* SJA1000_TxAbort, SJA1000_Stop and SJA1000_DisableInt. *)
Silence ==
  /\ online' = FALSE
  /\ txBusy' = FALSE
  /\ ti' = (txBusy /\ online /\ "TIE" \in ier)
  /\ ier' = {}

(* SJA1000_EnableChannel and SJA1000_DisableChannel switch the interrupt of
   the channel's mode and fail for any other mode; enabling fails as well if
   the descriptor's interrupt (the output ring's, if it has one) is another. *)
EnableChannel(f) ==
  LET c == info[f].chn
  IN  /\ chnMode[c] = chnType[c]
      /\ info[f].out = (c = Tx)
      /\ ier' = ier \cup {IntBit[c]}

(* Mutant: the interrupt stays enabled. *)
MutDisableChannel(c) ==
  /\ chnMode[c] = chnType[c]
  /\ UNCHANGED ier

DisableChannel(c) ==
  /\ chnMode[c] = chnType[c]
  /\ ier' = ier \ {IntBit[c]}

FreeChannel(c) == chnMode' = [chnMode EXCEPT ![c] = "INVALID"]

(***************************************************************************)
(* wncDevIOOpen.                                                           *)
(***************************************************************************)

(* The I/O system knows descriptor f; the history remembers whether the
   device was about to be deleted. *)
NewFd(f) ==
  /\ open' = open \cup {f}
  /\ overtaken' = IF \E t \in Tasks : pc[t] = "destroying"
                  THEN overtaken \cup {f} ELSE overtaken
  /\ UNCHANGED orphans

(* CAN_Open, CAN_Init, CAN_SetIntMask and CAN_EnableInt; the device counts as
   open from here on. *)
OpenDevice(t) ==
  /\ MayCall(t)
  /\ NextFd <= client.fds
  /\ CanOpen
  /\ CanInit
  /\ EnableInt
  /\ isDeviceOpen' = TRUE
  /\ pc' = [pc EXCEPT ![t] = "opening"]
  /\ UNCHANGED << driverVars, numOpenChans, userData, chnInfo, ti, fdVars, cur, fault >>

(* CAN_Open fails with S_can_busy and returns 0, which CAN_Init follows. *)
OpenDeviceBusy(t) ==
  /\ MayCall(t)
  /\ "second_open" \in Irregular
  /\ allocated
  /\ fault' = "pointer"
  /\ UNCHANGED << driverVars, deviceVars, chnMode, chipVars, fdVars, taskVars >>

(* The device's info with its uninitialised array of channel infos. *)
OpenDeviceInfo(t) ==
  /\ TaskRuns
  /\ pc[t] = "opening"
  /\ info' = [info EXCEPT ![NextFd] = [Unused EXCEPT !.type = "device", !.live = TRUE]]
  /\ NewFd(NextFd)
  /\ userData' = NextFd
  /\ chnInfo' = [c \in Channel |-> Garbage]
  /\ pc' = [pc EXCEPT ![t] = "idle"]
  /\ UNCHANGED << driverVars, isDeviceOpen, numOpenChans, allocated, chnMode,
                  chipVars, cur, fault >>

(* malloc() fails: open() returns ERROR and takes nothing of the above back. *)
OpenDeviceNoMemory(t) ==
  /\ TaskRuns
  /\ pc[t] = "opening"
  /\ "no_memory" \in Irregular
  /\ pc' = [pc EXCEPT ![t] = "idle"]
  /\ UNCHANGED << driverVars, deviceVars, chnMode, chipVars, fdVars, cur, fault >>

(* O_RDONLY creates the input ring, O_WRONLY the output ring, O_RDWR both. *)
Access == [in : BOOLEAN, out : BOOLEAN] \ {[in |-> FALSE, out |-> FALSE]}

OpenChannel(t, c, access) ==
  /\ MayCall(t)
  /\ NextFd <= client.fds
  /\ isDeviceOpen
  /\ "second_fd" \in Irregular \/ ChannelFds(c) = {}
  /\ "wrong_flags" \in Irregular \/ (IF c = Rx THEN access.in ELSE access.out)
  /\ IF Live(userData)
     THEN /\ info' = [info EXCEPT ![NextFd] =
                        [type |-> "channel", chn |-> c, in |-> access.in,
                         out |-> access.out, live |-> TRUE]]
          /\ NewFd(NextFd)
          /\ chnInfo' = [chnInfo EXCEPT ![c] = NextFd]
          /\ numOpenChans' = numOpenChans + 1
          /\ UNCHANGED fault
     ELSE /\ fault' = "pointer"
          /\ UNCHANGED << fdVars, chnInfo, numOpenChans >>
  /\ UNCHANGED << driverVars, isDeviceOpen, allocated, userData, chnMode,
                  chipVars, taskVars >>

(***************************************************************************)
(* wncDevIOClose.                                                          *)
(***************************************************************************)

(* CAN_DisableChannel; if it fails, so does close(). *)
CloseChannelDisable(t, f) ==
  /\ MayCall(t)
  /\ IsChannel(f) /\ Unshared(f)
  /\ DisableChannel(info[f].chn)
  /\ pc' = [pc EXCEPT ![t] = "disabled"]
  /\ cur' = [cur EXCEPT ![t] = f]
  /\ UNCHANGED << driverVars, deviceVars, chnMode, online, txBusy, ti, fdVars, fault >>

CloseChannelRefused(t, f) ==
  /\ MayCall(t)
  /\ IsChannel(f) /\ Unshared(f)
  /\ "no_mode" \in Irregular
  /\ chnMode[info[f].chn] # chnType[info[f].chn]
  /\ open' = open \ {f}
  /\ UNCHANGED << driverVars, deviceVars, chnMode, chipVars, info, lostVars, taskVars, fault >>

(* CAN_FreeChannel and rngDelete. *)
CloseChannelRings(t) ==
  /\ TaskRuns
  /\ pc[t] = "disabled"
  /\ FreeChannel(info[cur[t]].chn)
  /\ info' = [info EXCEPT ![cur[t]].in = FALSE, ![cur[t]].out = FALSE]
  /\ pc' = [pc EXCEPT ![t] = "ringless"]
  /\ UNCHANGED << driverVars, deviceVars, chipVars, open, lostVars, cur, fault >>

(* The device's info forgets the channel, and its memory is freed. *)
CloseChannelFree(t) ==
  /\ TaskRuns
  /\ pc[t] = "ringless"
  /\ IF Live(userData)
     THEN /\ chnInfo' = [chnInfo EXCEPT ![info[cur[t]].chn] = Null]
          /\ info' = [info EXCEPT ![cur[t]].live = FALSE]
          /\ open' = open \ {cur[t]}
          /\ numOpenChans' = numOpenChans - 1
          /\ UNCHANGED << lostVars, fault >>
     ELSE /\ fault' = "pointer"
          /\ UNCHANGED << chnInfo, fdVars, numOpenChans >>
  /\ pc' = [pc EXCEPT ![t] = "idle"]
  /\ cur' = [cur EXCEPT ![t] = Null]
  /\ UNCHANGED << driverVars, isDeviceOpen, allocated, userData, chnMode, chipVars >>

(* The device still has open channels: S_ioLib_DEVICE_ERROR. *)
CloseDeviceRefused(t, f) ==
  /\ MayCall(t)
  /\ IsDevice(f)
  /\ "device_first" \in Irregular
  /\ numOpenChans > 0
  /\ open' = open \ {f}
  /\ UNCHANGED << driverVars, deviceVars, chnMode, chipVars, info, lostVars, taskVars, fault >>

(* Mutant: the count of open channels is not looked at. *)
MutCloseDeviceStop(t, f) ==
  /\ MayCall(t)
  /\ IsDevice(f)
  /\ Silence
  /\ pc' = [pc EXCEPT ![t] = "stopped"]
  /\ cur' = [cur EXCEPT ![t] = f]
  /\ UNCHANGED << driverVars, deviceVars, chnMode, fdVars, fault >>

(* CAN_TxAbort, CAN_Stop and CAN_DisableInt ... *)
CloseDeviceStop(t, f) ==
  /\ MayCall(t)
  /\ IsDevice(f)
  /\ numOpenChans = 0
  /\ Silence
  /\ pc' = [pc EXCEPT ![t] = "stopped"]
  /\ cur' = [cur EXCEPT ![t] = f]
  /\ UNCHANGED << driverVars, deviceVars, chnMode, fdVars, fault >>

(* pr6120_can_close, and a mutant that keeps the controller. *)
MutCanClose == UNCHANGED allocated
CanClose == allocated' = FALSE

(* ... then CAN_Close, and the device's info is freed. *)
CloseDeviceFree(t) ==
  /\ TaskRuns
  /\ pc[t] = "stopped"
  /\ CanClose
  /\ isDeviceOpen' = FALSE
  /\ info' = [info EXCEPT ![cur[t]].live = FALSE]
  /\ open' = open \ {cur[t]}
  /\ pc' = [pc EXCEPT ![t] = "idle"]
  /\ cur' = [cur EXCEPT ![t] = Null]
  /\ UNCHANGED << driverVars, numOpenChans, userData, chnInfo, chnMode, chipVars,
                  lostVars, fault >>

(***************************************************************************)
(* ioctl().                                                                *)
(***************************************************************************)

(* WNCAN_TXCHAN_GET, WNCAN_RXCHAN_GET: the first channel without a mode that
   can have the mode asked for. *)
ChanGet(t, f, c) ==
  /\ MayCall(t)
  /\ IsDevice(f)
  /\ chnMode[c] = "INVALID"
  /\ chnMode' = [chnMode EXCEPT ![c] = chnType[c]]
  /\ UNCHANGED << driverVars, deviceVars, chipVars, fdVars, taskVars, fault >>

(* WNCAN_CHNCONFIG_SET with WNCAN_CHNCFG_MODE. *)
SetMode(t, f, m) ==
  /\ MayCall(t)
  /\ IsChannel(f)
  /\ LET c == info[f].chn
     IN  /\ m \in {chnType[c], "INACTIVE", "INVALID"} \ {chnMode[c]}
         /\ "no_mode" \in Irregular \/ IntBit[c] \notin ier
         /\ chnMode' = [chnMode EXCEPT ![c] = m]
  /\ UNCHANGED << driverVars, deviceVars, chipVars, fdVars, taskVars, fault >>

(* WNCAN_CHN_ENABLE. *)
ChnEnable(t, f) ==
  /\ MayCall(t)
  /\ IsChannel(f)
  /\ EnableChannel(f)
  /\ UNCHANGED << driverVars, deviceVars, chnMode, online, txBusy, ti, fdVars, taskVars, fault >>

ChnDisable(t, f) ==
  /\ MayCall(t)
  /\ IsChannel(f)
  /\ DisableChannel(info[f].chn)
  /\ UNCHANGED << driverVars, deviceVars, chnMode, online, txBusy, ti, fdVars, taskVars, fault >>

(* A client that starts the controller has its receive channel ready. *)
ReceiveReady ==
  "RIE" \in ier => chnMode[Rx] = "RECEIVE" /\ ChannelFds(Rx) # {}

(* WNCAN_HALT FALSE and TRUE. *)
Start(t, f) ==
  /\ MayCall(t)
  /\ IsDevice(f)
  /\ ~online
  /\ "early_start" \in Irregular \/ ReceiveReady
  /\ online' = TRUE
  /\ UNCHANGED << driverVars, deviceVars, chnMode, ier, txBusy, ti, fdVars, taskVars, fault >>

Stop(t, f) ==
  /\ MayCall(t)
  /\ IsDevice(f)
  /\ online
  /\ online' = FALSE
  /\ txBusy' = FALSE
  /\ UNCHANGED << driverVars, deviceVars, chnMode, ier, ti, fdVars, taskVars, fault >>

(***************************************************************************)
(* write(), without the mutex: the put, and the jump start if the ring was *)
(* empty before, for which the task calls the interrupt handler.  (A put   *)
(* into a ring that is not empty changes nothing here.)                    *)
(***************************************************************************)
WriteBuf(t, f) ==
  /\ TaskRuns
  /\ pc[t] = "idle" /\ created /\ Undestroyed
  /\ IsChannel(f) /\ Unshared(f)
  /\ info[f].out
  /\ pc' = [pc EXCEPT ![t] = "kick"]
  /\ cur' = [cur EXCEPT ![t] = f]
  /\ UNCHANGED << driverVars, deviceVars, chnMode, chipVars, fdVars, fault >>

(* CAN_TxMsg, which only a channel in transmit mode passes to the controller. *)
Transmits == chnMode[Tx] = "TRANSMIT" /\ online

Kick(t) ==
  /\ TaskRuns
  /\ pc[t] = "kick"
  /\ LET c == info[cur[t]].chn
     IN  IF Live(cur[t]) /\ Live(userData) /\ Live(chnInfo[c]) /\ info[chnInfo[c]].out
         THEN /\ txBusy' = (txBusy \/ (c = Tx /\ Transmits))
              /\ UNCHANGED fault
         ELSE /\ fault' = "pointer"
              /\ UNCHANGED txBusy
  /\ pc' = [pc EXCEPT ![t] = "idle"]
  /\ cur' = [cur EXCEPT ![t] = Null]
  /\ UNCHANGED << driverVars, deviceVars, chnMode, ier, online, ti, fdVars >>

(***************************************************************************)
(* Interrupts.  PR6120_CAN_ISR passes over a controller that is not        *)
(* allocated.                                                              *)
(***************************************************************************)
ChipTransmit ==
  /\ fault = "none"
  /\ txBusy /\ online
  /\ txBusy' = FALSE
  /\ ti' = ("TIE" \in ier)
  /\ UNCHANGED << driverVars, deviceVars, chnMode, ier, online, fdVars, taskVars, fault >>

(* A received frame.  CAN_ReadData releases the receive buffer only if the
   channel is in receive mode: otherwise the interrupt never ends. *)
IsrRx ==
  /\ fault = "none"
  /\ allocated /\ online
  /\ "RIE" \in ier
  /\ fault' = IF ~HandlerFinds(Rx) THEN "pointer"
              ELSE IF chnMode[Rx] # "RECEIVE" THEN "storm"
              ELSE "none"
  /\ UNCHANGED << driverVars, deviceVars, chnMode, chipVars, fdVars, taskVars >>

(* The transmit interrupt: the callbacks TX and TXCLR, the second of which
   sends the next message if the ring has one. *)
IsrTx ==
  /\ fault = "none"
  /\ allocated
  /\ ti
  /\ ti' = FALSE
  /\ IF HandlerFinds(Tx)
     THEN /\ txBusy' \in {FALSE, Transmits}
          /\ UNCHANGED fault
     ELSE /\ fault' = "pointer"
          /\ UNCHANGED txBusy
  /\ UNCHANGED << driverVars, deviceVars, chnMode, ier, online, fdVars, taskVars >>

(* Bus error, wake-up and error warning wake the device's selecters. *)
IsrError ==
  /\ fault = "none"
  /\ allocated /\ online
  /\ "ERR" \in ier
  /\ fault' = IF Live(userData) THEN "none" ELSE "pointer"
  /\ UNCHANGED << driverVars, deviceVars, chnMode, chipVars, fdVars, taskVars >>

Driver == DrvInstall \/ DrvRemove \/ DevCreate

Call(t) ==
  \/ DevDestroyCheck(t) \/ DevDestroyDelete(t) \/ LostCall(t)
  \/ OpenDevice(t) \/ OpenDeviceBusy(t) \/ OpenDeviceInfo(t) \/ OpenDeviceNoMemory(t)
  \/ \E c \in Channel, access \in Access : OpenChannel(t, c, access)
  \/ CloseChannelRings(t) \/ CloseChannelFree(t) \/ CloseDeviceFree(t)
  \/ Kick(t)
  \/ \E f \in open : OrphanCall(t, f)
  \/ \E f \in open \ orphans :
       \/ CloseChannelDisable(t, f) \/ CloseChannelRefused(t, f)
       \/ CloseDeviceRefused(t, f) \/ CloseDeviceStop(t, f)
       \/ ChnEnable(t, f) \/ ChnDisable(t, f)
       \/ Start(t, f) \/ Stop(t, f)
       \/ WriteBuf(t, f)
       \/ \E c \in Channel : ChanGet(t, f, c)
       \/ \E m \in {"RECEIVE", "TRANSMIT", "INACTIVE", "INVALID"} : SetMode(t, f, m)

Interrupt == ChipTransmit \/ IsrRx \/ IsrTx \/ IsrError

Next == Driver \/ Interrupt \/ \E t \in Tasks : Call(t)

Spec == Init /\ [][Next]_vars

(***************************************************************************)
(* Properties.                                                             *)
(***************************************************************************)

(* Every variable stays in its set; in particular the channel count does not
   go below zero. *)
TypeOK ==
  /\ installed \in BOOLEAN
  /\ created \in BOOLEAN
  /\ isDeviceOpen \in BOOLEAN
  /\ numOpenChans \in 0 .. MaxFds
  /\ allocated \in BOOLEAN
  /\ userData \in Fd \cup {Null}
  /\ chnInfo \in [Channel -> Fd \cup {Null, Garbage}]
  /\ chnMode \in [Channel -> {"RECEIVE", "TRANSMIT", "INACTIVE", "INVALID"}]
  /\ ier \subseteq {"RIE", "TIE", "ERR"}
  /\ online \in BOOLEAN
  /\ txBusy \in BOOLEAN
  /\ ti \in BOOLEAN
  /\ info \in [Fd -> [type : {"none", "device", "channel"}, chn : Channel,
                      in : BOOLEAN, out : BOOLEAN, live : BOOLEAN]]
  /\ open \subseteq Fd
  /\ orphans \subseteq Fd /\ overtaken \subseteq Fd
  /\ pc \in [Tasks -> Outside \cup {"opening", "disabled", "ringless", "stopped"}]
  /\ cur \in [Tasks -> Fd \cup {Null}]
  /\ fault \in {"none", "pointer", "storm"}
  /\ client \in Clients

(* Neither an interrupt nor a call follows a pointer that is not there, and
   no interrupt comes that the handler cannot silence: by the time a channel's
   interrupt can arrive its info, ring and mode are in place, and they stay
   until it is masked.  Of what careless clients do only closing the device
   first is harmless here. *)
NoFault == Irregular \subseteq {"device_first"} => fault = "none"

(* Closing all channels lets the device be closed: the driver counts no
   channel that no descriptor of its stands for, unless a channel was closed
   while it had no mode. *)
ClosedChannelsAreGone ==
  "no_mode" \notin Irregular =>
    numOpenChans = Cardinality({ f \in open \ orphans : IsChannel(f) })

(* The controller is free again once the device's descriptor is closed, unless
   its close() came too early or its open() found no memory or lost its
   device. *)
ControllerReleased ==
  allocated /\ Irregular \cap {"device_first", "no_memory"} = {} =>
    \/ \E f \in open : IsDevice(f)
    \/ \E t \in Tasks : pc[t] \in {"opening", "lost"}

(* What is closed is gone, and can be opened again. *)
ClosedIsGone == ClosedChannelsAreGone /\ ControllerReleased

(* "In order to close a device, all channels on that device must be previously
   closed": while a channel is open its device is, and is not destroyed.  The
   one exception is a channel opened when a wncDevIODevDestroy() had already
   done its tests. *)
DeviceOutlivesChannels ==
  \A f \in open : IsChannel(f) =>
    f \in overtaken \/ (isDeviceOpen /\ created /\ Live(userData))

(* What no client can break, however careless: but for that exception the
   device outlives its channels, and the counts and pointers stay in their
   sets. *)
LifeInOrder == TypeOK /\ DeviceOutlivesChannels
=============================================================================
