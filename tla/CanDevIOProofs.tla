--------------------------- MODULE CanDevIOProofs ---------------------------
(***************************************************************************)
(* Proofs about CanDevIO, for any tasks, any kinds of clients and any      *)
(* number of descriptors:                                                  *)
(*   LifeInOrder   whatever clients do, the device outlives its channels,  *)
(*                 but for those opened between the tests and the deletion *)
(*                 of a wncDevIODevDestroy()                               *)
(*   ClosedIsGone  what is closed is gone, and can be opened again         *)
(*   NoFault       neither an interrupt nor a call follows a pointer that  *)
(*                 is not there, if clients keep to the protocol           *)
(*                                                                         *)
(* IInv holds of every client; the two others add what only some clients   *)
(* respect.                                                                *)
(***************************************************************************)
EXTENDS CanDevIO, TLAPS, FiniteSetTheorems

(* Calls that hold the device mutex between two of their steps. *)
Calls   == {"opening", "disabled", "ringless", "stopped"}
Closing == {"disabled", "ringless"}

(* Live channels of the present instance of the device. *)
LiveChannels == { f \in Fd \ orphans : info[f].type = "channel" /\ info[f].live }

(* Descriptors are handed out in order. *)
Allotted == \E n \in 0 .. MaxFds : \A f \in Fd : info[f].type # "none" <=> f <= n

Known ==
  /\ \A f \in open : info[f].live
  /\ \A f \in Fd : info[f].live => info[f].type # "none"

Mutex == \A t, u \in Tasks : pc[t] \in Calls /\ pc[u] \in Calls => t = u

(* What a call under way has seen stays so, because the mutex is held. *)
InCall ==
  \A t \in Tasks :
    /\ pc[t] \in Calls => isDeviceOpen
    /\ pc[t] = "opening" => /\ NextFd <= MaxFds
                            /\ \A f \in Fd : ~info[f].live
    /\ pc[t] \in Closing => IsChannel(cur[t])
    /\ pc[t] = "stopped" => IsDevice(cur[t]) /\ LiveChannels = {} /\ ~online

(* One device at most, the one userData points to. *)
Device ==
  /\ isDeviceOpen => allocated /\ created
  /\ userData # Null => info[userData].type = "device"
  /\ \A f \in Fd : info[f].live /\ info[f].type = "device" =>
       f = userData /\ allocated /\ (f \in orphans \/ isDeviceOpen)

Counted ==
  /\ numOpenChans = Cardinality(LiveChannels)
  /\ LiveChannels # {} => isDeviceOpen /\ Live(userData)

(* Once there are orphans the controller stays allocated, so that no device
   opens again; while a device is destroyed only such descriptors come. *)
Orphaned ==
  /\ orphans # {} => ~isDeviceOpen /\ allocated /\ { f \in Fd : info[f].live } = orphans
  /\ orphans \subseteq overtaken
  /\ (\E t \in Tasks : pc[t] = "destroying") => { f \in Fd : info[f].live } \subseteq overtaken

IInv == TypeOK /\ Allotted /\ Known /\ Mutex /\ InCall /\ Device /\ Counted /\ Orphaned

USE DevIOAssumption DEF Fd, Null, Garbage, Rx, Tx, Channel, Irregular, Outside, lostVars

(***************************************************************************)
(* Descriptors and their number.                                           *)
(***************************************************************************)

(* The next descriptor is the first that was not handed out. *)
LEMMA NextFdFresh ==
  ASSUME TypeOK, Allotted
  PROVE  /\ NextFd \in Nat \ {0}
         /\ \A f \in Fd : info[f].type # "none" <=> f < NextFd
<1>1. PICK n \in 0 .. MaxFds : \A f \in Fd : info[f].type # "none" <=> f <= n
  BY DEF Allotted
<1>2. { f \in Fd : info[f].type # "none" } = 1 .. n
  BY <1>1
<1>3. Cardinality(1 .. n) = n
  BY FS_Interval
<1>4. NextFd = 1 + Cardinality(1 .. n)
  BY <1>2, Zenon DEF NextFd
<1> QED
  BY <1>1, <1>3, <1>4

(* Descriptors can be counted, and so can live channels. *)
LEMMA FdSubsets ==
  ASSUME NEW S \in SUBSET Fd
  PROVE  IsFiniteSet(S) /\ Cardinality(S) \in 0 .. MaxFds
<1>1. IsFiniteSet(Fd) /\ Cardinality(Fd) = MaxFds
  BY FS_Interval
<1>2. IsFiniteSet(S) /\ Cardinality(S) <= MaxFds
  BY <1>1, FS_Subset
<1> QED
  BY <1>2, FS_CardinalityType

LEMMA LiveChannelsFinite ==
  /\ IsFiniteSet(LiveChannels)
  /\ Cardinality(LiveChannels) \in 0 .. MaxFds
BY FdSubsets DEF LiveChannels

LEMMA LiveChannelsCount ==
  (Cardinality(LiveChannels) = 0) <=> (LiveChannels = {})
BY LiveChannelsFinite, FS_EmptySet

(***************************************************************************)
(* IInv holds initially and every step preserves it.                       *)
(***************************************************************************)
LEMMA InitOK ==
  ASSUME Init
  PROVE  IInv
<1> USE DEF Init
<1>1. TypeOK
  <2>1. Unused \in [type : {"none", "device", "channel"}, chn : Channel,
                    in : BOOLEAN, out : BOOLEAN, live : BOOLEAN]
    BY DEF Unused
  <2>2. info \in [Fd -> [type : {"none", "device", "channel"}, chn : Channel,
                         in : BOOLEAN, out : BOOLEAN, live : BOOLEAN]]
    BY <2>1
  <2>3. /\ pc \in [Tasks -> Outside \cup {"opening", "disabled", "ringless", "stopped"}]
        /\ orphans \subseteq Fd /\ overtaken \subseteq Fd
        /\ cur \in [Tasks -> Fd \cup {Null}]
        /\ chnInfo \in [Channel -> Fd \cup {Null, Garbage}]
        /\ chnMode \in [Channel -> {"RECEIVE", "TRANSMIT", "INACTIVE", "INVALID"}]
    OBVIOUS
  <2>4. /\ numOpenChans \in 0 .. MaxFds /\ userData \in Fd \cup {Null}
        /\ ier \subseteq {"RIE", "TIE", "ERR"} /\ open \subseteq Fd
        /\ fault \in {"none", "pointer", "storm"} /\ client \in Clients
    OBVIOUS
  <2> QED
    BY <2>2, <2>3, <2>4, Zenon DEF TypeOK
<1>2. Allotted
  <2>1. \A f \in Fd : info[f].type # "none" <=> f <= 0
    BY DEF Unused
  <2> QED
    BY <2>1 DEF Allotted
<1>3. LiveChannels = {}
  BY DEF LiveChannels, Unused
<1>4. Counted
  BY <1>3, LiveChannelsCount DEF Counted
<1> QED
  BY <1>1, <1>2, <1>4 DEF IInv, Known, Mutex, InCall, Device, Orphaned, Unused, Calls, Closing

(* Steps that leave the device, the descriptors and the calls alone. *)
LEMMA QuietOK ==
  ASSUME IInv, TypeOK',
         UNCHANGED << created, isDeviceOpen, numOpenChans, allocated, userData >>,
         UNCHANGED << fdVars, taskVars >>,
         (\E t \in Tasks : pc[t] = "stopped") => (online' => online)
  PROVE  IInv'
<1> USE DEF IInv, fdVars, taskVars
<1>1. LiveChannels' = LiveChannels /\ NextFd' = NextFd
  BY DEF LiveChannels, NextFd
<1>2. Allotted' /\ Known' /\ Mutex' /\ Device' /\ Counted' /\ Orphaned'
  BY <1>1 DEF Allotted, Known, Mutex, Device, Counted, Orphaned, Live
<1>3. InCall'
  BY <1>1 DEF InCall, IsChannel, IsDevice
<1> QED
  BY <1>2, <1>3

(* Interrupts change no more than that. *)
LEMMA InterruptOK ==
  ASSUME IInv, Interrupt
  PROVE  IInv'
<1> USE DEF driverVars, deviceVars, chipVars, fdVars, taskVars
<1>1. TypeOK'
  <2> USE DEF IInv, TypeOK
  <2>1. CASE ChipTransmit
    <3>1. ti' = TRUE \/ ti' = FALSE
      BY <2>1 DEF ChipTransmit
    <3> QED
      BY <2>1, <3>1 DEF ChipTransmit
  <2>2. CASE IsrRx
    BY <2>2 DEF IsrRx
  <2>3. CASE IsrTx
    BY <2>3 DEF IsrTx, Transmits
  <2>4. CASE IsrError
    BY <2>4 DEF IsrError
  <2> QED
    BY <2>1, <2>2, <2>3, <2>4 DEF Interrupt
<1>2. UNCHANGED << created, isDeviceOpen, numOpenChans, allocated, userData, fdVars, taskVars >>
      /\ online' = online
  BY DEF Interrupt, ChipTransmit, IsrRx, IsrTx, IsrError
<1> QED
  BY <1>1, <1>2, QuietOK

(* Nor do the ioctls, and none runs while the device is being closed. *)
LEMMA IoctlOK ==
  ASSUME IInv, NEW t \in Tasks, NEW f \in open \ orphans,
         \/ ChnEnable(t, f) \/ ChnDisable(t, f) \/ Start(t, f) \/ Stop(t, f)
         \/ \E c \in Channel : ChanGet(t, f, c)
         \/ \E m \in {"RECEIVE", "TRANSMIT", "INACTIVE", "INVALID"} : SetMode(t, f, m)
  PROVE  IInv'
<1> USE DEF driverVars, deviceVars, chipVars, fdVars, taskVars
<1>1. TypeOK'
  <2> USE DEF IInv, TypeOK, IsChannel
  <2>1. CASE ChnEnable(t, f)
    BY <2>1 DEF ChnEnable, EnableChannel, IntBit
  <2>2. CASE ChnDisable(t, f)
    BY <2>2 DEF ChnDisable, DisableChannel
  <2>3. CASE Start(t, f) \/ Stop(t, f)
    BY <2>3 DEF Start, Stop
  <2>4. CASE \E c \in Channel : ChanGet(t, f, c)
    BY <2>4 DEF ChanGet, chnType
  <2>5. CASE \E m \in {"RECEIVE", "TRANSMIT", "INACTIVE", "INVALID"} : SetMode(t, f, m)
    BY <2>5 DEF SetMode
  <2> QED
    BY <2>1, <2>2, <2>3, <2>4, <2>5
<1>2. UNCHANGED << created, isDeviceOpen, numOpenChans, allocated, userData, fdVars, taskVars >>
      /\ \A u \in Tasks : pc[u] # "stopped"
  BY DEF ChnEnable, ChnDisable, Start, Stop, ChanGet, SetMode, MayCall, MutexFree
<1> QED
  BY <1>1, <1>2, QuietOK

(* Nor does an open() that fails on an allocated controller. *)
LEMMA OpenDeviceBusyOK ==
  ASSUME IInv, NEW t \in Tasks, OpenDeviceBusy(t)
  PROVE  IInv'
<1> USE DEF driverVars, deviceVars, chipVars, fdVars, taskVars
<1>1. TypeOK' /\ online' = online
  BY DEF IInv, TypeOK, OpenDeviceBusy
<1>2. UNCHANGED << created, isDeviceOpen, numOpenChans, allocated, userData, fdVars, taskVars >>
  BY DEF OpenDeviceBusy
<1> QED
  BY <1>1, <1>2, QuietOK

(* A call waits until no other is under way. *)
LEMMA CallStarts ==
  ASSUME NEW t, MayCall(t)
  PROVE  /\ pc[t] = "idle"
         /\ created
         /\ \A u \in Tasks : pc[u] \in Outside
BY DEF MayCall, MutexFree

(* A device that is open, a free controller and a descriptor of the present
   instance: each shows that there are no orphans. *)
LEMMA NoOrphans ==
  ASSUME IInv, isDeviceOpen \/ ~allocated \/ open \ orphans # {}
  PROVE  orphans = {}
BY DEF IInv, TypeOK, Known, Orphaned

LEMMA NoOrphansInCall ==
  ASSUME IInv, NEW t \in Tasks, pc[t] \in Calls
  PROVE  isDeviceOpen /\ orphans = {}
BY NoOrphans DEF IInv, InCall

(* Nor are there any afterwards. *)
LEMMA OrphanedStays ==
  ASSUME IInv, orphans = {}, orphans' = orphans,
         overtaken \subseteq overtaken',
         \A t \in Tasks : pc'[t] = "destroying" => pc[t] = "destroying",
         \A f \in Fd : info'[f].live =>
           \/ info[f].live
           \/ f \in overtaken'
           \/ \A t \in Tasks : pc[t] # "destroying"
  PROVE  Orphaned'
BY DEF IInv, Orphaned

(* The controller is free, or the device closed, only when no descriptor of
   this instance is live. *)
LEMMA NothingLive ==
  ASSUME IInv, ~allocated
  PROVE  \A f \in Fd : ~info[f].live
<1>1. orphans = {}
  BY NoOrphans
<1> QED
  BY <1>1 DEF IInv, TypeOK, Known, Device, Counted, LiveChannels

LEMMA ClosedIsDead ==
  ASSUME IInv, ~isDeviceOpen
  PROVE  /\ LiveChannels = {} /\ numOpenChans = 0
         /\ { f \in Fd : info[f].live } = orphans
         /\ \A t \in Tasks : pc[t] \notin Calls
<1>1. LiveChannels = {} /\ numOpenChans = 0
  BY LiveChannelsCount DEF IInv, Counted
<1>2. \A f \in Fd : info[f].live => f \in orphans
  BY <1>1 DEF IInv, TypeOK, Known, Device, LiveChannels
<1>3. { f \in Fd : info[f].live } = orphans
  BY <1>2 DEF IInv, TypeOK, Orphaned
<1> QED
  BY <1>1, <1>3 DEF IInv, InCall

LEMMA DriverOK ==
  ASSUME IInv, Driver
  PROVE  IInv'
<1> USE DEF driverVars, deviceVars, chipVars, fdVars, taskVars
<1>1. CASE DrvInstall \/ DrvRemove
  <2>1. TypeOK'
    BY <1>1 DEF IInv, TypeOK, DrvInstall, DrvRemove
  <2>2. UNCHANGED << created, isDeviceOpen, numOpenChans, allocated, userData, fdVars, taskVars >>
        /\ online' = online
    BY <1>1 DEF DrvInstall, DrvRemove
  <2> QED
    BY <2>1, <2>2, QuietOK
<1>2. CASE DevCreate
  <2>1. ~isDeviceOpen /\ numOpenChans = 0
    BY <1>2, ClosedIsDead DEF IInv, DevCreate, Device
  <2>2. /\ UNCHANGED << installed, client, allocated, userData, chnInfo, chnMode,
                        ier, online, txBusy, ti, info, open, orphans, overtaken, pc, cur, fault >>
        /\ created' = TRUE
        /\ isDeviceOpen' = isDeviceOpen /\ numOpenChans' = numOpenChans
    BY <1>2, <2>1 DEF IInv, TypeOK, DevCreate
  <2>3. TypeOK'
    BY <2>2 DEF IInv, TypeOK
  <2>4. LiveChannels' = LiveChannels /\ NextFd' = NextFd
    BY <2>2 DEF LiveChannels, NextFd
  <2> QED
    BY <2>2, <2>3, <2>4
    DEF IInv, Allotted, Known, Mutex, InCall, Device, Counted, Orphaned, Live, IsChannel, IsDevice
<1> QED
  BY <1>1, <1>2 DEF Driver

(* The tests of wncDevIODevDestroy: what is live is an orphan. *)
LEMMA DestroyCheckOK ==
  ASSUME IInv, NEW t \in Tasks, DevDestroyCheck(t)
  PROVE  IInv'
<1> USE DEF driverVars, deviceVars, chipVars, fdVars
<1>1. /\ UNCHANGED << installed, client, created, isDeviceOpen, numOpenChans, allocated, userData,
                      chnInfo, chnMode, ier, online, txBusy, ti, info, open, orphans, overtaken,
                      cur, fault >>
      /\ ~isDeviceOpen /\ pc[t] = "idle"
      /\ pc' = [pc EXCEPT ![t] = "destroying"]
  BY DEF DevDestroyCheck
<1>2. /\ pc'[t] = "destroying"
      /\ \A u \in Tasks : u # t => pc'[u] = pc[u]
      /\ pc' \in [Tasks -> Outside \cup {"opening", "disabled", "ringless", "stopped"}]
  BY <1>1 DEF IInv, TypeOK
<1>3. TypeOK'
  BY <1>1, <1>2 DEF IInv, TypeOK
<1>4. LiveChannels' = LiveChannels /\ NextFd' = NextFd
  BY <1>1 DEF LiveChannels, NextFd
<1>5. Mutex' /\ InCall'
  BY <1>1, <1>2, <1>4 DEF IInv, Mutex, InCall, Calls, Closing, IsChannel, IsDevice
<1>6. Orphaned'
  <2>1. { f \in Fd : info[f].live } = orphans
    BY <1>1, ClosedIsDead
  <2> QED
    BY <1>1, <2>1 DEF IInv, Orphaned
<1> QED
  BY <1>1, <1>3, <1>4, <1>5, <1>6 DEF IInv, Allotted, Known, Device, Counted, Live

(* Who is in a call is lost; if clients are not careless, nobody else is. *)
LEMMA CaughtTasks ==
  ASSUME NEW t \in Tasks, DevDestroyDelete(t)
  PROVE  /\ pc[t] = "destroying" /\ pc'[t] = "idle"
         /\ pc' \in [Tasks -> {"idle", "lost"}]
         /\ \A u \in Tasks \ {t} : pc[u] # "idle" => pc'[u] = "lost"
         /\ "concurrent" \notin Irregular =>
              \A u \in Tasks : pc[u] = "idle" => pc'[u] = "idle"
<1>1. PICK caught \in SUBSET (Tasks \ {t}) :
        /\ \A u \in Tasks \ {t} : pc[u] # "idle" => u \in caught
        /\ "concurrent" \in Irregular \/ \A u \in caught : pc[u] # "idle"
        /\ pc' = [u \in Tasks |-> IF u \in caught THEN "lost" ELSE "idle"]
  BY DEF DevDestroyDelete
<1>2. pc[t] = "destroying"
  BY DEF DevDestroyDelete
<1> QED
  BY <1>1, <1>2

(* Its deletion: whatever is live came after the tests, and is an orphan. *)
LEMMA DestroyDeleteOK ==
  ASSUME IInv, NEW t \in Tasks, DevDestroyDelete(t)
  PROVE  IInv'
<1>1. /\ UNCHANGED << installed, client, allocated, userData, chnInfo, chnMode, ier, online,
                      txBusy, ti, info, open, overtaken, cur, fault >>
      /\ created' = FALSE /\ isDeviceOpen' = FALSE /\ numOpenChans' = 0
      /\ orphans' = { f \in Fd : info[f].live }
      /\ pc[t] = "destroying"
  BY DEF DevDestroyDelete, chipVars
<1>2. /\ \A u \in Tasks : pc'[u] \in {"idle", "lost"}
      /\ pc' \in [Tasks -> Outside \cup {"opening", "disabled", "ringless", "stopped"}]
  BY CaughtTasks
<1>3. TypeOK'
  <2>1. orphans' \subseteq Fd
    BY <1>1
  <2>2. numOpenChans' \in 0 .. MaxFds
    BY <1>1
  <2> QED
    BY <1>1, <1>2, <2>1, <2>2, ZenonT(30) DEF IInv, TypeOK
<1>4. LiveChannels' = {}
  BY <1>1 DEF LiveChannels
<1>5. Counted'
  BY <1>1, <1>4, FS_EmptySet DEF Counted
<1>6. Mutex' /\ InCall'
  BY <1>2 DEF Mutex, InCall, Calls, Closing
<1>7. Orphaned'
  <2>1. orphans' # {} => allocated
    BY <1>1, NothingLive
  <2>2. orphans' \subseteq overtaken'
    BY <1>1 DEF IInv, Orphaned
  <2> QED
    BY <1>1, <1>2, <2>1, <2>2 DEF Orphaned
<1>8. Device'
  BY <1>1 DEF IInv, Device
<1> QED
  BY <1>1, <1>3, <1>5, <1>6, <1>7, <1>8 DEF IInv, Allotted, Known

(* Whoever still calls a destroyed device only fails. *)
LEMMA LostOK ==
  ASSUME IInv, NEW t \in Tasks, LostCall(t) \/ \E f \in open : OrphanCall(t, f)
  PROVE  IInv'
<1> USE DEF driverVars, deviceVars, chipVars, fdVars, taskVars
<1>1. TypeOK' /\ online' = online
  BY DEF IInv, TypeOK, LostCall, OrphanCall
<1>2. UNCHANGED << created, isDeviceOpen, numOpenChans, allocated, userData, fdVars, taskVars >>
  BY DEF LostCall, OrphanCall
<1> QED
  BY <1>1, <1>2, QuietOK

LEMMA OpenDeviceOK ==
  ASSUME IInv, NEW t \in Tasks, OpenDevice(t)
  PROVE  IInv'
<1> USE DEF driverVars, fdVars
<1>1. /\ UNCHANGED << numOpenChans, userData, info, open, orphans, overtaken, created, cur >>
      /\ ~allocated /\ allocated' = TRUE /\ isDeviceOpen' = TRUE
      /\ pc' = [pc EXCEPT ![t] = "opening"]
      /\ NextFd <= client.fds
  BY DEF OpenDevice, CanOpen
<1>2. client.fds <= MaxFds
  BY DEF IInv, TypeOK
<1>3. TypeOK'
  BY DEF IInv, TypeOK, OpenDevice, CanOpen, CanInit, EnableInt
<1>4. LiveChannels' = LiveChannels /\ NextFd' = NextFd
  BY <1>1 DEF LiveChannels, NextFd
<1>5. \A u \in Tasks : pc[u] \in Outside
  BY CallStarts DEF OpenDevice
<1>6. Allotted' /\ Known' /\ Mutex'
  <2>1. Allotted' /\ Known'
    BY <1>1 DEF IInv, Allotted, Known
  <2>2. Mutex'
    BY <1>1, <1>5 DEF IInv, Mutex, Calls, TypeOK
  <2> QED
    BY <2>1, <2>2
<1>7. InCall'
  <2>1. NextFd \in Nat
    BY NextFdFresh DEF IInv
  <2> QED
    BY <1>1, <1>2, <1>4, <1>5, <2>1, NothingLive DEF IInv, InCall, TypeOK, Closing
<1>8. Device' /\ Counted'
  BY <1>1, <1>4, CallStarts DEF OpenDevice, IInv, Device, Counted, Live
<1>9. Orphaned'
  <2>1. orphans = {}
    BY <1>1, NoOrphans
  <2>2. \A u \in Tasks : pc'[u] = "destroying" => pc[u] = "destroying"
    BY <1>1 DEF IInv, TypeOK
  <2> QED
    BY <1>1, <2>1, <2>2, OrphanedStays
<1> QED
  BY <1>3, <1>6, <1>7, <1>8, <1>9 DEF IInv

(* While the device opens nothing is live: its info is the only one. *)
LEMMA OpenDeviceInfoOK ==
  ASSUME IInv, NEW t \in Tasks, OpenDeviceInfo(t)
  PROVE  IInv'
<1> USE DEF driverVars, chipVars
<1>1. /\ UNCHANGED << isDeviceOpen, numOpenChans, allocated, created, cur >>
      /\ info' = [info EXCEPT ![NextFd] = [Unused EXCEPT !.type = "device", !.live = TRUE]]
      /\ open' = open \cup {NextFd}
      /\ orphans' = orphans
      /\ overtaken' = IF \E u \in Tasks : pc[u] = "destroying"
                      THEN overtaken \cup {NextFd} ELSE overtaken
      /\ userData' = NextFd
      /\ pc' = [pc EXCEPT ![t] = "idle"]
      /\ pc[t] = "opening"
  BY DEF OpenDeviceInfo, NewFd
<1>2. /\ isDeviceOpen /\ allocated /\ created
      /\ NextFd \in Fd
      /\ \A f \in Fd : ~info[f].live
      /\ \A f \in Fd : info[f].type # "none" <=> f < NextFd
      /\ orphans = {}
  BY <1>1, NextFdFresh, NoOrphansInCall DEF IInv, InCall, Device, Calls
<1>3. /\ info' \in [Fd -> [type : {"none", "device", "channel"}, chn : Channel,
                          in : BOOLEAN, out : BOOLEAN, live : BOOLEAN]]
      /\ info'[NextFd].type = "device" /\ info'[NextFd].live
      /\ \A f \in Fd : f # NextFd => info'[f] = info[f]
  BY <1>1, <1>2 DEF IInv, TypeOK, Unused
<1>4. TypeOK'
  <2>1. UNCHANGED << installed, client, chnMode, ier, online, txBusy, ti, fault >>
        /\ chnInfo' = [c \in Channel |-> Garbage]
    BY DEF OpenDeviceInfo
  <2>2. overtaken' \subseteq Fd /\ pc' \in [Tasks -> Outside \cup {"opening", "disabled", "ringless", "stopped"}]
    BY <1>1, <1>2 DEF IInv, TypeOK
  <2> QED
    BY <1>1, <1>2, <1>3, <2>1, <2>2 DEF IInv, TypeOK
<1>5. Allotted'
  <2>1. \A f \in Fd : info'[f].type # "none" <=> f <= NextFd
    BY <1>2, <1>3, NextFdFresh DEF IInv
  <2>2. NextFd \in 0 .. MaxFds
    BY <1>2
  <2> QED
    BY <2>1, <2>2 DEF Allotted
<1>6. LiveChannels = {} /\ LiveChannels' = {}
  BY <1>2, <1>3 DEF LiveChannels
<1>7. Known' /\ Mutex'
  BY <1>1, <1>2, <1>3 DEF IInv, TypeOK, Known, Mutex, Calls
<1>8. InCall'
  BY <1>1, <1>2 DEF IInv, TypeOK, InCall, Mutex, Calls, Closing
<1>9. Device' /\ Counted'
  BY <1>1, <1>2, <1>3, <1>6 DEF IInv, Device, Counted
<1>10. Orphaned'
  <2>1. \A u \in Tasks : pc'[u] = "destroying" => pc[u] = "destroying"
    BY <1>1 DEF IInv, TypeOK
  <2> QED
    BY <1>1, <1>2, <1>3, <2>1, OrphanedStays
<1> QED
  BY <1>4, <1>5, <1>7, <1>8, <1>9, <1>10 DEF IInv

LEMMA OpenDeviceNoMemoryOK ==
  ASSUME IInv, NEW t \in Tasks, OpenDeviceNoMemory(t)
  PROVE  IInv'
<1> USE DEF driverVars, deviceVars, chipVars, fdVars
<1>1. TypeOK'
  BY DEF IInv, TypeOK, OpenDeviceNoMemory
<1>2. LiveChannels' = LiveChannels /\ NextFd' = NextFd
  BY DEF LiveChannels, NextFd, OpenDeviceNoMemory
<1>3. /\ UNCHANGED << created, isDeviceOpen, numOpenChans, allocated, userData, info, open,
                      orphans, overtaken, cur, online >>
      /\ pc' = [pc EXCEPT ![t] = "idle"]
  BY DEF OpenDeviceNoMemory
<1>4. /\ pc'[t] = "idle"
      /\ \A u \in Tasks : u # t => pc'[u] = pc[u]
  BY <1>3 DEF IInv, TypeOK
<1>5. Mutex' /\ InCall'
  BY <1>2, <1>3, <1>4 DEF IInv, Mutex, InCall, Calls, Closing, IsChannel, IsDevice
<1>6. Allotted' /\ Known' /\ Device' /\ Counted' /\ Orphaned'
  BY <1>2, <1>3, <1>4 DEF IInv, Allotted, Known, Device, Counted, Orphaned, Live
<1> QED
  BY <1>1, <1>5, <1>6 DEF IInv

LEMMA OpenChannelOK ==
  ASSUME IInv, NEW t \in Tasks, NEW c \in Channel, NEW access \in Access,
         OpenChannel(t, c, access)
  PROVE  IInv'
<1> USE DEF driverVars, chipVars, taskVars
<1>1. UNCHANGED << isDeviceOpen, allocated, userData, created, pc, cur, online >>
  BY DEF OpenChannel
<1>2. \A u \in Tasks : pc[u] \in Outside
  BY CallStarts DEF OpenChannel
<1>3. Mutex' /\ InCall'
  BY <1>1, <1>2 DEF IInv, InCall, Mutex, Calls, Closing
<1>4. orphans = {}
  BY NoOrphans DEF OpenChannel
<1>5. CASE ~Live(userData)
  <2>1. TypeOK'
    BY <1>5 DEF IInv, TypeOK, OpenChannel, fdVars
  <2>2. UNCHANGED << info, open, orphans, overtaken, numOpenChans >>
    BY <1>5 DEF OpenChannel, fdVars
  <2>3. LiveChannels' = LiveChannels
    BY <2>2 DEF LiveChannels
  <2> QED
    BY <1>1, <1>3, <2>1, <2>2, <2>3 DEF IInv, Allotted, Known, Device, Counted, Orphaned, Live
<1>6. CASE Live(userData)
  <2>1. /\ info' = [info EXCEPT ![NextFd] = [type |-> "channel", chn |-> c, in |-> access.in,
                                             out |-> access.out, live |-> TRUE]]
        /\ open' = open \cup {NextFd}
        /\ orphans' = orphans
        /\ overtaken' = IF \E u \in Tasks : pc[u] = "destroying"
                        THEN overtaken \cup {NextFd} ELSE overtaken
        /\ chnInfo' = [chnInfo EXCEPT ![c] = NextFd]
        /\ numOpenChans' = numOpenChans + 1
        /\ fault' = fault
        /\ isDeviceOpen
        /\ NextFd <= client.fds
    BY <1>6 DEF OpenChannel, NewFd
  <2>2. /\ NextFd \in Fd
        /\ \A f \in Fd : info[f].type # "none" <=> f < NextFd
    <3>1. client.fds \in 0 .. MaxFds
      BY DEF IInv, TypeOK
    <3> QED
      BY <2>1, <3>1, NextFdFresh DEF IInv
  <2>3. access.in \in BOOLEAN /\ access.out \in BOOLEAN
    BY DEF Access
  <2>4. /\ info' \in [Fd -> [type : {"none", "device", "channel"}, chn : Channel,
                            in : BOOLEAN, out : BOOLEAN, live : BOOLEAN]]
        /\ info'[NextFd].type = "channel" /\ info'[NextFd].live
        /\ \A f \in Fd : f # NextFd => info'[f] = info[f]
    BY <2>1, <2>2, <2>3 DEF IInv, TypeOK
  <2>5. LiveChannels' = LiveChannels \cup {NextFd} /\ NextFd \notin LiveChannels
    BY <1>4, <2>1, <2>2, <2>4 DEF LiveChannels
  <2>6. numOpenChans' = Cardinality(LiveChannels') /\ numOpenChans' \in 0 .. MaxFds
    <3>1. Cardinality(LiveChannels') = Cardinality(LiveChannels) + 1
      BY <2>5, LiveChannelsFinite, FS_AddElement
    <3>2. LiveChannels' \in SUBSET Fd
      BY DEF LiveChannels
    <3>3. Cardinality(LiveChannels') \in 0 .. MaxFds
      BY <3>2, FdSubsets
    <3> QED
      BY <2>1, <3>1, <3>3 DEF IInv, Counted
  <2>7. TypeOK'
    <3>1. chnInfo' \in [Channel -> Fd \cup {Null, Garbage}]
      BY <2>1, <2>2 DEF IInv, TypeOK
    <3>2. UNCHANGED << installed, client, chnMode, ier, txBusy, ti >>
          /\ overtaken' \subseteq Fd
      BY <2>1, <2>2 DEF OpenChannel, IInv, TypeOK
    <3> QED
      BY <1>1, <2>1, <2>2, <2>4, <2>6, <3>1, <3>2 DEF IInv, TypeOK
  <2>8. Allotted'
    <3>1. \A f \in Fd : info'[f].type # "none" <=> f <= NextFd
      BY <2>2, <2>4, NextFdFresh DEF IInv
    <3>2. NextFd \in 0 .. MaxFds
      BY <2>2
    <3> QED
      BY <3>1, <3>2 DEF Allotted
  <2>9. Known'
    BY <2>1, <2>2, <2>4 DEF IInv, TypeOK, Known
  <2>10. Device'
    BY <1>1, <2>1, <2>2, <2>4 DEF IInv, TypeOK, Device
  <2>11. Counted'
    <3>1. userData # NextFd
      BY <1>6, <2>2 DEF IInv, Known, Live
    <3>2. Live(userData)'
      BY <1>1, <1>6, <2>4, <3>1 DEF Live
    <3> QED
      BY <1>1, <2>1, <2>6, <3>2 DEF Counted
  <2>12. Orphaned'
    BY <1>1, <1>4, <2>1, <2>4, OrphanedStays
  <2> QED
    BY <1>3, <2>7, <2>8, <2>9, <2>10, <2>11, <2>12 DEF IInv
<1> QED
  BY <1>5, <1>6

(* Closing a channel: only the last step takes its descriptor away. *)
LEMMA CloseChannelStartOK ==
  ASSUME IInv, NEW t \in Tasks, NEW f \in open \ orphans, CloseChannelDisable(t, f)
  PROVE  IInv'
<1> USE DEF driverVars, deviceVars, fdVars
<1>1. /\ UNCHANGED << created, isDeviceOpen, numOpenChans, allocated, userData, info, open,
                      orphans, overtaken >>
      /\ IsChannel(f)
      /\ pc' = [pc EXCEPT ![t] = "disabled"]
      /\ cur' = [cur EXCEPT ![t] = f]
  BY DEF CloseChannelDisable
<1>2. \A u \in Tasks : pc[u] \in Outside
  BY CallStarts DEF CloseChannelDisable
<1>3. TypeOK'
  BY DEF IInv, TypeOK, CloseChannelDisable, DisableChannel
<1>4. LiveChannels' = LiveChannels
  BY <1>1 DEF LiveChannels
<1>5. isDeviceOpen
  BY <1>1 DEF IInv, TypeOK, Known, Counted, IsChannel, LiveChannels
<1>6. Mutex' /\ InCall'
  <2>1. cur \in [Tasks -> Fd \cup {Null}] /\ pc \in [Tasks -> Outside \cup Calls]
    BY DEF IInv, TypeOK, Calls
  <2>2. \A u \in Tasks : pc'[u] \in Calls => u = t
    BY <1>1, <1>2, <2>1 DEF Outside, Calls
  <2>3. pc'[t] = "disabled" /\ cur'[t] = f /\ IsChannel(f)'
    BY <1>1, <2>1 DEF IsChannel
  <2> QED
    BY <1>1, <1>5, <2>2, <2>3 DEF Mutex, InCall, Calls, Closing
<1>7. Orphaned'
  BY <1>1, <1>5 DEF IInv, TypeOK, Orphaned
<1> QED
  BY <1>1, <1>3, <1>4, <1>6, <1>7 DEF IInv, Allotted, Known, Device, Counted, Live

(* The I/O system forgets a descriptor whose close() failed; it stays live. *)
LEMMA CloseRefusedOK ==
  ASSUME IInv, NEW t \in Tasks, NEW f \in open \ orphans,
         CloseChannelRefused(t, f) \/ CloseDeviceRefused(t, f)
  PROVE  IInv'
<1> USE DEF driverVars, deviceVars, chipVars, taskVars
<1>1. /\ UNCHANGED << created, isDeviceOpen, numOpenChans, allocated, userData, info,
                      orphans, overtaken, pc, cur, online >>
      /\ open' = open \ {f}
  BY DEF CloseChannelRefused, CloseDeviceRefused
<1>2. \A u \in Tasks : pc[u] \in Outside
  BY CallStarts DEF CloseChannelRefused, CloseDeviceRefused
<1>3. TypeOK'
  BY ZenonT(30) DEF IInv, TypeOK, CloseChannelRefused, CloseDeviceRefused
<1>4. LiveChannels' = LiveChannels
  BY <1>1 DEF LiveChannels
<1>5. Mutex' /\ InCall'
  BY <1>1, <1>2 DEF IInv, TypeOK, Mutex, InCall, Calls, Closing
<1> QED
  BY <1>1, <1>3, <1>4, <1>5 DEF IInv, Allotted, Known, Device, Counted, Orphaned, Live

(* The one call under way. *)
LEMMA OneCall ==
  ASSUME IInv, NEW t \in Tasks, pc[t] \in Calls
  PROVE  \A u \in Tasks : u # t => pc[u] \in Outside
BY DEF IInv, TypeOK, Mutex, Calls

LEMMA CloseChannelRingsOK ==
  ASSUME IInv, NEW t \in Tasks, CloseChannelRings(t)
  PROVE  IInv'
<1> USE DEF driverVars, deviceVars, chipVars
<1>1. /\ UNCHANGED << created, isDeviceOpen, numOpenChans, allocated, userData, open,
                      orphans, overtaken, cur >>
      /\ pc[t] = "disabled"
      /\ pc' = [pc EXCEPT ![t] = "ringless"]
      /\ info' = [info EXCEPT ![cur[t]].in = FALSE, ![cur[t]].out = FALSE]
  BY DEF CloseChannelRings
<1>2. IsChannel(cur[t]) /\ cur[t] \in Fd
  BY <1>1 DEF IInv, TypeOK, InCall, IsChannel, Closing
<1>3. /\ info' \in [Fd -> [type : {"none", "device", "channel"}, chn : Channel,
                          in : BOOLEAN, out : BOOLEAN, live : BOOLEAN]]
      /\ \A f \in Fd : info'[f].type = info[f].type /\ info'[f].live = info[f].live
  <2> DEFINE Record == [type : {"none", "device", "channel"}, chn : Channel,
                        in : BOOLEAN, out : BOOLEAN, live : BOOLEAN]
             new == [info[cur[t]] EXCEPT !.in = FALSE, !.out = FALSE]
  <2>1. info' = [info EXCEPT ![cur[t]] = new]
    BY <1>1, <1>2 DEF IInv, TypeOK
  <2>2. info \in [Fd -> Record]
    BY DEF IInv, TypeOK
  <2>3. new \in Record /\ new.type = info[cur[t]].type /\ new.live = info[cur[t]].live
    BY <1>2, <2>2
  <2> HIDE DEF new, Record
  <2>4. info' \in [Fd -> Record]
    BY <1>2, <2>1, <2>2, <2>3
  <2>5. ASSUME NEW f \in Fd
        PROVE  info'[f].type = info[f].type /\ info'[f].live = info[f].live
    BY <1>2, <2>1, <2>2, <2>3
  <2> QED
    BY <2>4, <2>5 DEF Record
<1>4. TypeOK'
  BY <1>2, <1>3 DEF IInv, TypeOK, CloseChannelRings, FreeChannel
<1>5. LiveChannels' = LiveChannels
  BY <1>1, <1>3 DEF LiveChannels
<1>6. \A u \in Tasks : u # t => pc[u] \in Outside
  BY <1>1, OneCall DEF Calls
<1>7. isDeviceOpen /\ orphans = {}
  BY <1>1, NoOrphansInCall DEF Calls
<1>8. Mutex' /\ InCall'
  BY <1>1, <1>2, <1>3, <1>6, <1>7 DEF IInv, TypeOK, Mutex, InCall, Calls, Closing, IsChannel
<1>9. Allotted' /\ Known'
  BY <1>1, <1>3 DEF IInv, TypeOK, Allotted, Known
<1>10. Device' /\ Counted'
  BY <1>1, <1>3, <1>5 DEF IInv, TypeOK, Device, Counted, Live
<1>11. Orphaned'
  <2>1. \A u \in Tasks : pc'[u] = "destroying" => pc[u] = "destroying"
    BY <1>1 DEF IInv, TypeOK
  <2> QED
    BY <1>1, <1>3, <1>7, <2>1, OrphanedStays
<1> QED
  BY <1>4, <1>8, <1>9, <1>10, <1>11 DEF IInv

(* Freeing a descriptor's memory. *)
LEMMA InfoFreed ==
  ASSUME IInv, NEW f \in Fd, info' = [info EXCEPT ![f].live = FALSE]
  PROVE  /\ info' \in [Fd -> [type : {"none", "device", "channel"}, chn : Channel,
                             in : BOOLEAN, out : BOOLEAN, live : BOOLEAN]]
         /\ ~info'[f].live
         /\ \A g \in Fd : info'[g].type = info[g].type
         /\ \A g \in Fd : g # f => info'[g] = info[g]
<1> DEFINE Record == [type : {"none", "device", "channel"}, chn : Channel,
                      in : BOOLEAN, out : BOOLEAN, live : BOOLEAN]
           new == [info[f] EXCEPT !.live = FALSE]
<1>1. info' = [info EXCEPT ![f] = new] /\ info \in [Fd -> Record]
  BY DEF IInv, TypeOK
<1>2. new \in Record /\ new.type = info[f].type /\ ~new.live
  BY <1>1
<1> HIDE DEF new, Record
<1>3. /\ info' \in [Fd -> Record]
      /\ ~info'[f].live
      /\ \A g \in Fd : info'[g].type = info[g].type
      /\ \A g \in Fd : g # f => info'[g] = info[g]
  BY <1>1, <1>2
<1> QED
  BY <1>3 DEF Record

LEMMA CloseChannelFreeOK ==
  ASSUME IInv, NEW t \in Tasks, CloseChannelFree(t)
  PROVE  IInv'
<1> USE DEF driverVars, chipVars
<1>1. /\ UNCHANGED << created, isDeviceOpen, allocated, userData, online >>
      /\ pc[t] = "ringless"
      /\ pc' = [pc EXCEPT ![t] = "idle"]
      /\ cur' = [cur EXCEPT ![t] = Null]
  BY DEF CloseChannelFree
<1>2. /\ IsChannel(cur[t]) /\ cur[t] \in Fd /\ info[cur[t]].live
      /\ orphans = {}
      /\ cur[t] \in LiveChannels
  BY <1>1, NoOrphansInCall
  DEF IInv, TypeOK, InCall, IsChannel, Calls, Closing, Known, LiveChannels
<1>3. isDeviceOpen /\ Live(userData)
  BY <1>2 DEF IInv, Counted
<1>4. /\ info' = [info EXCEPT ![cur[t]].live = FALSE]
      /\ open' = open \ {cur[t]}
      /\ chnInfo' = [chnInfo EXCEPT ![info[cur[t]].chn] = Null]
      /\ numOpenChans' = numOpenChans - 1
      /\ UNCHANGED << orphans, overtaken, fault >>
  BY <1>3 DEF CloseChannelFree
<1>5. /\ info' \in [Fd -> [type : {"none", "device", "channel"}, chn : Channel,
                          in : BOOLEAN, out : BOOLEAN, live : BOOLEAN]]
      /\ ~info'[cur[t]].live
      /\ \A f \in Fd : info'[f].type = info[f].type
      /\ \A f \in Fd : f # cur[t] => info'[f] = info[f]
  BY <1>2, <1>4, InfoFreed
<1>6. LiveChannels' = LiveChannels \ {cur[t]}
  BY <1>4, <1>5 DEF LiveChannels
<1>7. numOpenChans' = Cardinality(LiveChannels') /\ numOpenChans' \in 0 .. MaxFds
  <2>1. Cardinality(LiveChannels') = Cardinality(LiveChannels) - 1
    BY <1>2, <1>6, LiveChannelsFinite, FS_RemoveElement, ZenonT(30)
  <2>2. LiveChannels' \in SUBSET Fd
    BY DEF LiveChannels
  <2>3. Cardinality(LiveChannels') \in 0 .. MaxFds
    BY <2>2, FdSubsets
  <2> QED
    BY <1>4, <2>1, <2>3 DEF IInv, Counted
<1>8. TypeOK'
  <2>1. UNCHANGED << installed, client, chnMode, ier, txBusy, ti >>
    BY DEF CloseChannelFree
  <2>2. chnInfo' \in [Channel -> Fd \cup {Null, Garbage}]
    BY <1>2, <1>4 DEF IInv, TypeOK
  <2> QED
    BY <1>1, <1>4, <1>5, <1>7, <2>1, <2>2 DEF IInv, TypeOK
<1>9. \A u \in Tasks : u # t => pc[u] \in Outside
  BY <1>1, OneCall DEF Calls
<1>10. Mutex' /\ InCall'
  BY <1>1, <1>3, <1>9 DEF IInv, TypeOK, Mutex, InCall, Calls, Closing
<1>11. Allotted' /\ Known'
  BY <1>4, <1>5 DEF IInv, TypeOK, Allotted, Known
<1>12. userData # cur[t]
  BY <1>2, <1>3 DEF IInv, IsChannel, Device, Live
<1>13. Device' /\ Counted'
  BY <1>1, <1>3, <1>4, <1>5, <1>7, <1>12 DEF IInv, Device, Counted, Live
<1>14. Orphaned'
  <2>1. \A u \in Tasks : pc'[u] = "destroying" => pc[u] = "destroying"
    BY <1>1 DEF IInv, TypeOK
  <2> QED
    BY <1>2, <1>4, <1>5, <2>1, OrphanedStays
<1> QED
  BY <1>8, <1>10, <1>11, <1>13, <1>14 DEF IInv

LEMMA CloseDeviceStopOK ==
  ASSUME IInv, NEW t \in Tasks, NEW f \in open \ orphans, CloseDeviceStop(t, f)
  PROVE  IInv'
<1> USE DEF driverVars, deviceVars, fdVars
<1>1. /\ UNCHANGED << created, isDeviceOpen, numOpenChans, allocated, userData, info, open,
                      orphans, overtaken >>
      /\ IsDevice(f) /\ numOpenChans = 0 /\ online' = FALSE
      /\ pc' = [pc EXCEPT ![t] = "stopped"]
      /\ cur' = [cur EXCEPT ![t] = f]
  BY DEF CloseDeviceStop, Silence
<1>2. \A u \in Tasks : pc[u] \in Outside
  BY CallStarts DEF CloseDeviceStop
<1>3. TypeOK'
  <2>1. ti' = TRUE \/ ti' = FALSE
    BY DEF CloseDeviceStop, Silence
  <2>2. UNCHANGED << installed, client, chnInfo, chnMode, fault >>
        /\ txBusy' = FALSE /\ ier' = {}
    BY DEF CloseDeviceStop, Silence
  <2> QED
    BY <1>1, <2>1, <2>2 DEF IInv, TypeOK
<1>4. LiveChannels' = LiveChannels /\ LiveChannels = {}
  BY <1>1, LiveChannelsCount DEF LiveChannels, IInv, Counted
<1>5. isDeviceOpen
  BY <1>1 DEF IInv, TypeOK, Known, Device, IsDevice
<1>6. Mutex' /\ InCall'
  BY <1>1, <1>2, <1>4, <1>5 DEF IInv, TypeOK, Mutex, InCall, Calls, Closing, IsDevice
<1>7. Orphaned'
  BY <1>1, <1>5 DEF IInv, TypeOK, Orphaned
<1> QED
  BY <1>1, <1>3, <1>4, <1>6, <1>7 DEF IInv, Allotted, Known, Device, Counted, Live

LEMMA CloseDeviceFreeOK ==
  ASSUME IInv, NEW t \in Tasks, CloseDeviceFree(t)
  PROVE  IInv'
<1> USE DEF driverVars, chipVars
<1>1. /\ UNCHANGED << created, numOpenChans, userData, online, orphans, overtaken >>
      /\ isDeviceOpen' = FALSE /\ allocated' = FALSE
      /\ info' = [info EXCEPT ![cur[t]].live = FALSE]
      /\ open' = open \ {cur[t]}
      /\ pc[t] = "stopped"
      /\ pc' = [pc EXCEPT ![t] = "idle"]
      /\ cur' = [cur EXCEPT ![t] = Null]
  BY DEF CloseDeviceFree, CanClose
<1>2. /\ IsDevice(cur[t]) /\ cur[t] \in Fd /\ info[cur[t]].live
      /\ LiveChannels = {} /\ orphans = {}
  BY <1>1, NoOrphansInCall DEF IInv, TypeOK, InCall, IsDevice, Known, Calls
<1>3. \A f \in Fd : info[f].live => f = cur[t]
  BY <1>2 DEF IInv, TypeOK, Known, Device, IsDevice, LiveChannels
<1>4. /\ info' \in [Fd -> [type : {"none", "device", "channel"}, chn : Channel,
                          in : BOOLEAN, out : BOOLEAN, live : BOOLEAN]]
      /\ \A f \in Fd : info'[f].type = info[f].type
      /\ \A f \in Fd : ~info'[f].live
  BY <1>1, <1>2, <1>3, InfoFreed
<1>5. TypeOK'
  <2>1. UNCHANGED << installed, client, chnInfo, chnMode, ier, txBusy, ti, fault >>
    BY DEF CloseDeviceFree
  <2> QED
    BY <1>1, <1>4, <2>1 DEF IInv, TypeOK
<1>6. \A u \in Tasks : u # t => pc[u] \in Outside
  BY <1>1, OneCall DEF Calls
<1>7. Mutex' /\ InCall'
  BY <1>1, <1>6 DEF IInv, TypeOK, Mutex, InCall, Calls, Closing
<1>8. LiveChannels' = {}
  BY <1>4 DEF LiveChannels
<1>9. Allotted' /\ Known'
  BY <1>1, <1>3, <1>4 DEF IInv, TypeOK, Allotted, Known
<1>10. Device' /\ Counted'
  BY <1>1, <1>2, <1>4, <1>8 DEF IInv, TypeOK, Device, Counted
<1>11. Orphaned'
  BY <1>1, <1>2, <1>4 DEF IInv, Orphaned
<1> QED
  BY <1>5, <1>7, <1>9, <1>10, <1>11 DEF IInv

(* write() holds no mutex and leaves all of this alone. *)
LEMMA WriteOK ==
  ASSUME IInv, NEW t \in Tasks,
         Kick(t) \/ \E f \in open \ orphans : WriteBuf(t, f)
  PROVE  IInv'
<1> USE DEF driverVars, deviceVars, chipVars, fdVars
<1>1. /\ UNCHANGED << created, isDeviceOpen, numOpenChans, allocated, userData, online,
                      info, open, orphans, overtaken >>
      /\ pc[t] \in {"idle", "kick"} /\ pc'[t] \in {"idle", "kick"}
      /\ \A u \in Tasks : u # t => pc'[u] = pc[u] /\ cur'[u] = cur[u]
  BY DEF IInv, TypeOK, Kick, WriteBuf
<1>2. TypeOK'
  <2>1. CASE Kick(t)
    <3>1. txBusy' = TRUE \/ txBusy' = FALSE
      BY <2>1 DEF Kick, IInv, TypeOK
    <3>2. fault' \in {"none", "pointer", "storm"}
      BY <2>1 DEF Kick, IInv, TypeOK
    <3>3. /\ UNCHANGED << installed, client, chnInfo, chnMode, ier, ti >>
          /\ pc' = [pc EXCEPT ![t] = "idle"]
          /\ cur' = [cur EXCEPT ![t] = Null]
      BY <2>1 DEF Kick
    <3> QED
      BY <1>1, <3>1, <3>2, <3>3 DEF IInv, TypeOK
  <2>2. CASE \E f \in open \ orphans : WriteBuf(t, f)
    BY <2>2 DEF WriteBuf, IInv, TypeOK
  <2> QED
    BY <2>1, <2>2
<1>3. LiveChannels' = LiveChannels /\ NextFd' = NextFd
  BY <1>1 DEF LiveChannels, NextFd
<1>4. Mutex' /\ InCall'
  BY <1>1, <1>3 DEF IInv, TypeOK, Mutex, InCall, Calls, Closing, IsChannel, IsDevice
<1> QED
  BY <1>1, <1>2, <1>3, <1>4 DEF IInv, Allotted, Known, Device, Counted, Orphaned, Live

LEMMA CallOK ==
  ASSUME IInv, NEW t \in Tasks, Call(t)
  PROVE  IInv'
BY DestroyCheckOK, DestroyDeleteOK, LostOK, OpenDeviceOK, OpenDeviceBusyOK, OpenDeviceInfoOK, OpenDeviceNoMemoryOK,
   OpenChannelOK, IoctlOK, CloseChannelStartOK, CloseRefusedOK, CloseChannelRingsOK, CloseChannelFreeOK,
   CloseDeviceStopOK, CloseDeviceFreeOK, WriteOK
DEF Call

LEMMA StutterOK ==
  ASSUME IInv, UNCHANGED vars
  PROVE  IInv'
<1> USE DEF vars, fdVars, taskVars
<1>1. TypeOK'
  BY DEF IInv, TypeOK
<1> QED
  BY <1>1, QuietOK

LEMMA Invariance == Spec => []IInv
<1>1. IInv /\ [Next]_vars => IInv'
  BY DriverOK, InterruptOK, CallOK, StutterOK DEF Next
<1> QED
  BY InitOK, <1>1, PTL DEF Spec

(* While a channel is open its device is, whatever clients do, unless it was
   opened between the tests and the deletion of a wncDevIODevDestroy(). *)
THEOREM LifeInOrderHolds == Spec => []LifeInOrder
<1>1. IInv => LifeInOrder
  <2>1. SUFFICES ASSUME IInv, NEW f \in open, IsChannel(f), f \notin overtaken
                 PROVE  isDeviceOpen /\ created /\ Live(userData)
    BY DEF LifeInOrder, DeviceOutlivesChannels, IInv
  <2>2. f \in LiveChannels
    BY <2>1 DEF IInv, TypeOK, Known, Orphaned, IsChannel, LiveChannels
  <2> QED
    BY <2>1, <2>2 DEF IInv, Counted, Device
<1> QED
  BY Invariance, <1>1, PTL

(***************************************************************************)
(* What is closed is gone.                                                 *)
(***************************************************************************)
Released ==
  /\ "no_mode" \notin Irregular => LiveChannels \subseteq open
  /\ ControllerReleased

(* Nobody changes clients. *)
LEMMA ClientStays ==
  ASSUME [Next]_vars
  PROVE  client' = client
<1> USE DEF driverVars
<1>1. ASSUME NEW t \in Tasks, Call(t)
      PROVE  client' = client
  BY <1>1
  DEF Call, DevDestroyCheck, DevDestroyDelete, LostCall, OrphanCall, OpenDevice,
      OpenDeviceBusy, OpenDeviceInfo, OpenDeviceNoMemory, OpenChannel,
      CloseChannelRings, CloseChannelFree, CloseDeviceFree, Kick, CloseChannelDisable,
      CloseChannelRefused, CloseDeviceRefused, CloseDeviceStop, ChnEnable, ChnDisable,
      Start, Stop, WriteBuf, ChanGet, SetMode
<1>2. CASE Driver
  BY <1>2 DEF Driver, DrvInstall, DrvRemove, DevCreate
<1>3. CASE Interrupt
  BY <1>3, Zenon DEF Interrupt, ChipTransmit, IsrRx, IsrTx, IsrError
<1> QED
  BY <1>1, <1>2, <1>3 DEF Next, vars

(* The steps that neither make nor forget a descriptor nor take or free the
   controller. *)
Idle(t) ==
  \/ DevDestroyCheck(t) \/ DevDestroyDelete(t) \/ LostCall(t)
  \/ OpenDeviceBusy(t) \/ Kick(t)
  \/ \E f \in open : OrphanCall(t, f)
  \/ \E f \in open \ orphans :
       \/ CloseChannelDisable(t, f) \/ CloseDeviceStop(t, f)
       \/ ChnEnable(t, f) \/ ChnDisable(t, f) \/ Start(t, f) \/ Stop(t, f)
       \/ WriteBuf(t, f)
       \/ \E c \in Channel : ChanGet(t, f, c)
       \/ \E m \in {"RECEIVE", "TRANSMIT", "INACTIVE", "INVALID"} : SetMode(t, f, m)

LEMMA IdleKeeps ==
  ASSUME IInv, \/ \E t \in Tasks : Idle(t)
               \/ Driver
               \/ Interrupt
               \/ UNCHANGED vars
  PROVE  /\ UNCHANGED << info, open, allocated >>
         /\ orphans \subseteq orphans'
         /\ \A u \in Tasks : pc[u] \in {"opening", "lost"} => pc'[u] \in {"opening", "lost"}
<1> USE DEF deviceVars, fdVars, taskVars
<1>1. ASSUME NEW t \in Tasks, Idle(t)
      PROVE  /\ UNCHANGED << info, open, allocated >>
             /\ orphans \subseteq orphans'
             /\ \A u \in Tasks : pc[u] \in {"opening", "lost"} => pc'[u] \in {"opening", "lost"}
  <2>1. CASE DevDestroyDelete(t)
    <3>1. /\ UNCHANGED << info, open, allocated >>
          /\ orphans \subseteq orphans'
      BY <2>1 DEF DevDestroyDelete, IInv, Orphaned
    <3> QED
      BY <2>1, <3>1, CaughtTasks
  <2>2. CASE DevDestroyCheck(t) \/ LostCall(t) \/ \E f \in open : OrphanCall(t, f)
    BY <2>2 DEF DevDestroyCheck, LostCall, OrphanCall, IInv, TypeOK
  <2>3. CASE OpenDeviceBusy(t) \/ Kick(t)
    BY <2>3 DEF OpenDeviceBusy, Kick, IInv, TypeOK
  <2>4. ASSUME NEW f \in open \ orphans,
               CloseChannelDisable(t, f) \/ CloseDeviceStop(t, f) \/ WriteBuf(t, f)
        PROVE  /\ UNCHANGED << info, open, orphans, allocated >>
               /\ pc[t] = "idle" /\ \A u \in Tasks : u # t => pc'[u] = pc[u]
    BY <2>4 DEF CloseChannelDisable, CloseDeviceStop, WriteBuf, MayCall, IInv, TypeOK
  <2>5. ASSUME NEW f \in open \ orphans,
               \/ ChnEnable(t, f) \/ ChnDisable(t, f) \/ Start(t, f) \/ Stop(t, f)
               \/ \E c \in Channel : ChanGet(t, f, c)
               \/ \E m \in {"RECEIVE", "TRANSMIT", "INACTIVE", "INVALID"} : SetMode(t, f, m)
        PROVE  UNCHANGED << info, open, orphans, allocated, pc >>
    BY <2>5 DEF ChnEnable, ChnDisable, Start, Stop, ChanGet, SetMode
  <2> QED
    BY <1>1, <2>1, <2>2, <2>3, <2>4, <2>5 DEF Idle
<1>2. CASE Driver
  BY <1>2 DEF Driver, DrvInstall, DrvRemove, DevCreate
<1>3. CASE Interrupt
  BY <1>3 DEF Interrupt, ChipTransmit, IsrRx, IsrTx, IsrError
<1>4. CASE UNCHANGED vars
  BY <1>4 DEF vars
<1> QED
  BY <1>1, <1>2, <1>3, <1>4

LEMMA ReleasedIdle ==
  ASSUME Released, client' = client,
         UNCHANGED << info, open, allocated >>,
         orphans \subseteq orphans',
         \A u \in Tasks : pc[u] \in {"opening", "lost"} => pc'[u] \in {"opening", "lost"}
  PROVE  Released'
<1>1. LiveChannels' \subseteq LiveChannels
  BY DEF LiveChannels
<1> QED
  BY <1>1 DEF Released, ControllerReleased, IsDevice

(* The steps that do. *)
LEMMA ReleasedCall ==
  ASSUME IInv, Released, client' = client, NEW t \in Tasks, Call(t), ~Idle(t)
  PROVE  Released'
<1> USE DEF Released, deviceVars, fdVars, taskVars, IsDevice, IsChannel
<1>1. CASE OpenDevice(t)
  <2>1. LiveChannels' = LiveChannels /\ open' = open /\ pc'[t] = "opening"
    BY <1>1 DEF LiveChannels, OpenDevice, IInv, TypeOK
  <2> QED
    BY <2>1 DEF ControllerReleased
<1>2. CASE OpenDeviceInfo(t)
  <2>1. NextFd \in Fd
    BY <1>2, NextFdFresh DEF OpenDeviceInfo, IInv, InCall
  <2>2. info'[NextFd].type = "device" /\ NextFd \in open' /\ open \subseteq open'
    BY <1>2, <2>1 DEF OpenDeviceInfo, NewFd, IInv, TypeOK, Unused
  <2>3. LiveChannels' \subseteq LiveChannels
    BY <1>2, <2>1, <2>2 DEF OpenDeviceInfo, NewFd, IInv, TypeOK, LiveChannels
  <2> QED
    BY <2>2, <2>3 DEF ControllerReleased
<1>3. CASE OpenDeviceNoMemory(t)
  <2>1. LiveChannels' = LiveChannels /\ open' = open /\ "no_memory" \in Irregular
    BY <1>3 DEF LiveChannels, OpenDeviceNoMemory
  <2> QED
    BY <2>1 DEF ControllerReleased
<1>4. CASE \E c \in Channel, access \in Access : OpenChannel(t, c, access)
  <2>1. PICK c \in Channel, access \in Access : OpenChannel(t, c, access)
    BY <1>4
  <2>2. pc' = pc
    BY <2>1 DEF OpenChannel
  <2>3. client.fds \in 0 .. MaxFds /\ NextFd <= client.fds
    BY <2>1 DEF IInv, TypeOK, OpenChannel
  <2>4. NextFd \in Fd /\ \A f \in Fd : info[f].type # "none" <=> f < NextFd
    BY <2>3, NextFdFresh DEF IInv
  <2>5. /\ open \subseteq open' /\ orphans' = orphans
        /\ \A f \in Fd : f # NextFd => info'[f] = info[f]
    BY <2>1 DEF OpenChannel, NewFd, IInv, TypeOK
  <2>6. LiveChannels' \subseteq LiveChannels \cup open'
    BY <2>1, <2>5 DEF LiveChannels, OpenChannel, NewFd
  <2>7. \A f \in open : info[f].type = "device" => f \in open' /\ info'[f].type = "device"
    <3>1. SUFFICES ASSUME NEW f \in open, info[f].type = "device"
                   PROVE  f \in open' /\ info'[f].type = "device"
      OBVIOUS
    <3>2. f \in Fd
      BY DEF IInv, TypeOK
    <3>3. f < NextFd
      BY <2>4, <3>1, <3>2
    <3> QED
      BY <2>4, <2>5, <3>1, <3>2, <3>3
  <2>8. allocated' = allocated
    BY <2>1 DEF OpenChannel
  <2> QED
    BY <2>2, <2>5, <2>6, <2>7, <2>8 DEF ControllerReleased
<1>5. CASE CloseChannelRings(t)
  <2>1. /\ open' = open /\ allocated' = allocated
        /\ pc' = [pc EXCEPT ![t] = "ringless"] /\ pc[t] = "disabled"
        /\ \A f \in open : info'[f].type = info[f].type
    BY <1>5 DEF CloseChannelRings, IInv, TypeOK
  <2>2. LiveChannels' \subseteq LiveChannels
    BY <1>5 DEF CloseChannelRings, IInv, TypeOK, LiveChannels
  <2> QED
    BY <2>1, <2>2 DEF ControllerReleased, IInv, TypeOK
<1>6. CASE CloseChannelFree(t)
  <2>1. info[cur[t]].type = "channel" /\ pc[t] = "ringless"
    BY <1>6 DEF CloseChannelFree, IInv, InCall, Closing
  <2>2. /\ allocated' = allocated
        /\ pc' = [pc EXCEPT ![t] = "idle"]
        /\ open \ {cur[t]} \subseteq open'
        /\ \A f \in open : info'[f].type = info[f].type
    <3>1. allocated' = allocated /\ pc' = [pc EXCEPT ![t] = "idle"]
      BY <1>6 DEF CloseChannelFree
    <3>2. open \ {cur[t]} \subseteq open'
      BY <1>6 DEF CloseChannelFree
    <3>3. info' = [info EXCEPT ![cur[t]].live = FALSE] \/ info' = info
      BY <1>6 DEF CloseChannelFree
    <3>4. \A f \in Fd : info'[f].type = info[f].type
      <4>1. info \in [Fd -> [type : {"none", "device", "channel"}, chn : Channel,
                              in : BOOLEAN, out : BOOLEAN, live : BOOLEAN]]
        BY DEF IInv, TypeOK
      <4> QED
        BY <3>3, <4>1
    <3>5. open \subseteq Fd
      BY DEF IInv, TypeOK
    <3> QED
      BY <3>1, <3>2, <3>4, <3>5
  <2>3. LiveChannels' \subseteq LiveChannels /\ (open' = open \/ cur[t] \notin LiveChannels')
    BY <1>6 DEF CloseChannelFree, IInv, TypeOK, LiveChannels
  <2> QED
    BY <2>1, <2>2, <2>3 DEF ControllerReleased, IInv, TypeOK
<1>7. CASE CloseDeviceFree(t)
  <2>1. LiveChannels = {} /\ pc[t] = "stopped"
    BY <1>7 DEF CloseDeviceFree, IInv, InCall
  <2>2. LiveChannels' \subseteq LiveChannels /\ ~allocated'
    BY <1>7 DEF CloseDeviceFree, CanClose, IInv, TypeOK, LiveChannels
  <2> QED
    BY <2>1, <2>2 DEF ControllerReleased
<1>8. CASE \E f \in open \ orphans : CloseChannelRefused(t, f)
  <2>1. PICK f \in open \ orphans : CloseChannelRefused(t, f)
    BY <1>8
  <2>2. /\ "no_mode" \in Irregular /\ info[f].type = "channel"
        /\ UNCHANGED << info, orphans, allocated, pc >> /\ open' = open \ {f}
    BY <2>1 DEF CloseChannelRefused
  <2> QED
    BY <2>2 DEF ControllerReleased
<1>9. CASE \E f \in open \ orphans : CloseDeviceRefused(t, f)
  <2>1. PICK f \in open \ orphans : CloseDeviceRefused(t, f)
    BY <1>9
  <2>2. /\ "device_first" \in Irregular /\ info[f].type = "device"
        /\ UNCHANGED << info, orphans >> /\ open' = open \ {f}
    BY <2>1 DEF CloseDeviceRefused
  <2>3. LiveChannels' = LiveChannels
    BY <2>2 DEF LiveChannels
  <2> QED
    BY <2>2, <2>3 DEF ControllerReleased, LiveChannels
<1> QED
  BY <1>1, <1>2, <1>3, <1>4, <1>5, <1>6, <1>7, <1>8, <1>9 DEF Call, Idle

(* Closed channels are not counted and a closed device's controller is free. *)
THEOREM ClosedIsGoneHolds == Spec => []ClosedIsGone
<1>1. Init => Released
  <2>1. Init => LiveChannels = {} /\ ~allocated
    BY DEF Init, LiveChannels, Unused
  <2> QED
    BY <2>1 DEF Released, ControllerReleased
<1>2. IInv /\ Released /\ [Next]_vars => Released'
  BY ClientStays, IdleKeeps, ReleasedIdle, ReleasedCall DEF Next
<1>3. IInv /\ Released => ClosedIsGone
  <2>1. IInv /\ LiveChannels \subseteq open =>
          LiveChannels = { f \in open \ orphans : IsChannel(f) }
    BY DEF LiveChannels, IInv, TypeOK, Known, IsChannel
  <2> QED
    BY <2>1 DEF Released, ClosedIsGone, ClosedChannelsAreGone, IInv, Counted
<1> QED
  BY Invariance, <1>1, <1>2, <1>3, PTL DEF Spec

(***************************************************************************)
(* No fault, for clients whose only irregularity is that they may close    *)
(* the device before its channels.                                         *)
(***************************************************************************)
Regular == Irregular \subseteq {"device_first"}

(* The handler finds an open channel, and its ring until close() deletes it. *)
Found ==
  \A f \in open : info[f].type = "channel" =>
    /\ chnInfo[info[f].chn] = f
    /\ (\A t \in Tasks : pc[t] = "ringless" => cur[t] # f) =>
         IF info[f].chn = Rx THEN info[f].in ELSE info[f].out

(* A write() under way has a channel nobody closes. *)
Kicked ==
  \A t \in Tasks : pc[t] = "kick" =>
    /\ IsChannel(cur[t]) /\ info[cur[t]].out
    /\ \A u \in Tasks : pc[u] \in Closing => cur[u] # cur[t]

InUse(c) ==
  \E f \in open : /\ info[f].type = "channel" /\ info[f].chn = c
                  /\ \A t \in Tasks : pc[t] \in Closing => cur[t] # f

(* An interrupt that may come finds what its handler follows. *)
TxReady == "TIE" \in ier => InUse(Tx)
RxReady == online /\ "RIE" \in ier => InUse(Rx) /\ chnMode[Rx] = "RECEIVE"
TiReady == ti => HandlerFinds(Tx)
InfoReady ==
  /\ online => Live(userData)
  /\ isDeviceOpen => Live(userData) \/ \E t \in Tasks : pc[t] = "opening"

(* Nobody calls a device that is being destroyed. *)
Undisturbed ==
  /\ orphans = {}
  /\ \A t \in Tasks :
       /\ pc[t] # "lost"
       /\ pc[t] = "destroying" => ~isDeviceOpen /\ \A u \in Tasks \ {t} : pc[u] = "idle"

Safety == fault = "none" /\ Found /\ Kicked /\ TxReady /\ RxReady /\ TiReady /\ InfoReady

(* What is in use is found, and there is one descriptor of it. *)
LEMMA InUseFound ==
  ASSUME IInv, Found, orphans = {}, NEW c \in Channel, InUse(c)
  PROVE  /\ HandlerFinds(c)
         /\ \A f \in open, t \in Tasks :
              info[f].type = "channel" /\ info[f].chn = c /\ pc[t] \in Closing => cur[t] # f
<1>1. PICK f \in open : /\ info[f].type = "channel" /\ info[f].chn = c
                        /\ \A t \in Tasks : pc[t] \in Closing => cur[t] # f
  BY DEF InUse
<1>2. chnInfo[c] = f /\ (IF c = Rx THEN info[f].in ELSE info[f].out)
  BY <1>1 DEF Found, Closing
<1>3. f \in Fd /\ info[f].live /\ f \in LiveChannels
  BY <1>1 DEF IInv, TypeOK, Known, LiveChannels
<1>4. Live(userData)
  BY <1>3 DEF IInv, Counted
<1>5. HandlerFinds(c)
  BY <1>2, <1>3, <1>4 DEF HandlerFinds, Live
<1>6. \A g \in open : info[g].type = "channel" /\ info[g].chn = c => g = f
  BY <1>2 DEF Found
<1> QED
  BY <1>1, <1>5, <1>6

(* Steps that leave descriptors alone and switch nothing on. *)
LEMMA SafetyFrame ==
  ASSUME Safety, TypeOK, fault' = "none",
         UNCHANGED << userData, chnInfo, info, open >>,
         \A u \in Tasks : pc'[u] \in Closing \cup {"kick"} => pc'[u] = pc[u] /\ cur'[u] = cur[u],
         \A u \in Tasks : pc[u] = "ringless" => pc'[u] = "ringless",
         "TIE" \in ier' => "TIE" \in ier,
         online' => online,
         online' /\ "RIE" \in ier' => "RIE" \in ier /\ (chnMode[Rx] = "RECEIVE" => chnMode'[Rx] = "RECEIVE"),
         ti' => ti,
         isDeviceOpen' => Live(userData) \/ \E t \in Tasks : pc'[t] = "opening"
  PROVE  Safety'
<1> USE DEF Safety
<1>1. \A c \in Channel : InUse(c) => InUse(c)'
  BY DEF InUse
<1>2. Found' /\ TiReady'
  <2>1. HandlerFinds(Tx)' <=> HandlerFinds(Tx)
    BY DEF HandlerFinds, Live
  <2> QED
    BY <2>1 DEF Found, TiReady, Closing
<1>3. Kicked'
  BY DEF Kicked, IsChannel
<1>4. TxReady' /\ RxReady' /\ InfoReady'
  BY <1>1 DEF TxReady, RxReady, InfoReady, Live
<1> QED
  BY <1>2, <1>3, <1>4

(* Interrupts: each that comes finds what it follows. *)
LEMMA InterruptSafe ==
  ASSUME IInv, Safety, orphans = {}, Interrupt
  PROVE  Safety'
<1> USE DEF driverVars, deviceVars, chipVars, fdVars, taskVars
<1>1. CASE ChipTransmit
  <2>1. "TIE" \in ier => HandlerFinds(Tx)
    BY InUseFound DEF Safety, TxReady
  <2>2. UNCHANGED << userData, chnInfo, info, open, pc, cur, ier, online, chnMode, fault,
                     isDeviceOpen >>
        /\ (ti' => "TIE" \in ier)
    BY <1>1 DEF ChipTransmit
  <2>3. TiReady'
    BY <2>1, <2>2 DEF TiReady, HandlerFinds, Live
  <2> QED
    BY <2>2, <2>3 DEF Safety, Found, Kicked, IsChannel, TxReady, RxReady, InfoReady, InUse, Live
<1>2. CASE IsrRx \/ IsrTx \/ IsrError
  <2>1. UNCHANGED << userData, chnInfo, info, open, pc, cur, ier, online, chnMode, isDeviceOpen >>
        /\ (ti' => ti)
    <3>1. CASE IsrRx \/ IsrError
      BY <3>1 DEF IsrRx, IsrError
    <3>2. CASE IsrTx
      BY <3>2 DEF IsrTx
    <3> QED
      BY <1>2, <3>1, <3>2
  <2>2. fault' = "none"
    <3>1. CASE IsrRx
      BY <3>1, InUseFound DEF IsrRx, Safety, RxReady
    <3>2. CASE IsrTx
      BY <3>2 DEF IsrTx, Safety, TiReady
    <3>3. CASE IsrError
      BY <3>3 DEF IsrError, Safety, InfoReady
    <3> QED
      BY <1>2, <3>1, <3>2, <3>3
  <2>3. isDeviceOpen => Live(userData) \/ \E t \in Tasks : pc[t] = "opening"
    BY DEF Safety, InfoReady
  <2> QED
    BY <2>1, <2>2, <2>3, SafetyFrame DEF IInv
<1> QED
  BY <1>1, <1>2 DEF Interrupt

LEMMA DriverSafe ==
  ASSUME IInv, Safety, Driver
  PROVE  Safety'
<1>1. /\ UNCHANGED << userData, chnInfo, info, open, pc, cur, ier, online, chnMode, ti, fault >>
      /\ (isDeviceOpen' => isDeviceOpen)
  BY DEF Driver, DrvInstall, DrvRemove, DevCreate, driverVars, deviceVars,
         chipVars, fdVars, taskVars
<1>2. isDeviceOpen => Live(userData) \/ \E t \in Tasks : pc[t] = "opening"
  BY DEF Safety, InfoReady
<1> QED
  BY <1>1, <1>2, SafetyFrame DEF IInv, Safety

LEMMA StutterSafe ==
  ASSUME Safety, UNCHANGED vars
  PROVE  Safety'
BY DEF vars, Safety, Found, Kicked, IsChannel, TxReady, RxReady, TiReady, InfoReady, InUse,
       HandlerFinds, Live

(* Calls that switch things off. *)
LEMMA QuietCallSafe ==
  ASSUME IInv, Safety, Regular, NEW t \in Tasks, NEW f \in open \ orphans,
         \/ ChnDisable(t, f) \/ Stop(t, f)
         \/ \E c \in Channel : ChanGet(t, f, c)
         \/ \E m \in {"RECEIVE", "TRANSMIT", "INACTIVE", "INVALID"} : SetMode(t, f, m)
  PROVE  Safety'
<1> USE DEF driverVars, deviceVars, chipVars, fdVars, taskVars
<1>1. /\ UNCHANGED << userData, chnInfo, info, open, pc, cur, ti, fault, isDeviceOpen >>
      /\ ier' \subseteq ier
      /\ (online' => online)
  BY DEF ChnDisable, Stop, ChanGet, SetMode, DisableChannel
<1>2. online' /\ "RIE" \in ier' => "RIE" \in ier /\ (chnMode[Rx] = "RECEIVE" => chnMode'[Rx] = "RECEIVE")
  <2>1. CASE ChnDisable(t, f) \/ Stop(t, f)
    BY <1>1, <2>1 DEF ChnDisable, Stop
  <2>2. CASE \E c \in Channel : ChanGet(t, f, c)
    BY <1>1, <2>2 DEF ChanGet, IInv, TypeOK
  <2>3. CASE \E m \in {"RECEIVE", "TRANSMIT", "INACTIVE", "INVALID"} : SetMode(t, f, m)
    <3>1. info[f].chn = Rx => "RIE" \notin ier
      BY <2>3 DEF SetMode, Regular, IntBit
    <3>2. info[f].chn # Rx => chnMode'[Rx] = chnMode[Rx]
      BY <2>3 DEF SetMode, IInv, TypeOK
    <3> QED
      BY <1>1, <3>1, <3>2
  <2> QED
    BY <2>1, <2>2, <2>3
<1>3. isDeviceOpen => Live(userData) \/ \E u \in Tasks : pc[u] = "opening"
  BY DEF Safety, InfoReady
<1> QED
  BY <1>1, <1>2, <1>3, SafetyFrame DEF IInv, Safety

LEMMA OpenDeviceSafe ==
  ASSUME IInv, Safety, NEW t \in Tasks, OpenDevice(t)
  PROVE  Safety'
<1> USE DEF driverVars, fdVars
<1>1. /\ UNCHANGED << userData, chnInfo, info, open, cur, ti, fault >>
      /\ ier' = {"RIE", "ERR"}
      /\ online' = FALSE
      /\ pc' = [pc EXCEPT ![t] = "opening"]
  BY DEF OpenDevice, CanInit, EnableInt, CanOpen
<1>2. pc[t] = "idle"
  BY CallStarts DEF OpenDevice
<1> QED
  BY <1>1, <1>2, SafetyFrame DEF IInv, TypeOK, Safety, Closing

LEMMA CloseDeviceStopSafe ==
  ASSUME IInv, Safety, NEW t \in Tasks, NEW f \in open \ orphans, CloseDeviceStop(t, f)
  PROVE  Safety'
<1> USE DEF driverVars, deviceVars, fdVars
<1>1. /\ UNCHANGED << userData, chnInfo, info, open, fault, isDeviceOpen >>
      /\ ier' = {}
      /\ online' = FALSE
      /\ (ti' => "TIE" \in ier)
      /\ pc' = [pc EXCEPT ![t] = "stopped"]
      /\ cur' = [cur EXCEPT ![t] = f]
      /\ numOpenChans = 0
  BY DEF CloseDeviceStop, Silence
<1>2. pc[t] = "idle"
  BY CallStarts DEF CloseDeviceStop
<1>3. LiveChannels = {}
  BY <1>1, LiveChannelsCount DEF IInv, Counted
<1>4. ~InUse(Tx)
  BY <1>3, NoOrphans DEF InUse, LiveChannels, IInv, TypeOK, Known
<1>5. ~ti'
  BY <1>1, <1>4 DEF Safety, TxReady
<1>6. isDeviceOpen => Live(userData) \/ \E u \in Tasks : pc'[u] = "opening"
  <2>1. \A u \in Tasks : pc[u] = "opening" => pc'[u] = "opening"
    BY <1>1, <1>2 DEF IInv, TypeOK
  <2> QED
    BY <2>1 DEF Safety, InfoReady
<1> QED
  BY <1>1, <1>2, <1>5, <1>6, SafetyFrame DEF IInv, TypeOK, Safety, Closing

(* write() calls the handler with the channel it has put its message in. *)
LEMMA KickSafe ==
  ASSUME IInv, Safety, orphans = {}, NEW t \in Tasks, Kick(t)
  PROVE  Safety'
<1> USE DEF driverVars, deviceVars, fdVars
<1>1. /\ UNCHANGED << userData, chnInfo, info, open, ier, online, chnMode, ti, isDeviceOpen >>
      /\ pc[t] = "kick"
      /\ pc' = [pc EXCEPT ![t] = "idle"]
      /\ cur' = [cur EXCEPT ![t] = Null]
  BY DEF Kick
<1>2. IsChannel(cur[t]) /\ info[cur[t]].out
  BY <1>1 DEF Safety, Kicked
<1>3. cur[t] \in LiveChannels /\ Live(cur[t])
  BY <1>2 DEF IInv, TypeOK, Known, IsChannel, LiveChannels, Live
<1>4. chnInfo[info[cur[t]].chn] = cur[t] /\ Live(userData)
  BY <1>2, <1>3 DEF Safety, Found, IsChannel, IInv, Counted
<1>5. fault' = "none"
  BY <1>2, <1>3, <1>4 DEF Kick, Safety
<1> QED
  BY <1>1, <1>4, <1>5, SafetyFrame DEF IInv, TypeOK, Closing

(* Enabling a channel's interrupt, and starting the controller. *)
LEMMA SwitchOnSafe ==
  ASSUME IInv, Safety, Regular, NEW t \in Tasks, NEW f \in open \ orphans,
         ChnEnable(t, f) \/ Start(t, f)
  PROVE  Safety'
<1> USE DEF driverVars, deviceVars, fdVars, taskVars
<1>1. /\ UNCHANGED << userData, chnInfo, info, open, pc, cur, chnMode, ti, fault, isDeviceOpen >>
      /\ \A u \in Tasks : pc[u] \in Outside
  BY CallStarts DEF ChnEnable, Start
<1>2. Found' /\ Kicked' /\ TiReady'
  BY <1>1 DEF Safety, Found, Kicked, IsChannel, TiReady, HandlerFinds, Live
<1>3. \A c \in Channel : ChannelFds(c) # {} => InUse(c)'
  BY <1>1 DEF InUse, ChannelFds, IsChannel, Closing
<1>4. \A c \in Channel : InUse(c) => InUse(c)'
  BY <1>1 DEF InUse
<1>5. CASE ChnEnable(t, f)
  <2>1. /\ info[f].chn \in Channel
        /\ chnMode[info[f].chn] = chnType[info[f].chn]
        /\ ier' = ier \cup {IntBit[info[f].chn]}
        /\ online' = online
        /\ f \in ChannelFds(info[f].chn)
    BY <1>5 DEF ChnEnable, EnableChannel, IInv, TypeOK, ChannelFds, IsChannel
  <2>2. CASE info[f].chn = Rx
    <3>1. ier' = ier \cup {"RIE"} /\ chnMode[Rx] = "RECEIVE" /\ InUse(Rx)'
      BY <1>3, <2>1, <2>2 DEF IntBit, chnType
    <3> QED
      BY <1>1, <1>2, <1>4, <2>1, <3>1
      DEF Safety, TxReady, RxReady, InfoReady, Live
  <2>3. CASE info[f].chn = Tx
    <3>1. ier' = ier \cup {"TIE"} /\ InUse(Tx)'
      BY <1>3, <2>1, <2>3 DEF IntBit
    <3> QED
      BY <1>1, <1>2, <1>4, <2>1, <3>1
      DEF Safety, TxReady, RxReady, InfoReady, Live
  <2> QED
    BY <2>1, <2>2, <2>3
<1>6. CASE Start(t, f)
  <2>1. ier' = ier /\ ReceiveReady /\ IsDevice(f)
    BY <1>6 DEF Start, Regular
  <2>2. Live(userData)
    BY <2>1 DEF IInv, TypeOK, Known, Device, IsDevice, Live
  <2> QED
    BY <1>1, <1>2, <1>3, <1>4, <2>1, <2>2
    DEF Safety, TxReady, RxReady, InfoReady, Live, ReceiveReady
<1> QED
  BY <1>5, <1>6

(* Nobody shares a descriptor that one of them closes. *)
LEMMA ShareSafe ==
  ASSUME IInv, Safety, Regular, NEW t \in Tasks, NEW f \in open \ orphans,
         WriteBuf(t, f) \/ CloseChannelDisable(t, f)
  PROVE  Safety'
<1> USE DEF driverVars, deviceVars, chipVars, fdVars
<1>1. /\ UNCHANGED << userData, chnInfo, info, open, chnMode, ti, fault, isDeviceOpen, online >>
      /\ pc[t] = "idle"
      /\ \A u \in Tasks : cur[u] # f
      /\ cur' = [cur EXCEPT ![t] = f]
      /\ IsChannel(f)
  BY CallStarts DEF WriteBuf, CloseChannelDisable, Unshared, Regular
<1>2. /\ pc'[t] \in {"kick", "disabled"} /\ cur'[t] = f
      /\ \A u \in Tasks : u # t => pc'[u] = pc[u] /\ cur'[u] = cur[u]
  BY <1>1 DEF WriteBuf, CloseChannelDisable, IInv, TypeOK
<1>3. Found' /\ TiReady' /\ InfoReady'
  <2>1. Found'
    BY <1>1, <1>2 DEF Safety, Found
  <2>2. TiReady' /\ InfoReady'
    BY <1>1, <1>2 DEF Safety, TiReady, InfoReady, HandlerFinds, Live
  <2> QED
    BY <2>1, <2>2
<1>4. CASE WriteBuf(t, f)
  <2>1. ier' = ier /\ info[f].out /\ pc'[t] = "kick"
    BY <1>4 DEF WriteBuf, IInv, TypeOK
  <2>2. Kicked'
    BY <1>1, <1>2, <2>1 DEF Safety, Kicked, IsChannel, Closing
  <2>3. \A c \in Channel : InUse(c) => InUse(c)'
    BY <1>1, <1>2, <2>1 DEF InUse, Closing
  <2> QED
    BY <1>1, <1>3, <2>1, <2>2, <2>3 DEF Safety, TxReady, RxReady
<1>5. CASE CloseChannelDisable(t, f)
  <2>1. /\ ier' = ier \ {IntBit[info[f].chn]}
        /\ info[f].chn \in Channel
        /\ pc'[t] = "disabled"
    BY <1>5 DEF CloseChannelDisable, DisableChannel, IInv, TypeOK
  <2>2. Kicked'
    BY <1>1, <1>2, <2>1 DEF Safety, Kicked, IsChannel, Closing
  <2>3. \A c \in Channel : InUse(c) /\ c # info[f].chn => InUse(c)'
    BY <1>1, <1>2, <2>1 DEF InUse, Closing
  <2>4. TxReady' /\ RxReady'
    <3>1. CASE info[f].chn = Rx
      BY <1>1, <2>1, <2>3, <3>1 DEF Safety, TxReady, RxReady, IntBit
    <3>2. CASE info[f].chn = Tx
      BY <1>1, <2>1, <2>3, <3>2 DEF Safety, TxReady, RxReady, IntBit
    <3> QED
      BY <2>1, <3>1, <3>2
  <2> QED
    BY <1>1, <1>3, <2>2, <2>4 DEF Safety
<1> QED
  BY <1>4, <1>5

(* A device's descriptor is no channel's. *)
LEMMA CloseDeviceRefusedSafe ==
  ASSUME IInv, Safety, NEW t \in Tasks, NEW f \in open \ orphans, CloseDeviceRefused(t, f)
  PROVE  Safety'
<1> USE DEF driverVars, deviceVars, chipVars, taskVars
<1>1. /\ UNCHANGED << userData, chnInfo, info, chnMode, ti, ier, fault, isDeviceOpen, online, pc, cur >>
      /\ open' = open \ {f} /\ info[f].type = "device"
  BY DEF CloseDeviceRefused, IsDevice
<1>2. \A c \in Channel : InUse(c) => InUse(c)'
  BY <1>1 DEF InUse
<1> QED
  BY <1>1, <1>2
  DEF Safety, Found, Kicked, IsChannel, TxReady, RxReady, TiReady, InfoReady, HandlerFinds, Live

(* While the device opens nothing is in use. *)
LEMMA OpenDeviceInfoSafe ==
  ASSUME IInv, Safety, NEW t \in Tasks, OpenDeviceInfo(t)
  PROVE  Safety'
<1> USE DEF driverVars, chipVars
<1>1. /\ UNCHANGED << chnMode, ti, ier, online, fault, isDeviceOpen, cur >>
      /\ info' = [info EXCEPT ![NextFd] = [Unused EXCEPT !.type = "device", !.live = TRUE]]
      /\ open' = open \cup {NextFd} /\ userData' = NextFd
      /\ pc' = [pc EXCEPT ![t] = "idle"] /\ pc[t] = "opening" /\ ~ti
  BY DEF OpenDeviceInfo, NewFd, TaskRuns
<1>2. \A g \in Fd : ~info[g].live
  BY <1>1 DEF IInv, InCall
<1>3. open = {} /\ ~Live(userData)
  BY <1>2 DEF IInv, TypeOK, Known, Live
<1>4. NextFd \in Fd
  BY <1>1, NextFdFresh DEF IInv, InCall
<1>5. info'[NextFd].type = "device" /\ info'[NextFd].live
  BY <1>1, <1>4 DEF IInv, TypeOK, Unused
<1>6. Found' /\ Kicked'
  BY <1>1, <1>3, <1>5 DEF Safety, Found, Kicked, IsChannel, IInv, TypeOK
<1>7. TxReady' /\ RxReady' /\ TiReady'
  BY <1>1, <1>3 DEF Safety, TxReady, RxReady, TiReady, InfoReady, InUse
<1>8. InfoReady'
  BY <1>1, <1>4, <1>5 DEF InfoReady, Live
<1> QED
  BY <1>1, <1>6, <1>7, <1>8 DEF Safety

(* A channel is opened once, with the ring its interrupt uses. *)
LEMMA OpenChannelSafe ==
  ASSUME IInv, Safety, Regular, NEW t \in Tasks, NEW c \in Channel, NEW access \in Access,
         OpenChannel(t, c, access)
  PROVE  Safety'
<1> USE DEF driverVars, chipVars, taskVars
<1>1. \A u \in Tasks : pc[u] \in Outside
  BY CallStarts DEF OpenChannel
<1>2. Live(userData)
  BY <1>1 DEF Safety, InfoReady, OpenChannel
<1>3. /\ UNCHANGED << userData, chnMode, ti, ier, online, fault, isDeviceOpen, pc, cur >>
      /\ info' = [info EXCEPT ![NextFd] = [type |-> "channel", chn |-> c, in |-> access.in,
                                           out |-> access.out, live |-> TRUE]]
      /\ open' = open \cup {NextFd}
      /\ chnInfo' = [chnInfo EXCEPT ![c] = NextFd]
      /\ ChannelFds(c) = {}
      /\ IF c = Rx THEN access.in ELSE access.out
      /\ NextFd <= client.fds
      /\ ~ti
  BY <1>2 DEF OpenChannel, NewFd, Regular, MayCall, TaskRuns
<1>4. NextFd \in Fd /\ info[NextFd].type = "none" /\ NextFd \notin open /\ userData # NextFd
  <2>1. client.fds \in 0 .. MaxFds
    BY DEF IInv, TypeOK
  <2>2. NextFd \in Fd /\ (info[NextFd].type # "none" <=> NextFd < NextFd)
    BY <1>3, <2>1, NextFdFresh DEF IInv
  <2> QED
    BY <1>2, <2>2 DEF IInv, Known, Live
<1>5. /\ info'[NextFd].type = "channel" /\ info'[NextFd].chn = c
      /\ info'[NextFd].in = access.in /\ info'[NextFd].out = access.out
      /\ \A f \in open : info'[f] = info[f] /\ f # NextFd /\ f \in Fd
      /\ \A f \in open : info[f].type = "channel" => info[f].chn # c /\ info[f].chn \in Channel
      /\ Live(userData)'
  BY <1>2, <1>3, <1>4 DEF IInv, TypeOK, ChannelFds, IsChannel, Live
<1>6. chnInfo'[c] = NextFd /\ \A d \in Channel : d # c => chnInfo'[d] = chnInfo[d]
  BY <1>3 DEF IInv, TypeOK
<1>7. Found'
  BY <1>3, <1>5, <1>6 DEF Safety, Found
<1>8. Kicked'
  BY <1>3, <1>5 DEF Safety, Kicked, IsChannel
<1>9. \A d \in Channel : InUse(d) => InUse(d)'
  BY <1>3, <1>5 DEF InUse
<1> QED
  BY <1>3, <1>5, <1>7, <1>8, <1>9 DEF Safety, TxReady, RxReady, TiReady, InfoReady

(* A channel's ring goes when its interrupt is masked and no call uses it. *)
LEMMA CloseChannelRingsSafe ==
  ASSUME IInv, Safety, NEW t \in Tasks, CloseChannelRings(t)
  PROVE  Safety'
<1> USE DEF driverVars, deviceVars, chipVars
<1>1. /\ UNCHANGED << userData, chnInfo, open, ti, ier, online, fault, isDeviceOpen, cur >>
      /\ pc[t] = "disabled"
      /\ pc' = [pc EXCEPT ![t] = "ringless"]
      /\ info' = [info EXCEPT ![cur[t]].in = FALSE, ![cur[t]].out = FALSE]
      /\ chnMode' = [chnMode EXCEPT ![info[cur[t]].chn] = "INVALID"]
      /\ ~ti
  BY DEF CloseChannelRings, FreeChannel, TaskRuns
<1>2. IsChannel(cur[t]) /\ cur[t] \in open /\ cur[t] \in Fd /\ info[cur[t]].chn \in Channel
  BY <1>1 DEF IInv, TypeOK, InCall, IsChannel, Closing
<1>3. \A u \in Tasks : u # t => pc[u] \in Outside
  BY <1>1, OneCall DEF Calls
<1>4. /\ \A f \in Fd : /\ info'[f].type = info[f].type
                       /\ info'[f].chn = info[f].chn
                       /\ info'[f].live = info[f].live
      /\ \A f \in Fd : f # cur[t] => info'[f] = info[f]
  BY <1>1, <1>2 DEF IInv, TypeOK
<1>5. pc'[t] = "ringless" /\ \A u \in Tasks : u # t => pc'[u] = pc[u]
  BY <1>1 DEF IInv, TypeOK
<1>6. Found'
  BY <1>1, <1>3, <1>4, <1>5 DEF Safety, Found, IInv, TypeOK
<1>7. Kicked'
  BY <1>1, <1>3, <1>4, <1>5 DEF Safety, Kicked, IsChannel, Closing, IInv, TypeOK
<1>8. \A c \in Channel : InUse(c) => InUse(c)'
  BY <1>1, <1>4, <1>5 DEF InUse, Closing, IInv, TypeOK
<1>9. RxReady'
  <2>1. CASE info[cur[t]].chn = Rx
    <3>1. ~InUse(Rx)
      BY <1>1, <1>2, <2>1, InUseFound, NoOrphansInCall DEF Safety, IsChannel, Calls, Closing
    <3> QED
      BY <1>1, <3>1 DEF Safety, RxReady
  <2>2. CASE info[cur[t]].chn # Rx
    <3>1. chnMode'[Rx] = chnMode[Rx]
      BY <1>1, <2>2 DEF IInv, TypeOK
    <3> QED
      BY <1>1, <1>8, <3>1 DEF Safety, RxReady
  <2> QED
    BY <2>1, <2>2
<1>10. Live(userData) => Live(userData)'
  BY <1>1, <1>4 DEF Live
<1>11. \A u \in Tasks : pc[u] = "opening" => pc'[u] = "opening"
  BY <1>1, <1>5
<1> QED
  BY <1>1, <1>6, <1>7, <1>8, <1>9, <1>10, <1>11 DEF Safety, TxReady, TiReady, InfoReady

(* The device forgets the channel: no other channel is lost. *)
LEMMA CloseChannelFreeSafe ==
  ASSUME IInv, Safety, NEW t \in Tasks, CloseChannelFree(t)
  PROVE  Safety'
<1> USE DEF driverVars, chipVars
<1>1. /\ UNCHANGED << userData, ti, ier, online, isDeviceOpen, chnMode >>
      /\ pc[t] = "ringless"
      /\ pc' = [pc EXCEPT ![t] = "idle"]
      /\ cur' = [cur EXCEPT ![t] = Null]
      /\ ~ti
  BY DEF CloseChannelFree, TaskRuns
<1>2. /\ IsChannel(cur[t]) /\ cur[t] \in open /\ cur[t] \in Fd /\ info[cur[t]].chn \in Channel
      /\ cur[t] \in LiveChannels
  BY <1>1, NoOrphansInCall
  DEF IInv, TypeOK, InCall, IsChannel, Calls, Closing, Known, LiveChannels
<1>3. Live(userData) /\ userData # cur[t]
  BY <1>2 DEF IInv, Counted, Device, IsChannel, Live
<1>4. /\ info' = [info EXCEPT ![cur[t]].live = FALSE]
      /\ open' = open \ {cur[t]}
      /\ chnInfo' = [chnInfo EXCEPT ![info[cur[t]].chn] = Null]
      /\ fault' = fault
  BY <1>3 DEF CloseChannelFree
<1>5. \A f \in Fd : f # cur[t] => info'[f] = info[f]
  BY <1>4 DEF IInv, TypeOK
<1>6. \A f \in open' : info[f].type = "channel" =>
        /\ info[f].chn # info[cur[t]].chn
        /\ chnInfo'[info[f].chn] = chnInfo[info[f].chn]
  BY <1>2, <1>4 DEF Safety, Found, IsChannel, IInv, TypeOK
<1>7. /\ pc'[t] = "idle"
      /\ \A u \in Tasks : u # t => pc'[u] = pc[u] /\ cur'[u] = cur[u]
  BY <1>1 DEF IInv, TypeOK
<1>8. \A f \in open' : f \in open /\ f # cur[t] /\ info'[f] = info[f]
  BY <1>4, <1>5 DEF IInv, TypeOK
<1>9. Found'
  <2>1. ASSUME NEW f \in open', info[f].type = "channel",
               \A u \in Tasks : pc'[u] = "ringless" => cur'[u] # f
        PROVE  \A u \in Tasks : pc[u] = "ringless" => cur[u] # f
    BY <1>7, <1>8, <2>1
  <2> QED
    BY <1>6, <1>8, <2>1 DEF Safety, Found
<1>10. Kicked'
  <2>1. SUFFICES ASSUME NEW u \in Tasks, pc'[u] = "kick"
                 PROVE  /\ IsChannel(cur[u])' /\ info'[cur'[u]].out
                        /\ \A v \in Tasks : pc'[v] \in Closing => cur'[v] # cur'[u]
    BY DEF Kicked
  <2>2. u # t /\ pc[u] = "kick" /\ cur'[u] = cur[u]
    BY <1>7, <2>1
  <2>3. /\ IsChannel(cur[u]) /\ info[cur[u]].out
        /\ \A v \in Tasks : pc[v] \in Closing => cur[v] # cur[u]
    BY <2>2 DEF Safety, Kicked
  <2>4. cur[u] # cur[t]
    BY <1>1, <2>3 DEF Closing
  <2>5. cur[u] \in open'
    BY <1>4, <2>3, <2>4 DEF IsChannel
  <2> QED
    BY <1>7, <1>8, <2>2, <2>3, <2>5 DEF IsChannel, Closing
<1>11. \A c \in Channel : InUse(c) => InUse(c)'
  <2>1. SUFFICES ASSUME NEW c \in Channel, InUse(c)
                 PROVE  InUse(c)'
    OBVIOUS
  <2>2. PICK f \in open : /\ info[f].type = "channel" /\ info[f].chn = c
                          /\ \A u \in Tasks : pc[u] \in Closing => cur[u] # f
    BY <2>1 DEF InUse
  <2>3. f \in open'
    BY <1>1, <1>4, <2>2 DEF Closing
  <2> QED
    BY <1>7, <1>8, <2>2, <2>3 DEF InUse, Closing
<1>12. Live(userData)'
  BY <1>1, <1>3, <1>5 DEF Live
<1> QED
  BY <1>1, <1>4, <1>9, <1>10, <1>11, <1>12 DEF Safety, TxReady, RxReady, TiReady, InfoReady

(* The device goes when no channel is left. *)
LEMMA CloseDeviceFreeSafe ==
  ASSUME IInv, Safety, NEW t \in Tasks, CloseDeviceFree(t)
  PROVE  Safety'
<1> USE DEF driverVars, chipVars
<1>1. /\ UNCHANGED << userData, chnInfo, ti, ier, online, chnMode, fault >>
      /\ ~isDeviceOpen'
      /\ open' = open \ {cur[t]}
      /\ pc[t] = "stopped"
      /\ ~ti
  BY DEF CloseDeviceFree, TaskRuns
<1>2. LiveChannels = {} /\ ~online
  BY <1>1 DEF IInv, InCall
<1>3. \A f \in open : info[f].type # "channel"
  BY <1>1, <1>2, NoOrphansInCall DEF IInv, TypeOK, Known, Calls, LiveChannels
<1>4. \A u \in Tasks : pc[u] # "kick"
  BY <1>3 DEF Safety, Kicked, IsChannel
<1>5. \A f \in Fd : info'[f].type = info[f].type
  BY DEF CloseDeviceFree, IInv, TypeOK
<1>6. Found' /\ Kicked'
  BY <1>1, <1>3, <1>4, <1>5 DEF Found, Kicked, CloseDeviceFree, IInv, TypeOK
<1>7. ~InUse(Tx)
  BY <1>3 DEF InUse
<1> QED
  BY <1>1, <1>2, <1>6, <1>7 DEF Safety, TxReady, RxReady, TiReady, InfoReady

(* wncDevIODevDestroy, when the other tasks are outside any call. *)
LEMMA DestroySafe ==
  ASSUME IInv, Safety, Undisturbed, Regular, NEW t \in Tasks,
         DevDestroyCheck(t) \/ DevDestroyDelete(t)
  PROVE  Safety'
<1> USE DEF driverVars, deviceVars, chipVars, fdVars
<1>1. /\ UNCHANGED << userData, chnInfo, info, open, chnMode, ier, online, ti, fault, cur >>
      /\ (isDeviceOpen' => isDeviceOpen)
  BY DEF DevDestroyCheck, DevDestroyDelete
<1>2. \A u \in Tasks : pc'[u] = pc[u] \/ (pc[u] \in {"idle", "destroying"} /\ pc'[u] \in {"idle", "destroying"})
  <2>1. CASE DevDestroyCheck(t)
    BY <2>1 DEF DevDestroyCheck, IInv, TypeOK
  <2>2. CASE DevDestroyDelete(t)
    <3>1. pc[t] = "destroying" /\ \A u \in Tasks \ {t} : pc[u] = "idle"
      BY <2>2, CaughtTasks DEF Undisturbed
    <3>2. \A u \in Tasks : pc'[u] = "idle"
      BY <2>2, <3>1, CaughtTasks DEF Regular
    <3> QED
      BY <3>1, <3>2
  <2> QED
    BY <2>1, <2>2
<1>3. isDeviceOpen => Live(userData) \/ \E u \in Tasks : pc[u] = "opening"
  BY DEF Safety, InfoReady
<1> QED
  BY <1>1, <1>2, <1>3, SafetyFrame DEF IInv, Safety, Closing

(* A call begins or goes on only while nobody destroys the device. *)
LEMMA CallUndisturbed ==
  ASSUME IInv, Undisturbed, Regular, NEW t \in Tasks, Call(t)
  PROVE  Undisturbed'
<1> USE DEF driverVars, deviceVars, chipVars, fdVars, taskVars
<1>1. CASE DevDestroyCheck(t)
  <2>1. /\ orphans' = orphans /\ isDeviceOpen' = isDeviceOpen /\ ~isDeviceOpen
        /\ \A u \in Tasks : pc[u] = "idle"
        /\ pc' = [pc EXCEPT ![t] = "destroying"]
    BY <1>1 DEF DevDestroyCheck, Regular
  <2> QED
    BY <2>1 DEF Undisturbed, IInv, TypeOK
<1>2. CASE DevDestroyDelete(t)
  <2>1. orphans' = { f \in Fd : info[f].live } /\ ~isDeviceOpen
    BY <1>2 DEF DevDestroyDelete, Undisturbed
  <2>2. orphans' = {}
    BY <2>1, ClosedIsDead DEF Undisturbed
  <2>3. \A u \in Tasks : pc'[u] = "idle"
    BY <1>2, CaughtTasks DEF Undisturbed, Regular
  <2> QED
    BY <2>2, <2>3 DEF Undisturbed
<1>3. CASE LostCall(t) \/ \E f \in open : OrphanCall(t, f)
  BY <1>3 DEF LostCall, OrphanCall, Undisturbed
<1>4. ASSUME orphans' = orphans,
             \A u \in Tasks : u # t => pc'[u] = pc[u],
             pc'[t] \notin {"lost", "destroying"},
             pc[t] \in Calls \cup {"kick"} \/ Undestroyed
      PROVE  Undisturbed'
  <2>1. \A u \in Tasks : pc[u] # "destroying"
    BY <1>4 DEF Undisturbed, Undestroyed, Regular, Calls
  <2> QED
    BY <1>4, <2>1 DEF Undisturbed
<1>5. CASE OpenDevice(t) \/ OpenDeviceBusy(t) \/ OpenDeviceInfo(t) \/ OpenDeviceNoMemory(t)
  BY <1>4, <1>5 DEF OpenDevice, OpenDeviceBusy, OpenDeviceInfo, OpenDeviceNoMemory, NewFd,
                    MayCall, Calls, IInv, TypeOK
<1>6. CASE \E c \in Channel, access \in Access : OpenChannel(t, c, access)
  <2>1. orphans' = orphans /\ pc' = pc /\ pc[t] = "idle" /\ Undestroyed
    BY <1>6 DEF OpenChannel, NewFd, MayCall
  <2> QED
    BY <1>4, <2>1
<1>7. CASE CloseChannelRings(t) \/ CloseChannelFree(t) \/ CloseDeviceFree(t) \/ Kick(t)
  <2>1. /\ orphans' = orphans /\ pc[t] \in Calls \cup {"kick"}
        /\ pc' = [pc EXCEPT ![t] = "ringless"] \/ pc' = [pc EXCEPT ![t] = "idle"]
    BY <1>7 DEF CloseChannelRings, CloseChannelFree, CloseDeviceFree, Kick, Calls
  <2> QED
    BY <1>4, <2>1 DEF IInv, TypeOK
<1>8. ASSUME NEW f \in open \ orphans,
             \/ CloseChannelDisable(t, f) \/ CloseChannelRefused(t, f)
             \/ CloseDeviceRefused(t, f) \/ CloseDeviceStop(t, f) \/ WriteBuf(t, f)
      PROVE  Undisturbed'
  <2>1. /\ orphans' = orphans /\ pc[t] = "idle" /\ Undestroyed
        /\ \/ pc' = pc
           \/ pc' = [pc EXCEPT ![t] = "disabled"]
           \/ pc' = [pc EXCEPT ![t] = "stopped"]
           \/ pc' = [pc EXCEPT ![t] = "kick"]
    BY <1>8 DEF CloseChannelDisable, CloseChannelRefused, CloseDeviceRefused, CloseDeviceStop,
                WriteBuf, MayCall
  <2> QED
    BY <1>4, <2>1 DEF IInv, TypeOK
<1>9. ASSUME NEW f \in open \ orphans,
             \/ ChnEnable(t, f) \/ ChnDisable(t, f) \/ Start(t, f) \/ Stop(t, f)
             \/ \E c \in Channel : ChanGet(t, f, c)
             \/ \E m \in {"RECEIVE", "TRANSMIT", "INACTIVE", "INVALID"} : SetMode(t, f, m)
      PROVE  Undisturbed'
  <2>1. orphans' = orphans /\ pc' = pc /\ pc[t] = "idle" /\ Undestroyed
    BY <1>9 DEF ChnEnable, ChnDisable, Start, Stop, ChanGet, SetMode, MayCall
  <2> QED
    BY <1>4, <2>1
<1> QED
  BY <1>1, <1>2, <1>3, <1>5, <1>6, <1>7, <1>8, <1>9 DEF Call

LEMMA OthersUndisturbed ==
  ASSUME Undisturbed, Driver \/ Interrupt \/ UNCHANGED vars
  PROVE  Undisturbed'
<1>1. UNCHANGED << orphans, pc >> /\ (isDeviceOpen' => isDeviceOpen)
  <2>1. CASE Driver
    BY <2>1 DEF Driver, DrvInstall, DrvRemove, DevCreate, deviceVars, fdVars, taskVars
  <2>2. CASE Interrupt
    <3>1. UNCHANGED deviceVars /\ UNCHANGED fdVars /\ UNCHANGED taskVars
      BY <2>2, Zenon DEF Interrupt, ChipTransmit, IsrRx, IsrTx, IsrError
    <3> QED
      BY <3>1 DEF deviceVars, fdVars, taskVars
  <2>3. CASE UNCHANGED vars
    BY <2>3 DEF vars
  <2> QED
    BY <2>1, <2>2, <2>3
<1> QED
  BY <1>1 DEF Undisturbed

LEMMA CallSafe ==
  ASSUME IInv, Safety, Undisturbed, Regular, NEW t \in Tasks, Call(t)
  PROVE  Safety'
<1>1. /\ ~OpenDeviceBusy(t) /\ ~OpenDeviceNoMemory(t)
      /\ \A f \in open : ~CloseChannelRefused(t, f) /\ ~OrphanCall(t, f)
      /\ ~LostCall(t)
  BY DEF OpenDeviceBusy, OpenDeviceNoMemory, CloseChannelRefused, OrphanCall, LostCall,
         Undisturbed, Regular
<1>2. orphans = {}
  BY DEF Undisturbed
<1> QED
  BY <1>1, <1>2, DestroySafe, OpenDeviceSafe, OpenDeviceInfoSafe, OpenChannelSafe, CloseChannelRingsSafe,
     CloseChannelFreeSafe, CloseDeviceFreeSafe, KickSafe, ShareSafe, CloseDeviceRefusedSafe,
     CloseDeviceStopSafe, SwitchOnSafe, QuietCallSafe
  DEF Call

(* Neither an interrupt nor a call follows a pointer that is not there. *)
THEOREM NoFaultHolds == Spec => []NoFault
<1> DEFINE Safe == Regular => Safety /\ Undisturbed
<1>1. Init => Safe
  BY DEF Init, Safety, Undisturbed, Found, Kicked, TxReady, RxReady, TiReady, InfoReady
<1>2. IInv /\ Safe /\ [Next]_vars => Safe'
  <2>1. SUFFICES ASSUME IInv, Safe, [Next]_vars, Regular'
                 PROVE  Safety' /\ Undisturbed'
    OBVIOUS
  <2>2. Regular /\ Safety /\ Undisturbed
    BY <2>1, ClientStays DEF Regular
  <2>3. Safety'
    BY <2>1, <2>2, DriverSafe, InterruptSafe, CallSafe, StutterSafe DEF Next, Undisturbed
  <2>4. Undisturbed'
    BY <2>1, <2>2, CallUndisturbed, OthersUndisturbed DEF Next
  <2> QED
    BY <2>3, <2>4
<1>3. Safe => NoFault
  BY DEF NoFault, Regular, Safety
<1> QED
  BY Invariance, <1>1, <1>2, <1>3, PTL DEF Spec
=============================================================================
