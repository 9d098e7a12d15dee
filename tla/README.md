# Verification of the PR6120 drivers

TLA+ models of the VxWorks drivers of the PR6120 board and of the program that
uses them, TLC configurations that check them on small instances, and TLAPS
proofs of results that hold for every instance. Everything is translated from
the code under `src/`; `PROJECT.json` gives, for each definition, the lines it
stands for.

## 1. The system and its components

The repository drives one PCI board: two SJA1000 CAN controllers, NS16550 serial
ports and an Intel gigabit Ethernet controller, under VxWorks on one processor.
A demo program bridges serial, CAN and UDP channels.

```
                 demo/main.c: a thread per link, main parses, joins, releases
      read/write/select |                      |                    | sockets
                        |                      |                    |
 can/wncanDevIO.c   rings, wake-up lists   sio/vxbNs16550Sio.c   nic/gei825xxVxbEnd.c
        |   CAN_xxx (can_api.c)              interrupt, jobs       interrupt, job, rings,
 can/sja1000.c, wnCAN.c                          |                 receive filter
        |   registers     ^ wncDevIOIsrHandler   |                      |
 can/pr6120_can.c, sys_pr6120_can.c          16550 UARTs           PRO/1000, PHY
        |             PR6120_CAN_ISR          (external)            (external)
       SJA1000 controllers (external)
```

| component | state | operations | hard behaviour | what makes it correct |
|---|---|---|---|---|
| CAN transmit path (`wncanDevIO.c`, `sja1000.c`, `sys_pr6120_can.c`) | output ring, the controller's transmit request, IR, wake-up list | `write()`, TX and TXCLR callbacks, `select()`, abort, halt, flush | ring and controller are restarted by two parties, under locks that do not overlap; the status register is cleared by reading it | no accepted message is stranded, duplicated, invented or overtaken; a blocked writer wakes up to room |
| CAN receive path (same files) | receive FIFO, input ring, wake-up list, IER.RIE | receive interrupt, `read()`, `select()`, commands that read the same registers | the task and the interrupt read one window; reset empties it | bus order, at most once, no frame released unread, nobody sleeps on a message |
| CAN device and channel life (`wncanDevIO.c`, `wnCAN.c`, `pr6120_can.c`) | driver and device instances, open counts, the pointers the handler follows, channel modes, IER | install, create, destroy, `open()`, `close()`, `ioctl()` | interrupts between any two steps; `write()` and destroy outside the mutex; half-done failures | the handler never follows a dead pointer; what is closed is gone and reusable |
| SJA1000 channel operations (`sja1000.c`) | `csData`, the transmit buffer, IER | WriteID, WriteData, SetRTR, Tx, TxMsg, enable | `csData` is shared with the interrupt handler; WriteID passes through reset mode | a frame on the bus is one frame somebody asked for; interrupts come back |
| SJA1000 modes, filters, bit timing (`sja1000.c`) | MOD, ACR, AMR, BTR | init, start, stop, sleep, filters | registers change meaning in reset mode; loops wait for MOD | the acceptance, timing and mode the user asked for are in force; commands end |
| Board support, interrupt dispatch (`sys_pr6120_can.c`, `pr6120_can*.c`) | device table, `allocated` flags | boot, `PR6120_CAN_ISR` | one interrupt, two controllers | an unopened controller is never serviced |
| Bridge (`demo/main.c`) | channels, links, stop flag | one copying thread per link | partial failures of initialisation, shared outputs, stop | threads run on open channels; a sole writer's message is whole; everything used is closed; stop ends |
| Ethernet: transmit ring (`gei825xxVxbEnd.c`) | descriptors, free count, remembered offload context, stall flag | send, clean-up, restart, polled send | deferred clean-up, stall and restart, a context remembered before the packet fits | a buffer goes back after it was sent; packets in order, each under its own request; nobody is stalled for ever |
| Ethernet: interrupts, receive ring, link, life (same file) | descriptors, masks, `geiIntPending`, `geiMoreRx`, link status | handler, job, monitor, start, stop, load, unload, unlink, polled mode | stop against a running job with a bounded wait | driver and chip agree on the ring; no frame lies unannounced; the MUX knows the link |
| Ethernet: receive filter (same file) | address, flags, multicast list, filter registers | `ioctl()` commands, multicast add and delete, start | registers are rewritten one by one while frames arrive; a chip erratum | what was asked for is heard, and little else |
| Serial driver (`vxbNs16550Sio.c`) | IER shadow, `txDefer`, deferral queue | attach, connect, interrupt, deferred jobs, start-up, options, modes, polled I/O | three contexts change one shadow register; jobs end while work arrives | no queued character is stuck, no source masked for ever; channels do not share registers or numbers |
| Registries (`canBoard.c`, `canController.c`, `canFixedLL.c`) | linked lists filled at boot | add, find | none: boot is sequential | - |
| WNCAN API (`can_api.c`) | none | dispatch | none | - |
| CAN message FIFO (`can_fifo.c`) | linked ring, head, tail | create, get, put, destroy | has no caller | - |
| Show routine, UDP tools | none | printing | none | - |

`PROJECT.json` lists every component with what is modelled of it, and every
hazard with the line where it bites and the properties that cover it.

## 2. Modules

| module | models |
|---|---|
| `LossyFifo` | abstract specification: a queue that may lose a run of items and never reorders, repeats or invents one |
| `Rings`, `RingLemmas` | a ring buffer as a sequence of messages, its entries, and that none is in it twice; what putting and taking do to them |
| `CanTx`, `CanTxMC`, `CanTxProofs` | the transmit path of one channel, with the refinement to `LossyFifo`; its instances; theorems |
| `CanRx`, `CanRxMC`, `CanRxProofs` | the receive path of one controller; likewise |
| `CanDevIO`, `CanDevIOMC`, `CanDevIOProofs` | the life of the device, its channels and the pointers the handler follows; theorems |
| `CanController`, `CanControllerMC`, `CanControllerProofs` | the operations of `sja1000.c` on one controller, register access by register access; theorems |
| `GeiTx`, `GeiTxMC` | the transmit ring of the Ethernet driver |
| `GeiEnd`, `GeiEndMC`, `GeiEndProofs` | its interrupts, receive ring, link and life; theorems |
| `GeiFilter`, `GeiFilterMC` | its receive filter and multicast subscriptions |
| `GeiProofs` | theorems about the transmit ring and the receive filter, which share no state |
| `NsSio` | one channel of the serial driver |
| `NsSioAttach` | how the serial driver finds and connects its channels |
| `NsSioSystem`, `NsSioMC` | the composition of the two: boot, then life; its instance |
| `Bridge`, `BridgeMC` | the demo program |
| `SerialProofs` | theorems about the serial driver and the demo program, which share no state |

### How the models correspond to the code

*Steps.* One processor. An action of an interrupt handler ends at each register
access that another party could act between; while the CAN handler is between
two of its accesses no task moves. A task's call is cut where `intLock()` is not
held and no mutex protects what it does, so other tasks and interrupts come in
between, for example between the put of `write()` (`WriteBuf`) and its jump start
(`KickLock`, `Kick`). The hardware (`ChipTransmit`, `ChipReceive`, `ChipSend`, ...)
is external and moves at any time, as the registers the code reads allow.

*CanTx.* `outputBuf` is the output ring, `txReq` the message the controller was
asked to send (SR.TBS is clear while there is one), `ir` the interrupt register,
which `IsrReadStatus` clears by reading, `waiting` the wake-up list.
`GetIntStatus` gives later sources precedence, as the assignments of
`SJA1000_GetIntStatus` do. `TxClr` is the TXCLR callback, which the interrupt
handler and the jump start share: take from the ring, hand to `CAN_TxMsg`, put
back if it refuses. `PromptIrq` says whether an interrupt is taken before the
next step of a task, or may be late because tasks run with interrupts locked.
The channel is in transmit mode with its interrupt enabled; the commands that
change this are the `"disable"` disturbance and `CanDevIO`.

*CanRx.* `rxFifo` is the controller's receive FIFO and its head the receive
window (`Window`, stale bytes when empty). `IsrRead` reads and releases the
window, `IsrPut` queues the message and wakes the readers. Each ioctl that
touches the window, the receive interrupt or reset mode is a sequence of
actions under the device mutex (`cmd`): `GetId`/`GetData`/`GetRelease`,
`WriteIdMask` ... `WriteIdUnmask`, `FilterReset`/`FilterLeave`, `Stop`, `Start`.

*CanDevIO.* `info` is the memory behind each descriptor (`live` until it is
freed), `userData` and `chnInfo` the pointers `wncDevIOIsrHandler` follows;
`HandlerFinds` says whether they lead somewhere. A step that follows a pointer
that does not sets `fault` to `"pointer"`; a receive interrupt for a channel out
of receive mode, whose frame `CAN_ReadData` never releases, sets it to
`"storm"`. Under the mutex, `open()` and `close()` are cut only where an
interrupt could see a difference. `wncDevIODevDestroy` takes no mutex: its tests
(`DevDestroyCheck`) and the deletion (`DevDestroyDelete`) are steps between which
other tasks run. What the deletion leaves behind is `orphans`, the live descriptors
that still point to the freed instance (a call on one is `OrphanCall`), and tasks at
`"lost"`, which were waiting for the mutex or about to give it (`LostCall`);
`overtaken` remembers the descriptors opened in that gap. `client`, chosen at the start, is what the
clients do besides the protocol of `demo/main.c` (open the device, get channels,
open and enable them, start; close in the reverse order), and how many
descriptors they use.

*CanController.* `cmd` is the command under way (the device mutex admits one):
its operation, the step it is at, the MOD and IER values it remembers
(`regMod`). `EnterReset` .. `LeaveReset`, `Spin`, `Delay` are the sections the
commands share in the code; the loops that wait for MOD are `Spin`. `TxMsg` runs
with interrupts locked and so between any two steps. `acr` and `amr` are what the
same addresses mean in reset mode; `Junk` is what a frame written there leaves.
An identifier has two halves because a standard frame's filter compares the
second half with data. `wantId`, `wantMask`, `wantIer`, `timing` and `online`
remember what the last calls asked for.

*GeiTx.* `ring` is the descriptors from `geiTxCons` to `geiTxProd`, `ghost` those
behind `geiTxCons` that the chip has yet to take (the driver decides by done bits,
and a ring that is filled a whole turn ahead of the chip makes old bits look
new); `tdh` and `tdt` are relative to `geiTxCons`. `END_TX_SEM` makes send and
clean-up one step each. `blocked` is the protocols whose send was refused and
that wait for `muxTxRestart`. `wrapped` and `uncounted` record what the properties
excuse: that the ring was filled a whole turn ahead of the chip, and that a context
descriptor of a failed first attempt, which `geiTxSinceMark` does not count, went into it.

*GeiEnd.* `ctl` is where the controlling task is, `job` where `geiEndIntHandle`
is; a step of the job is one received frame or one register access. `mblk` is
the slots whose tuple the driver holds, `desc` what the chip sees. `intFunc`
tells the two handlers apart (`geiEndIntCauses` by ICS or the alternative for
emulated chips). `leaky`, `badReset`, `rebuilt`, `polled`, `expired` and `late` record
what the properties excuse.

*GeiFilter.* A command of `geiEndIoctl`, a multicast request or a start sets
`step` to the register written next and the steps follow the order of
`geiEndRxConfig` and `geiEndHashTblPopulate`; frames may arrive between any two.
`par` and `mar` are the perfect-match slots and the hash registers, `Restore` the
rewriting of the even register on an 82544, whose contents a write to the odd
one may disturb. `asked` counts what clients were told OK for, `misled` the
groups named in commands that did nothing.

*NsSio* and *NsSioAttach.* `ier` is the shadow, `IER` the register. The handler
masks what interrupted and posts a job; `job` and `burst` say where the deferral
task is in `ns16550vxbIntWr2` or `ns16550vxbIntRd2`. What is done under the spin
lock is one step, because on a uniprocessor it is an interrupt lock. tyLib is
external: `out` characters and its `busy` flag. `IntOther` is the interrupt of
another channel of the board, whose handler visits this one too. `NsSioAttach`
steps through the base addresses of each device as `ns16550vxbInstInit` does
(`Layout` is the table of supported boards), then connects number by number.

*Bridge.* `main` is where `main()` is, `pc[l]` where the thread of link `l` is.
A CAN channel is written in chunks of 8 bytes after a `select()` each, serial and
UDP channels in one call; `ring` is the output ring `CanTx` is about, `inq` the
message that waits at an input. `fds` is the open descriptors by channel.

### Assumptions about what is outside `src/`

- Interrupts preempt tasks and are not preempted; `intLock()` keeps both out.
- `selWakeup` of a task that is not yet asleep is remembered (it gives a
  semaphore); `selWakeupAll` wakes every task on the list, and a task stays on it
  until its own FIOUNSELECT.
- `rngBufPut` of a whole message stores all or nothing: ring sizes are multiples
  of the message size (`wncUtilCalcRingBufSize`).
- The I/O system forgets a descriptor whatever the driver's `close()` returns.
- Following freed or uninitialised memory is a fault, whatever it happens to hold.
- The SJA1000: reading IR clears it except RI; entering reset mode aborts the
  transmission and empties the receive FIFO; a bus off enters reset mode; the
  sleep bit cannot be set in reset mode (the comment at `sja1000.c:1822`); what
  a write of the filter mode bit does in operating mode is left open.
- `CAN_WriteData` is called by clients that serialise themselves: no ioctl
  command reaches it.
- `muxTxRestart` makes a protocol send again; a link that comes up restarts
  nobody (the job that announces it is VxWorks code). The network pool may be
  empty at any time a run allows for; polled mode is not entered between the
  frames of one run of the job.
- `etherMultiAdd` and `etherMultiDel` keep a list with a count per address and
  say when the list changed. The filter registers may or may not survive a reset.
- One task serves the deferral queue of the serial driver, one runs network jobs.
- The 16550's line-status interrupt is never enabled; a deferral queue that was
  not created loses its jobs.

## 3. Runs

Several properties are conjunctions of named parts; the parts are what the table
speaks about.

| run | instance | properties, and what they show |
|---|---|---|
| `tx_two_writers` | 2 writers, 2 messages each, ring of 2, late interrupts, aborts; fair | `NoStrandedMessage`: a queued message always has somebody who will send it. `Delivered`: it goes out unless aborted. `SelectReturns`. `TypeOK` with the ring's bound |
| `tx_disturbed` | 1 writer, 4 messages, ring of 2, every disturbance, prompt interrupts | `ExactlyOnce` (no message twice; every accepted one accounted for), `WokenWriterHasSpace`, `ImplementsLossyFifo`: transmit buffer and ring together implement the abstract queue |
| `rx_two_readers` | 2 readers, 5 frames, FIFO and ring of 2, all commands but get and bus off | `SleepsOnEmptyRing`, `NoFrameUnseen`, `ImplementsLossyFifo`: FIFO, handler and ring together implement the abstract queue. `TypeOK` |
| `rx_progress` | 1 reader, 3 frames, the commands that reset or mask for a while; fair | `FramesServed`: a woken reader finds a message, frames are fetched, `select()` returns |
| `devio` | 2 tasks, five kinds of clients, 3 to 5 descriptors over time | `NoFault`, `ClosedIsGone` (the count of open channels; the controller is released), `LifeInOrder` (the device outlives its channels, but for those a destroy has overtaken): which misuse breaks what, see below |
| `controller` | three programs of clients, a standard and an extended identifier and mask | `FilterAsAsked`, `CommandsRestore` (mode, bit timing, interrupts), `FrameAsAsked`: no frame is a mixture, `CommandsEnd` |
| `gei_tx` | 2 protocols, 3 packets, 5 descriptors, with and without an offload request, both formats, marks after 2 descriptors, 2 mishaps; fair | `FreedAfterSent`, `SentAsAsked` (order, own offload request), `RingInOrder` (nothing leaks, the mark invariant of `geiEndTbdClean`, a stall has a reason), `SendersRestarted` |
| `gei_end` | 3 descriptors, 4 frames, 2 starts, one flap of the link, one mishap, two chips | `AllAgree` (ring indices, announced frames, masks, link state), `NoFault`, `BuffersAccounted`, `DeliveredInOrder` |
| `gei_live` | the same with 3 frames and one start; fair | `RingAndLinkServed`: the ring is drained, a link that stays is announced |
| `gei_filter` | 2 station addresses, 4 groups, one slot, two hash registers, both kinds of chip | `FilterAgrees` (what is asked for is heard, nothing else but what shares a hash bit, VLAN stripping), `StationHeard` at any time, `SubscribersHeard` |
| `sio` | ten boards with two on-chip UARTs; one channel of the PR6120, FIFO of 2, 3 calls; fair | `WorkIsPending` (transmitter and receiver are never forgotten, one job each), `NoOverrun`, `ChannelsFound` (registers apart, the channel one asks for is the connected one), `Drained`, `InputRead` |
| `bridge` | five configurations, up to 2 links, ring of one frame, four kinds of failure; fair | `ChannelsHandled`, `SoleWriterLosesNothing`, `OneMessageAfterStop`, `StopEnds` |

*Which misuse of the device breaks what* (`devio`; found by running one misuse at
a time). `NoFault` is broken by every one but closing the device before its
channels; the count of open channels only by closing a channel that has no mode;
the release of the controller only by closing the device first and by a failed
`malloc()`. `LifeInOrder` withstands all of them but one race, a channel opened
between the tests and the deletion of a `wncDevIODevDestroy()`; it excepts exactly
those (`overtaken`). The properties say so in their
premises, and the kinds of clients in `ClientsUsed` are those that reach each
premise: keeping the protocol, `device_first` alone, everything but `no_mode`,
everything but `device_first` and `no_memory`, everything.

### Bounds, and why they are enough

- *CAN paths.* A ring of 2 is the smallest in which order can go wrong and that is
  neither empty nor full in between; with 4 messages it fills, refuses, drains
  and fills again. Two writers are enough for the races of the jump start: a
  third would meet the same ring states. Five frames overflow a FIFO and a ring of
  2 each and leave one in the handler. No message in the runs has an illegal
  length; the theorem `MessagesConserved` covers any set of them.
- *CanDevIO.* Five descriptors open the device and both channels and reopen two of
  them, so pointers to freed memory exist while new calls run; four are enough to
  open the device and a channel twice. The careless clients have three, the device,
  a channel and one reopened: a destroy that overtakes an open needs two. Tasks are interchangeable, so symmetry is
  sound (the run checks invariants only); no other run uses symmetry.
- *CanController.* A client keeps to one of three sets of calls (filter and sleep;
  messages and aborts; timing, filter, remote frames and reopening) because all
  of them together are beyond TLC; the theorems have no such bound. One standard
  and one extended identifier and mask are enough, since a filter is confused
  only between the formats and between the halves.
- *GeiTx.* Five descriptors hold a fragmented packet with its context and wrap
  within three packets; a `CleanThresh` of 1 makes the clean-up on the send path
  happen, and a `MarkThresh` of 2, larger than a packet of one piece, makes what is counted
  decide when the next interrupt is asked for. `MaxMishaps` counts empty pools, lost links and switches to
  polled mode. `LapBound` keeps the chip at most a whole ring behind; a chip further
  behind has been overtaken, which `wrapped` tells. The run
  has one offload request besides none; that several requests supersede each other on
  the ring before they are used is covered by the theorem `PacketsSentAsAsked` only.
- *GeiEnd.* Four frames wrap around three descriptors with `GEI_MAX_RX` of 1, so the
  job asks for another run; two starts see what the first left. A mishap is a
  failed reset or PHY read, idle errors, a start with an empty pool, a stop that
  runs into its timeout, or polled mode. The run has one of them; what several of
  them do together (`rebuilt` needs two failed resets) the theorems cover.
- *GeiFilter.* One slot for four groups puts three in the hash table, two of them
  in one bit and one in each register of an odd and even pair; two subscriptions
  to one group exercise the counts.
- *NsSio.* A FIFO and an output buffer of 2 are full, half full and empty; three
  calls and one change of CTS reach every mode and option. `Followed`: only
  channels of the PR6120 are followed after boot, and only if nothing failed; all
  ten boards are searched.
- *Bridge.* Two links give every sharing there is: a common input, a common output,
  a pair of opposite links. One message waits at an input at a time, and only
  where a link reads; messages are one chunk, two, empty or the stop message.
  `after` counts to two. Parsing stops at the first line that fails, as in the
  code, and each port is configured once.

*Deadlock* is looked for in `gei_filter`, whose commands can always be given again. The
other instances bound messages, frames, descriptors, calls or links and come to
rest, as the drivers do when nobody calls them.

*Fairness.* Weak, and only of what the processor or the hardware owes:

- `CanTx`: the handler of a raised interrupt, the controller's transmission
  (another node acknowledges), tasks inside a driver call.
- `CanRx`: the handler, a command in progress, and the test of `select()`; its return has strong
  fairness, because it waits for the device mutex, which `semGive` hands to a
  waiting task. No frame is obliged to arrive.
- `CanController`: the steps of the command under way. The loops may spin for ever:
  that is what `CommandsEnd` is about.
- `GeiTx`: the chip's transmission and write-back, and the clean-up job.
  `GeiEnd`: handler, job and the MII monitor, which is periodic. Nobody has to
  send, plug, start or stop.
- `NsSio`: the line sends (`ChipSend`), this channel's interrupt is taken, the
  deferral task runs, a `write()` that has begun goes on. `Drained` supposes that
  input falls silent and `InputRead` that output does: one task runs both jobs and a job
  does not end while it has work. Both say so in their premises.
- `Bridge`: `main` and each thread, scheduled by the kernel. The network, the bus and
  the operator are not fair: `StopEnds` names the inputs and rings it needs as
  premises.

## 4. What the code does that a reader may not expect

Met while modelling. Each is why a property has a premise or a run leaves
something out; the hazards in `PROJECT.json` have the lines.

CAN:

- `SJA1000_GetIntStatus` clears IR by reading it, and an error, wake-up or bus-off
  bit hides the transmit bit read with it. The ring keeps its messages, and since
  it is not empty no later `write()` restarts it.
- A message `CAN_TxMsg` refuses because the controller is busy goes back to the end of the
  ring. One writer alone never sees it; with two, messages of one writer can swap.
- In reset mode `SJA1000_TxMsg` returns OK, loses the message and writes it over the
  acceptance registers.
- After WNCAN_HALT TRUE and FALSE a non-empty output ring is never restarted, and
  `SJA1000_Stop` has cleared the single-filter bit.
- FIOFLUSH and FIOWFLUSH make room but wake no writer that sleeps in `select()`.
- WNCAN_CHNCONFIG_GET releases the receive buffer after the interrupt may have done
  so: the next frame is dropped unread.
- The handler ignores `newdata`: if the controller goes bus off between the status and the
  read, stale bytes become a message.
- The commands that wait for MOD wait for ever after a bus off, or if MOD had the
  sleep bit, with the device mutex held.
- FIOFLUSH of a channel opened for one direction follows the null pointer of the other
  direction's ring, and the FIO commands do not ask whether the descriptor is a channel.
- A second `open()` of the device follows a null pointer; a failed `malloc()` leaves
  the device open without a descriptor; a channel without a mode cannot be closed;
  `close()` under a `write()` frees what the jump start follows; a controller started
  before its receive channel is open lets the handler follow uninitialised memory.
- `wncDevIODevDestroy` tests without the mutex that nothing is open, and deletes mutex
  and device later. An `open()` in between is left with an open channel on a device that is
  gone, and every later call on that descriptor follows freed memory, as do the calls that
  were waiting for the mutex. The comment at `wncanDevIO.c:332` leaves it to the user.

Ethernet:

- `geiEndStop` waits a bounded time for the job, which may itself wait for
  `geiDevSem`, held by the stop; it then frees the rings. A stop may also come
  between the job's last steps, after it has cleared `geiIntPending`.
- Nobody looks at what `geiReset` returns. If the resets of a stop and of the next
  start both fail, the receiver runs while `geiEndStart` rebuilds the ring: frames
  lie where the driver does not expect them, come out of order and unannounced. One
  failed reset does not do that, but lets the chip write to buffers that are gone.
- A ring filled a whole turn ahead of the chip makes the clean-up take descriptors
  that are new for done ones. The properties of `GeiTx` exclude this with `wrapped`.
- The context descriptor of an attempt that does not fit stays in the ring (the code
  asks `XXX what about the context descriptor?`). What the driver remembers is still what
  the chip was given, but `geiTxSinceMark` grows only by what the attempt that succeeds
  uses: a ring can fill without a descriptor that interrupts undelayed (`uncounted`).
- A stalled protocol is not restarted by a link that comes back.
- Groups in the list are missed for a moment while the hash table is rewritten.
  Adding or deleting a group while the device is down is answered OK and does
  nothing. On the 82544 clearing the table may leave a bit set.

Serial:

- `ns16550vxbIntWr2` takes LSR's word for a whole FIFO; `ns16550vxbHup` may have
  disabled the FIFO, and polled output may come in between.
- A PLB device that fails to attach uses up no number, so later ones share numbers:
  one channel is connected and another returned.
- `ns16550vxbOptsSet` with flow control takes the transmit interrupt out of the shadow: output
  that waits for it, with no job pending, stops until something else enables it (`muted`). Without flow
  control `ns16550vxbModeSet` enables both interrupts in the register and not in the
  shadow, so the next handler turns them off again.
- One channel's interrupt enables another's that has no deferral queue yet.

Bridge:

- A CAN channel whose initialisation fails half-way leaves its descriptors open.
- Two links that write to one CAN port can cut each other's messages short.
- A thread that waits for its input does not see stop, and `main` waits for it.

## 5. Proofs

Thirty-two theorems, in eight modules. Each holds for every value of the constants
allowed by the named assumption of the module, so none of the bounds of section 3
applies. Premises beyond that are named in the theorem and below.

`CanTxProofs`, for any set of writers, number of messages, ring size, disturbances
and interrupt latency (`TxAssumption`: the ring holds at least one message,
`NoMsg` is no message):

- `TypeCorrect`: `Spec => []TypeOK`, which is inductive. The part that is not routine
  is the ring bound: the put-back happens in the same locked step as the get, so
  there is room for it.
- `MessagesConserved`: `Spec => []ExactlyOnce`. The inductive invariant is
  `Conserved`, the conjunction of `TypeOK`, `AtMostOnce` and `Accounted`: that a
  put-back duplicates nothing needs that the message was in one place only, and
  that a fresh message is new needs that exactly the accepted ones are somewhere.
  The lemmas of `RingLemmas` carry it; one lemma each says what a release of the
  controller, the TXCLR callback and a flush do to the places of messages.
- `NeverStranded`: if only aborts and flushes disturb the controller and no length is
  illegal, `Spec => []NoStrandedMessage`. It needs `Online` (the transmit interrupt
  stays enabled, the controller is out of reset mode and off no bus), because
  otherwise the end of a transmission raises no interrupt; the inductive invariant
  is `Served`.
- `WokenWriterWrites`: with `OneWriterPrompt` (one writer, interrupts taken before the
  next step of a task, no illegal length), `Spec => []WokenWriterHasSpace`. The
  strengthening is `Paced`: a transmit interrupt that is raised or served finds the
  controller free or the ring empty, the jump start of `write()` finds no message but
  its own, and a writer that was woken has room at the latest once the handler has
  sent the next message. Without the premise it is false: a second writer
  may take the room first.
- `TransmitsInOrder`: under the same premise, `Spec => ImplementsLossyFifo`. The
  transmit buffer and then the ring are the abstract queue, and from `Paced`
  every step puts at the end, takes the head, or drops a run of items; the lemmas
  `OneItem`, `AppendToLast`, `HeadThenTail`, `HeadOfFirst` and `DropMiddle` of
  `RingLemmas` say so of concatenations. With two writers a refused message goes back
  behind the other's (section 4), so the premise is needed.

`CanRxProofs`, for any set of readers, number of frames, capacities of FIFO and ring
and set of commands (`RxAssumption`):

- `TypeCorrect`: `Spec => []TypeOK`, which is inductive.
- `NobodySleepsOnAMessage`: `Spec => []SleepsOnEmptyRing`. Not inductive alone: the
  handler could put a message while a task sleeps that it does not wake. The
  strengthening is `Listed`: a task that tests or sleeps is on the wake-up list.
- `WokenReaderReads`: with `SoleReader` (one reader, no flush),
  `Spec => []WokenReaderFindsMessage`, the safety part of `FramesServed`. The strengthening is
  `Promised`: a semaphore given inside a `select()` stands for a message, so none is left
  over from an earlier call. A second reader or a flush may take the message first.
- `NothingReleasedUnread`: without the `"get"` command, `Spec => []NoFrameUnseen`.
  The strengthening is `OneConsumer`: nobody else releases the window, and the
  handler's own message is queued before it reads the next. The proof goes through
  one fact, `SeenKept`: a step that accepts nothing may only drop `NoFrame` from
  the places where a frame can be.
- `ReceivesInOrder`: without the `"busoff"` command, `Spec => ImplementsLossyFifo`, for
  any number of readers and even beside `"get"`. The strengthening is `OnlyFrames`:
  what the handler or the ring holds is a frame, not the stale bytes of an empty window,
  which a bus off between status and read would let in.

`CanDevIOProofs`, for any tasks, number of descriptors and kinds of clients. The
inductive invariant `IInv` is `TypeOK`; `Allotted` and `Known`, that descriptors are
handed out in order and pointers lead to descriptors; `Mutex`; `InCall`, that what a
call under way has seen stays so; `Device`, that `userData` points to the one device
that is open; `Counted`, that the count is that of the channels that live; and `Orphaned`:
while a device is being destroyed only overtaken descriptors come to life, and once
there are orphans the controller stays allocated, so that no device opens again.

- `LifeInOrderHolds`: `Spec => []LifeInOrder`, for clients of any kind; the exception for
  what a destroy has overtaken is in the property.
- `ClosedIsGoneHolds`: `Spec => []ClosedIsGone`, from `IInv` and `Released`; the
  property has its premises about clients inside.
- `NoFaultHolds`: `Spec => []NoFault`, for clients whose only irregularity is that they
  may close the device before its channels, as the property says. The invariant is
  `Safety`: the handler finds an open channel and its ring until `close()` deletes it
  (`Found`), a `write()` under way has a channel nobody closes (`Kicked`), nobody destroys the
  device under a call (`Undisturbed`), and an
  interrupt that is enabled or raised finds what its handler follows (`TxReady`,
  `RxReady`, `TiReady`, `InfoReady`).

`CanControllerProofs`, for any programs of clients, identifiers and masks
(`ControllerAssumption`):

- `CommandsRestoreAll`: `Spec => []CommandsRestore`. The inductive invariant is `IInv`:
  `TypeOK`; `CmdOK`, which steps a command may be at; and `Remembered`, that between
  entering reset mode and leaving it the value the command will write back is the
  right one, and that WriteID holds the interrupt mask while it has changed it.
- `FilterHolds`: `Spec => []FilterAsAsked`, from `IInv` and `FilterInv`, which says what
  of identifier and mask is in the registers at each step of the commands.
- `FramesAreWhole`: `Spec => []FrameAsAsked`, from `IInv` and `FrameInv`, which says
  what of `csData` and of the transmit buffer belongs to the message promised.

`GeiProofs`, the filter: for any addresses, groups, hash function, table sizes and kinds
of chip (`FilterAssumption`: among others, no group has the address of an empty slot). The inductive invariant `IInv` is `Types`; `Enabled`, the
receiver is on while the device is up; `Configured`, what is already set at each
step of `geiEndRxConfig`; and `Populated`, how much of the list has its slot or
bit at each step of `geiEndHashTblPopulate`, the register that an 82544 may have
disturbed counted as it will be restored.

- `StationAlwaysHeard`: `Spec => []StationHeard`.
- `FilterAlwaysAgrees`: `Spec => []FilterAgrees`. That nothing asked for is missed
  (`NothingMissed`) follows from `IInv`; that nothing else is heard and that the list
  and VLAN stripping are right needs `Exact`: how far the hash table is cleared and filled
  (`Cleared`, `Filled`), what is so when nothing is under way (`Ended`), and the modes.
- `SubscribersAlwaysHeard`: `Spec => []SubscribersHeard`, from `Subscribed`: a group is
  listed while it has subscriptions, and the counts of driver and clients differ only
  by the groups that were misled.

`GeiProofs`, the transmit ring: for any number of protocols and packets, ring size,
thresholds, offload requests and both descriptor formats (`TxRingAssumption`: the ring
holds a packet of the most segments with its context, and one more).

- `RingAlwaysInOrder`: `TxSpec => []RingInOrder`. The inductive invariant is `RingInv`:
  `TxTypeOK`; `ChipPlace`, that the chip's head is at most a ring behind and never past
  the tail; `PolledEmpty` and `LinkKept`; `MarkCounts`, that `geiTxSinceMark` counts at
  least the descriptors behind the last that interrupts undelayed (`CountsTail`) and is never
  above the threshold and one packet; and the parts of the property. A full ring longer than
  that bound must then hold a descriptor that interrupts.
- `BuffersFreedAfterSent`: `TxSpec => []FreedAfterSent`, and `PacketsSentAsAsked`:
  `TxSpec => []SentAsAsked`. The invariant is `SentInv`: `RingInv` and, until `wrapped`,
  `Sound`. `Pending` is what the chip has yet to take, the descriptors behind `geiTxCons`
  and then those of the ring, as one line. `Taken` says that a descriptor is new until the
  chip takes it, so done bits can be trusted, and that no packet lies behind the published
  tail; `Owns`, that each packet in line finds its own request in force and `geiLastCtx` is the
  one in force at the end of the line; `Ordered`, that the packets that left are in order and
  those in line come after them in order. Each step is one of three on the line: it stays,
  it gains descriptors at its end, or the chip takes its first; `OwnsContext`,
  `OwnsPacket`, `OwnsFollows`, `OrderedPacket` and `OrderedFollows` are the lemmas about
  lines, and the rest of the proof shows which each call does. `SentInv` was
  checked by TLC before it was proved, on the run and on an instance with two offload
  requests for one protocol.

The attempt to prove `RingInOrder` found that one part of it was stated too strongly: with
a context descriptor of a first attempt in the ring, a full ring need not hold one that
interrupts undelayed (section 4).

`GeiEndProofs`, for rings and bounds of every size and both descriptor formats
(`EndAssumption`). Everything rests on `Typed` (`TypeOK`, part by part), `Standing`
(where the device stands: only a loaded interface is up, only a running one is
stopped or polled, what the job and polled mode put aside they put aside for a
while) and `Holding` (which slots have buffers, when the receiver is on, which
descriptors lack their address).

- `NoFaultHolds`: `Spec => []NoFault`. The invariant is `Calm`, the handshake of
  interrupt, job and stop: `geiIntPending` stands for the job up to where it is
  cleared, nothing interrupts while there is a job, so there is one at a time, and a
  stop that has drained leaves none behind. It holds until a stop expires or comes late.
- `BuffersHold`: `Spec => []BuffersAccounted`. It needs `Ring`: the frames are the
  stretch of slots from `geiRxIdx` to RDH and the tail is the slot before `geiRxIdx`, so
  the chip never fills a descriptor that was written back and has no address.
- `OrderHolds`: `Spec => []DeliveredInOrder`, from `Ordered`: what waits is newer than what
  was delivered, and lies in order along the ring.
- `AgreementHolds`: `Spec => []AllAgree`, from `Ring`, `Announced` (who knows of a frame
  that waits), `Interesting` (what will be unmasked, by the job or by the end of polled
  mode) and `LinkAnnounced`, which is inductive. `Ring` speaks of stretches without
  remainders; `StretchAsSet` turns one into the set the property is stated with.

The attempt to prove them found that three of these properties excused more than
they needed (a stop that expired) and that two were false after two failed resets;
they now say what is true, and `rebuilt` names that case.

`SerialProofs`, a channel: for any FIFO and output buffer, any options and any number of
calls and changes of CTS (`SioAssumption`); all theorems of this part are about
`SystemSpec`, a channel that runs after boot.

- `WorkAlwaysPending`: `SystemSpec => []WorkIsPending`. The inductive invariant is `SioInv`:
  `SioTypeOK`; `Queueless`, what has not happened before the first switch to interrupt
  mode; `Deferred`, that `txDefer` stands for the one transmit job from its posting to
  its beginning; `ReceiveDeferred`, that reception is masked while its job is pending
  and enabled otherwise; `Copied`, what the shadow of IER says of the register; and
  `Sender`, which is `TransmitterAlive` without the words about the register, because in
  polled mode the register says nothing and the switch back restores it from the shadow.
- `NeverOverrun`: `SystemSpec => []NoOverrun`, from `BurstFits`: what is left of a burst
  and what is in the FIFO fit together, unless somebody printed or disabled the FIFO.

`SioInv` was checked by TLC on the composed instance before it was proved.

`SerialProofs`, the search for the channels: for any number of on-chip UARTs and any set
of boards (`AttachAssumption`: none of them calls itself a PLB device).

- `ChannelsAlwaysFound`: `SystemSpec => []ChannelsFound`. That registers are apart is two
  lemmas about the table of boards (`PlainBoards`, `SharedBoards`), and `Chained`: the
  chain of a device has its base addresses newest first, none twice. That who asks gets
  a connected channel needs `Numbered` (as long as no PLB device failed, PLB devices
  have the numbers of their units and those of the PCI board begin behind them, so each
  number has one owner, `OneOwner`) and `Connecting`: the first owner of each number that
  was asked is connected.

`SerialProofs`, the bridge: for every configuration, any number of links and any ring size
(`BridgeAssumption`). The inductive invariant `BInv` is `Types`; `Running`, which threads
run on what while `main` parses, joins and releases; `Owned`, whose descriptors are
open; `RoomKept`, that the room `select()` found for a sole writer is still there;
and `LastMessage`, how far a thread can be past stop.

- `ChannelsHandledAlways`, `SoleWriter`, `StopHeeded`: `ChannelsHandled`,
  `SoleWriterLosesNothing` and `OneMessageAfterStop` always hold.

So every invariant, action property and refinement that a run checks is a theorem; where
the theorem has a premise, the instance of the run satisfies it.

Left to TLC for good: liveness (`Delivered`,
`SelectReturns`, `FramesServed`, `SendersRestarted`, `RingAndLinkServed`, `Drained`,
`InputRead`, `CommandsEnd`, `StopEnds`), since the prover handles neither fairness nor
ENABLED, and induction over recursive data.

## 6. Plan

Done: the modules of section 2, and the theorems of section 5. What is left, in this
order:

1. Replacing a ring by FIORBUFSET and FIOWBUFSET, in `CanTx` and `CanRx`.
2. The access to EEPROM and PHY registers, with the software flag shared with
   firmware, whose acquisition can fail and is not looked at.

Runs stay few: one per question, several properties each.

## 7. Not modelled, and why

- PCI discovery, register access and interrupt connection of the CAN controllers:
  hardware glue executed once at boot. The registries: filled sequentially at boot.
- `can_fifo.c`: nothing in the repository creates, fills or reads such a queue,
  so there is no caller whose interleavings could be modelled.
- `can_api.c` dispatches; the models call the functions it dispatches to.
- Formatting, show routines, `logMsg` calls and the UDP tools on the host.
- Of the CAN driver: FIORBUFSET and FIOWBUFSET, the remote-transmission flag of received
  messages, data overrun, pure reads of registers; in `CanTx` and `CanRx` the
  contents of messages.
- Of the Ethernet driver: EEPROM and PHY registers, MIB counters, media and MTU,
  checksum offload of received frames, other interface flags than up, promiscuous and
  all-multicast. `GeiFilter` takes resets as working (`GeiEnd` has their failures) and
  gives one command at a time, as `geiDevSem` does. `GeiTx` leaves out `gei82544PcixWar`, which
  doubles the descriptors of a fragment: it is set only for an 82544 on a PCI-X bus, which
  the PR6120 does not have. The loop of `geiEndPollSend` that waits for the descriptors of
  its packet is one step, since the ring is empty when polled mode sends.
- Of the serial driver: baud rates, word formats, modem-control commands that only
  read; the meaning of the spin lock on several processors.
- Of the bridge: `tmp_main`, a superseded variant; the parsing of numbers; log and usage
  texts.
