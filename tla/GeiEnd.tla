------------------------------ MODULE GeiEnd ------------------------------
(***************************************************************************)
(* Life, interrupts, receive ring and link of the PRO/1000 END driver.     *)
(*                                                                         *)
(* Four parties move: the chip; the interrupt handler, which masks and     *)
(* posts a job; the job geiEndIntHandle in tNetTask; and a task that       *)
(* connects, starts, stops and unlinks the device or switches polled mode. *)
(* The MII monitor task learns of link changes, too.  geiDevSem keeps      *)
(* starting, stopping and link updates apart; nothing keeps the job and    *)
(* stopping apart but a wait for geiIntPending that gives up.              *)
(*                                                                         *)
(* A step of the job is one received frame or one of its register          *)
(* accesses.  The transmit side is module GeiTx.                           *)
(***************************************************************************)
EXTENDS Integers, FiniteSets

CONSTANTS
  DescCnt,      \* GEI_RX_DESC_CNT
  MaxRx,        \* GEI_MAX_RX, what one run of the job may receive
  Hardware,     \* chips: descriptor format, "legacy" or "advanced", and
                \* whether ICS can be read
  MaxFrames,    \* bound: frames from the wire
  MaxStarts,    \* bound: starts
  MaxFlaps,     \* bound: changes of the cable
  MaxMishaps    \* bound: what goes wrong: a reset or a PHY read fails, idle
                \* errors, the pool is empty when it starts, a stop runs
                \* into its timeout; or polled mode

ASSUME EndAssumption ==
  /\ DescCnt \in Nat /\ DescCnt > 1
  /\ MaxRx \in Nat \ {0}
  /\ Hardware \subseteq [devType : {"legacy", "advanced"}, ics : BOOLEAN]
  /\ {MaxFrames, MaxStarts, MaxFlaps, MaxMishaps} \subseteq Nat

Slots  == 0 .. DescCnt - 1
Causes == {"rx", "link"}
Next1(i) == (i + 1) % DescCnt     \* GEI_INC_DESC

VARIABLES
  \* the software state
  life,       \* what is set up: "attached", "loaded", "unloaded" or "gone"
  up,         \* IFF_UP
  ctl,        \* where the controlling task is; it holds geiDevSem while
              \* "draining", "stopping" and "starting"
  unlinking,  \* geiInstUnlink goes on after the stop
  intFunc,    \* geiIntFunc: "ics" for geiEndInt, "alt" for geiEndAltInt, or
              \* "none"
  intrs,      \* geiIntrs
  pending,    \* geiIntPending
  queued,     \* geiIntJob is in the job queue
  job,        \* where geiEndIntHandle is
  status,     \* its causes
  left,       \* its loopCtr
  mask,       \* geiIntrs as it loaded it
  moreRx,     \* geiMoreRx
  rxIdx,      \* geiRxIdx
  mblk,       \* slots whose geiRxMblk is not NULL
  active,     \* geiCurStatus has IFM_ACTIVE
  told,       \* the link state the MUX was last told since the start
  polling,    \* geiPolling
  saved,      \* geiIntMask
  \* the chip
  devType,    \* geiDevType
  icsReads,   \* ICS shows pending causes
  icr,        \* causes
  ims,        \* causes that interrupt
  rxOn,       \* RCTL.EN
  rdh, rdt,   \* RDH and RDT
  desc,       \* descriptor memory: done bit, frame, error, buffer address good
  phy,        \* the cable carries a link
  \* histories
  frames,     \* frames the chip took into the ring
  delivered,  \* the last frame the protocols were given, and whether each so
              \* far was newer than the one before
  lost,       \* tuples nothing refers to any more
  starts, flaps, mishaps,
  leaky,      \* a start failed half-way
  badReset,   \* a reset failed
  rebuilt,    \* a start rebuilt the ring while the receiver ran
  polled,     \* polled mode took frames
  expired,    \* a stop gave up waiting
  late,       \* a stop went ahead of the last steps of the job
  wild,       \* the chip wrote into memory that is not a buffer of the ring
  fault       \* the driver followed a null or stale pointer

hw       == << devType, icsReads >>
chip     == << hw, icr, ims, rxOn, rdh, rdt, desc, phy >>
jobVars  == << queued, job, status, left, mask, moreRx >>
linkVars == << active, told >>
buffers  == << mblk, lost >>
counts   == << frames, starts, flaps, mishaps >>
blame    == << leaky, badReset, rebuilt, polled, expired, late, wild, fault >>
lifeVars == << life, up, ctl, unlinking, intFunc >>
pollVars == << polling, saved >>
vars == << lifeVars, intrs, pending, jobVars, rxIdx, buffers, linkVars, pollVars, chip,
           counts, delivered, blame >>

EmptyDesc == [dd |-> FALSE, n |-> 0, bad |-> FALSE, addr |-> TRUE]

(* After geiInstInit2. *)
Init ==
  /\ life = "attached" /\ up = FALSE /\ ctl = "idle" /\ unlinking = FALSE
  /\ intFunc = "none"
  /\ intrs = {} /\ pending = FALSE
  /\ queued = FALSE /\ job = "idle" /\ status = {} /\ left = 1 /\ mask = {} /\ moreRx = FALSE
  /\ rxIdx = 0 /\ mblk = {} /\ lost = 0
  /\ active = FALSE /\ told = "nothing"
  /\ polling = FALSE /\ saved = {}
  /\ \E h \in Hardware : devType = h.devType /\ icsReads = h.ics
  /\ icr = {} /\ ims = {} /\ rxOn = FALSE /\ rdh = 0 /\ rdt = 0
  /\ desc = [i \in Slots |-> EmptyDesc]
  /\ phy \in BOOLEAN
  /\ frames = 0 /\ starts = 0 /\ flaps = 0 /\ mishaps = 0
  /\ delivered = [last |-> 0, inOrder |-> TRUE]
  /\ leaky = FALSE /\ badReset = FALSE /\ rebuilt = FALSE /\ polled = FALSE /\ expired = FALSE
  /\ late = FALSE /\ wild = FALSE /\ fault = FALSE

(* In polled mode the system is stopped: only the agent and the chip move. *)
TasksRun  == ~polling /\ ~fault
DevSemFree == ctl \notin {"starting", "draining", "stopping"}
Mishap == mishaps < MaxMishaps /\ mishaps' = mishaps + 1

(***************************************************************************)
(* The chip.                                                               *)
(***************************************************************************)

(* A frame goes into the descriptor at RDH; the write-back of an advanced
   descriptor overwrites the buffer address. *)
ChipReceive ==
  /\ ~fault /\ rxOn /\ phy /\ rdh # rdt
  /\ frames < MaxFrames
  /\ \E bad \in BOOLEAN :
       desc' = [desc EXCEPT ![rdh] = [dd |-> TRUE, n |-> frames + 1, bad |-> bad,
                                      addr |-> devType = "legacy"]]
  /\ wild' = (wild \/ rdh \notin mblk \/ ~desc[rdh].addr)
  /\ frames' = frames + 1
  /\ rdh' = Next1(rdh)
  /\ icr' = icr \cup {"rx"}
  /\ UNCHANGED << lifeVars, intrs, pending, jobVars, rxIdx, buffers, linkVars, pollVars,
                  hw, ims, rxOn, rdt, phy, starts, flaps, mishaps, delivered, leaky,
                  badReset, rebuilt, polled, expired, late, fault >>

CableChanges ==
  /\ ~fault /\ flaps < MaxFlaps
  /\ flaps' = flaps + 1
  /\ phy' = ~phy
  /\ icr' = icr \cup {"link"}
  /\ UNCHANGED << lifeVars, intrs, pending, jobVars, rxIdx, buffers, linkVars, pollVars,
                  hw, ims, rxOn, rdh, rdt, desc, frames, starts, mishaps, delivered,
                  blame >>

(***************************************************************************)
(* The interrupt handlers.                                                 *)
(***************************************************************************)
Mask(causes) == ims' = ims \ causes

PostJob ==
  /\ pending' = TRUE
  /\ queued' = TRUE

IntConnected == life \in {"loaded", "unloaded"}

(* geiEndInt: ICS shows what is pending without clearing it. *)
EndInt ==
  /\ ~fault /\ IntConnected /\ intFunc = "ics"
  /\ icr # {} /\ ims # {}
  /\ Mask(Causes)
  /\ PostJob
  /\ UNCHANGED << lifeVars, intrs, job, status, left, mask, moreRx, rxIdx, buffers, linkVars,
                  pollVars, hw, icr, rxOn, rdh, rdt, desc, phy, counts, delivered,
                  blame >>

(* geiEndAltInt: any interrupt on the line while something is unmasked, of
   this chip or of another. *)
AltInt ==
  /\ ~fault /\ IntConnected /\ intFunc = "alt"
  /\ ims # {}
  /\ Mask(Causes)
  /\ PostJob
  /\ UNCHANGED << lifeVars, intrs, job, status, left, mask, moreRx, rxIdx, buffers, linkVars,
                  pollVars, hw, icr, rxOn, rdh, rdt, desc, phy, counts, delivered,
                  blame >>

Interrupt == EndInt \/ AltInt

(***************************************************************************)
(* geiLinkUpdate, geiDevSem free.  While the interface is down it learns   *)
(* the state of the link and tells nobody.  An idle error on a new link    *)
(* puts it off, to the monitor task.                                       *)
(***************************************************************************)
PhyReadFails == Mishap /\ UNCHANGED << active, told, intrs >>

LinkLearned ==
  /\ active' = phy
  /\ told' = IF ~up \/ active = phy THEN told ELSE IF phy THEN "up" ELSE "down"
  /\ UNCHANGED << intrs, mishaps >>

IdleErrors ==
  /\ up /\ phy /\ ~active /\ "link" \in intrs
  /\ intrs' = intrs \ {"link"}
  /\ Mishap
  /\ UNCHANGED << active, told >>

LinkUpdate == DevSemFree /\ (PhyReadFails \/ LinkLearned \/ IdleErrors)

(* The MII monitor looks at the PHY from time to time. *)
Monitor ==
  /\ TasksRun /\ life = "loaded"
  /\ LinkUpdate
  /\ UNCHANGED << lifeVars, pending, jobVars, rxIdx, buffers, pollVars, chip, frames, starts,
                  flaps, delivered, blame >>

(***************************************************************************)
(* geiEndIntHandle in tNetTask.                                            *)
(***************************************************************************)
JobRuns == TasksRun /\ life # "gone"

(* Reading ICR clears it. *)
JobStart ==
  /\ JobRuns /\ queued /\ job = "idle"
  /\ queued' = FALSE
  /\ LET causes == icr \cup (IF moreRx THEN {"rx"} ELSE {}) IN
     /\ status' = causes
     /\ IF "rx" \in causes
        THEN job' = "rx" /\ left' = MaxRx
        ELSE job' = "link" /\ left' = 1
  /\ icr' = {}
  /\ moreRx' = FALSE
  /\ UNCHANGED << lifeVars, intrs, pending, mask, rxIdx, buffers, linkVars, pollVars,
                  hw, ims, rxOn, rdh, rdt, desc, phy, counts, delivered, blame >>

(* Mutants of Rearm: the tail is written after the index moved; the done
   bit stays. *)
MutRearm(addr) ==
  /\ desc' = [desc EXCEPT ![rxIdx] = [EmptyDesc EXCEPT !.addr = addr]]
  /\ rdt' = Next1(rxIdx)
  /\ rxIdx' = Next1(rxIdx)

MutRearmNotReset(addr) ==
  /\ desc' = [desc EXCEPT ![rxIdx].addr = addr]
  /\ rdt' = rxIdx
  /\ rxIdx' = Next1(rxIdx)

(* The descriptor goes back to the chip, with or without its buffer
   address. *)
Rearm(addr) ==
  /\ desc' = [desc EXCEPT ![rxIdx] = [EmptyDesc EXCEPT !.addr = addr]]
  /\ rdt' = rxIdx
  /\ rxIdx' = Next1(rxIdx)

InRxLoop == JobRuns /\ job = "rx" /\ left > 0 /\ desc[rxIdx].dd

(* skip: a bad frame, or a pool that is empty, as it may be at any time: the
   buffer stays. *)
(* Mutant of SkipAdvanced: the address is not written again. *)
MutSkipAdvanced == devType = "advanced" /\ Rearm(desc[rxIdx].addr)

SkipLegacy == devType = "legacy" /\ Rearm(desc[rxIdx].addr)
SkipAdvanced == devType = "advanced" /\ Rearm(TRUE)

RxSkip ==
  /\ InRxLoop
  /\ rxIdx \in mblk \/ devType = "legacy"
  /\ SkipLegacy \/ SkipAdvanced
  /\ left' = left - 1
  /\ UNCHANGED << lifeVars, intrs, pending, queued, job, status, mask, moreRx, buffers,
                  linkVars, pollVars, hw, icr, ims, rxOn, rdh, phy, counts, delivered,
                  blame >>

(* A frame is swapped for a new buffer and given to the protocols. *)
Deliver(n) ==
  delivered' = [last |-> n, inOrder |-> delivered.inOrder /\ n > delivered.last]

DeliverLegacy   == devType = "legacy" /\ Deliver(desc[rxIdx].n)
DeliverAdvanced == devType = "advanced" /\ Deliver(desc[rxIdx].n)

RxDeliver ==
  /\ InRxLoop
  /\ ~desc[rxIdx].bad /\ rxIdx \in mblk
  /\ DeliverLegacy \/ DeliverAdvanced
  /\ Rearm(TRUE)
  /\ left' = left - 1
  /\ UNCHANGED << lifeVars, intrs, pending, queued, job, status, mask, moreRx, buffers, linkVars,
                  pollVars, hw, icr, ims, rxOn, rdh, phy, counts, blame >>

(* The buffer a stop took away is looked into all the same; only a legacy
   descriptor is skipped without that. *)
RxNull ==
  /\ InRxLoop /\ rxIdx \notin mblk
  /\ ~desc[rxIdx].bad \/ devType = "advanced"
  /\ fault' = TRUE
  /\ UNCHANGED << lifeVars, intrs, pending, jobVars, rxIdx, buffers, linkVars, pollVars, chip,
                  counts, delivered, leaky, badReset, rebuilt, polled, expired, late, wild >>

(* The budget is used up, or the ring has no more. *)
RxDone ==
  /\ JobRuns /\ job = "rx"
  /\ left = 0 \/ ~desc[rxIdx].dd
  /\ moreRx' = (left = 0)
  /\ job' = "link"
  /\ UNCHANGED << lifeVars, intrs, pending, queued, status, left, mask, rxIdx, buffers,
                  linkVars, pollVars, chip, counts, delivered, blame >>

JobLink ==
  /\ JobRuns /\ job = "link"
  /\ job' = IF "link" \in status \cap intrs THEN "devsem" ELSE "check"
  /\ UNCHANGED << lifeVars, intrs, pending, queued, status, left, mask, moreRx, rxIdx,
                  buffers, linkVars, pollVars, chip, counts, delivered, blame >>

JobLinkUpdate ==
  /\ JobRuns /\ job = "devsem"
  /\ LinkUpdate
  /\ job' = "check"
  /\ UNCHANGED << lifeVars, pending, queued, status, left, mask, moreRx, rxIdx, buffers,
                  pollVars, chip, frames, starts, flaps, delivered, blame >>

(* Mutant: a budget used up is not looked at. *)
MutMoreToDo == icsReads /\ icr # {}

(* More to do: budget used up, or ICS shows new causes. *)
MoreToDo == left = 0 \/ (icsReads /\ icr # {})

JobAgain ==
  /\ JobRuns /\ job = "check" /\ MoreToDo
  /\ queued' = TRUE
  /\ job' = "idle"
  /\ status' = {} /\ left' = 1
  /\ UNCHANGED << lifeVars, intrs, pending, mask, moreRx, rxIdx, buffers,
                  linkVars, pollVars, chip, counts, delivered, blame >>

JobNoMore ==
  /\ JobRuns /\ job = "check" /\ ~MoreToDo
  /\ pending' = FALSE
  /\ job' = "load"
  /\ status' = {} /\ left' = 1
  /\ UNCHANGED << lifeVars, intrs, queued, mask, moreRx, rxIdx, buffers,
                  linkVars, pollVars, chip, counts, delivered, blame >>

JobLoad ==
  /\ JobRuns /\ job = "load"
  /\ mask' = intrs
  /\ job' = "unmask"
  /\ UNCHANGED << lifeVars, intrs, pending, queued, status, left, moreRx, rxIdx, buffers,
                  linkVars, pollVars, chip, counts, delivered, blame >>

(* Writing ones to IMS unmasks. *)
JobUnmask ==
  /\ JobRuns /\ job = "unmask"
  /\ ims' = ims \cup mask
  /\ mask' = {}
  /\ job' = "idle"
  /\ UNCHANGED << lifeVars, intrs, pending, queued, status, left, moreRx, rxIdx, buffers,
                  linkVars, pollVars, hw, icr, rxOn, rdh, rdt, desc, phy, counts,
                  delivered, blame >>

(* The control structure is gone and the job is not. *)
JobAfterFree ==
  /\ TasksRun /\ life = "gone"
  /\ queued \/ job # "idle"
  /\ fault' = TRUE
  /\ UNCHANGED << lifeVars, intrs, pending, jobVars, rxIdx, buffers, linkVars, pollVars, chip,
                  counts, delivered, leaky, badReset, rebuilt, polled, expired, late, wild >>

Job == \/ JobStart \/ RxSkip \/ RxDeliver \/ RxNull \/ RxDone \/ JobLink \/ JobLinkUpdate
       \/ JobAgain \/ JobNoMore \/ JobLoad \/ JobUnmask \/ JobAfterFree

(***************************************************************************)
(* The controlling task.                                                   *)
(***************************************************************************)
ResetWorks ==
  /\ rxOn' = FALSE /\ rdh' = 0 /\ rdt' = 0
  /\ ims' = {} /\ icr' = {}
  /\ UNCHANGED badReset

(* The chip stays in reset too long: interrupts are masked, the rest is as it
   was, and no caller of geiReset looks at what it returns. *)
ResetTimesOut ==
  /\ Mishap
  /\ badReset' = TRUE
  /\ ims' = {}
  /\ UNCHANGED << rxOn, rdh, rdt, icr >>

Reset == (ResetWorks /\ UNCHANGED mishaps) \/ ResetTimesOut

(* geiMuxConnect and geiEndLoad: the pool is made, ICS is tried out with a
   link change, and the handler that suits it connected.  muxDevStart is
   next. *)
MuxConnect ==
  /\ TasksRun /\ life = "attached" /\ ctl = "idle"
  /\ life' = "loaded"
  /\ ctl' = "start"
  /\ intFunc' = IF icsReads THEN "ics" ELSE "alt"
  /\ ims' = {} /\ icr' = {}
  /\ UNCHANGED << up, unlinking, intrs, pending, jobVars, rxIdx, buffers, linkVars,
                  pollVars, hw, rxOn, rdh, rdt, desc, phy, counts, delivered, blame >>

MayStart ==
  /\ TasksRun /\ life = "loaded" /\ ctl \in {"idle", "start"} /\ ~up
  /\ starts < MaxStarts

(* The first k slots get a tuple of the pool each, whatever they held. *)
FillRing(k) ==
  /\ mblk' = mblk \cup (0 .. k - 1)
  /\ lost' = lost + Cardinality(mblk \cap (0 .. k - 1))

(* geiEndStart, up to the receive ring ... *)
StartBegin ==
  /\ MayStart
  /\ starts' = starts + 1
  /\ pending' = FALSE
  /\ desc' = [i \in Slots |-> EmptyDesc]
  /\ \/ FillRing(DescCnt) /\ ctl' = "starting" /\ Reset /\ UNCHANGED leaky
     \/ /\ \E k \in 0 .. DescCnt - 1 : FillRing(k)
        /\ Mishap /\ leaky' = TRUE
        /\ ctl' = "idle"
        /\ ResetWorks
  /\ rebuilt' = (rebuilt \/ rxOn')
  /\ UNCHANGED << life, up, unlinking, intFunc, intrs, jobVars, rxIdx, linkVars,
                  pollVars, hw, phy, frames, flaps, delivered, polled, expired, late,
                  wild, fault >>

(* The receive side of "Initialize state" in geiEndStart. *)
RxFromStart == rxIdx' = 0 /\ moreRx' = FALSE

(* ... and from there: interrupts on, receiver on, ring handed over, link
   taken for down. *)
StartEnable ==
  /\ TasksRun /\ ctl = "starting"
  /\ RxFromStart
  /\ intrs' = Causes /\ ims' = Causes
  /\ rxOn' = TRUE /\ rdh' = 0 /\ rdt' = DescCnt - 1
  /\ active' = FALSE /\ told' = "nothing"
  /\ up' = TRUE
  /\ ctl' = "idle"
  /\ UNCHANGED << life, unlinking, intFunc, pending, queued, job, status, left, mask, buffers,
                  pollVars, hw, icr, desc, phy, counts, delivered, blame >>

(* The job has cleared geiIntPending and still has IMS to write. *)
LastSteps == job \in {"load", "unmask"}

(* geiEndStop takes geiDevSem and masks everything ... *)
StopMask(andUnlink) ==
  /\ TasksRun /\ life = "loaded" /\ ctl = "idle" /\ up
  /\ unlinking' = andUnlink
  /\ intrs' = {}
  /\ Mask(Causes)
  /\ ctl' = "draining"
  /\ late' = (late \/ LastSteps)
  /\ UNCHANGED << life, up, intFunc, pending, jobVars, rxIdx, buffers, linkVars, pollVars,
                  hw, icr, rxOn, rdh, rdt, desc, phy, counts, delivered, leaky, badReset,
                  rebuilt, polled, expired, wild, fault >>

(* Mutant: the job is not waited for. *)
MutStopDrained ==
  /\ TasksRun /\ ctl = "draining"
  /\ ctl' = "stopping"
  /\ UNCHANGED << life, up, unlinking, intFunc, intrs, pending, jobVars, rxIdx, buffers,
                  linkVars, pollVars, chip, counts, delivered, blame >>

(* ... waits for the job ... *)
StopDrained ==
  /\ TasksRun /\ ctl = "draining"
  /\ ~pending
  /\ ctl' = "stopping"
  /\ UNCHANGED << life, up, unlinking, intFunc, intrs, pending, jobVars, rxIdx, buffers,
                  linkVars, pollVars, chip, counts, delivered, blame >>

(* ... or until GEI_TIMEOUT ... *)
StopExpires ==
  /\ TasksRun /\ ctl = "draining"
  /\ pending
  /\ Mishap
  /\ expired' = TRUE
  /\ ctl' = "stopping"
  /\ UNCHANGED << life, up, unlinking, intFunc, intrs, pending, jobVars, rxIdx, buffers,
                  linkVars, pollVars, chip, frames, starts, flaps, delivered, leaky,
                  badReset, rebuilt, polled, late, wild, fault >>

(* ... and takes the chip down and the buffers back. *)
StopFree ==
  /\ TasksRun /\ ctl = "stopping"
  /\ up' = FALSE
  /\ Reset
  /\ mblk' = {}
  /\ late' = (late \/ LastSteps)
  /\ ctl' = IF unlinking THEN "unloading" ELSE "idle"
  /\ UNCHANGED << life, unlinking, intFunc, intrs, pending, jobVars, rxIdx, lost,
                  linkVars, pollVars, hw, desc, phy, frames, starts, flaps, delivered,
                  leaky, rebuilt, polled, expired, wild, fault >>

(* geiInstUnlink of a device that is not running: straight to the unloading,
   or, never loaded, to the end. *)
UnlinkStopped ==
  /\ TasksRun /\ life \in {"attached", "loaded"} /\ ctl = "idle" /\ ~up
  /\ unlinking' = TRUE
  /\ ctl' = IF life = "loaded" THEN "unloading" ELSE "freeing"
  /\ UNCHANGED << life, up, intFunc, intrs, pending, jobVars, rxIdx, buffers, linkVars,
                  pollVars, chip, counts, delivered, blame >>

(* geiEndUnload. *)
Unload ==
  /\ TasksRun /\ ctl = "unloading"
  /\ ~up
  /\ life' = "unloaded"
  /\ ctl' = "freeing"
  /\ UNCHANGED << up, unlinking, intFunc, intrs, pending, jobVars, rxIdx, buffers, linkVars,
                  pollVars, chip, counts, delivered, blame >>

(* The interrupt is disconnected, the control structure freed. *)
UnlinkFree ==
  /\ TasksRun /\ ctl = "freeing"
  /\ life' = "gone"
  /\ ctl' = "gone"
  /\ UNCHANGED << up, unlinking, intFunc, intrs, pending, jobVars, rxIdx, buffers, linkVars,
                  pollVars, chip, counts, delivered, blame >>

Unlink == StopMask(TRUE) \/ UnlinkStopped \/ Unload \/ UnlinkFree
Stop   == StopMask(FALSE) \/ StopDrained \/ StopExpires \/ StopFree

(***************************************************************************)
(* Polled mode.  Bound: it is not entered between two frames of the job.   *)
(***************************************************************************)
BetweenJobs == job # "rx"

PollStart ==
  /\ TasksRun /\ up /\ ctl = "idle" /\ BetweenJobs
  /\ Mishap
  /\ polling' = TRUE
  /\ saved' = ims
  /\ ims' = {}
  /\ UNCHANGED << lifeVars, intrs, pending, jobVars, rxIdx, buffers, linkVars, hw, icr,
                  rxOn, rdh, rdt, desc, phy, frames, starts, flaps, delivered, blame >>

PollReceiveLegacy   == devType = "legacy" /\ Rearm(desc[rxIdx].addr)
PollReceiveAdvanced == devType = "advanced" /\ Rearm(TRUE)

(* One frame is copied out; its buffer stays. *)
PollReceive ==
  /\ polling /\ desc[rxIdx].dd
  /\ icr' = icr \ {"rx"}
  /\ IF desc[rxIdx].bad THEN UNCHANGED delivered ELSE Deliver(desc[rxIdx].n)
  /\ PollReceiveLegacy \/ PollReceiveAdvanced
  /\ polled' = TRUE
  /\ UNCHANGED << lifeVars, intrs, pending, jobVars, buffers, linkVars, pollVars, hw, ims,
                  rxOn, rdh, phy, counts, leaky, badReset, rebuilt, expired, late, wild, fault >>

PollStop ==
  /\ polling
  /\ polling' = FALSE
  /\ ims' = ims \cup saved
  /\ saved' = {}
  /\ UNCHANGED << lifeVars, intrs, pending, jobVars, rxIdx, buffers, linkVars, hw,
                  icr, rxOn, rdh, rdt, desc, phy, counts, delivered, blame >>

Chip    == ChipReceive \/ CableChanges
Control == MuxConnect \/ StartBegin \/ StartEnable \/ Stop \/ Unlink
Polled  == PollStart \/ PollReceive \/ PollStop

Next == Chip \/ Interrupt \/ Monitor \/ Job \/ Control \/ Polled

Spec == Init /\ [][Next]_vars

(* Interrupts and jobs run when they can, and the MII monitor keeps looking.
   Nobody has to plug, start, stop or poll. *)
FairSpec == Spec /\ WF_vars(Interrupt) /\ WF_vars(Job) /\ WF_vars(Monitor)

(***************************************************************************)
(* Properties.                                                             *)
(***************************************************************************)
TypeOK ==
  /\ life \in {"attached", "loaded", "unloaded", "gone"}
  /\ up \in BOOLEAN /\ unlinking \in BOOLEAN
  /\ ctl \in {"idle", "start", "starting", "draining", "stopping", "unloading", "freeing",
              "gone"}
  /\ intFunc \in {"none", "ics", "alt"}
  /\ {intrs, icr, ims, status, mask, saved} \subseteq SUBSET Causes
  /\ {pending, queued, moreRx, active, polling, rxOn, phy} \subseteq BOOLEAN
  /\ job \in {"idle", "rx", "link", "devsem", "check", "load", "unmask"}
  /\ left \in 0 .. MaxRx
  /\ {rxIdx, rdh, rdt} \subseteq Slots
  /\ mblk \subseteq Slots
  /\ lost \in Nat
  /\ told \in {"nothing", "up", "down"}
  /\ devType \in {"legacy", "advanced"} /\ icsReads \in BOOLEAN
  /\ desc \in [Slots -> [dd : BOOLEAN, n : 0 .. MaxFrames, bad : BOOLEAN, addr : BOOLEAN]]
  /\ frames \in 0 .. MaxFrames /\ starts \in 0 .. MaxStarts
  /\ flaps \in 0 .. MaxFlaps /\ mishaps \in 0 .. MaxMishaps
  /\ delivered \in [last : 0 .. MaxFrames, inOrder : BOOLEAN]
  /\ {leaky, badReset, rebuilt, polled, expired, late, wild, fault} \subseteq BOOLEAN

(* The driver follows a null or stale pointer only after a stop that ran into
   GEI_TIMEOUT, or one that went between the job's last steps. *)
NoFault == fault => expired \/ late

(* No tuple of the ring is overwritten with another, except those of a start
   that failed half-way; and a stopped interface holds none but those. *)
BuffersReturned == (lost > 0 \/ (~up /\ ctl = "idle" /\ mblk # {})) => leaky

(* The chip writes only into buffers of the ring, unless a reset failed. *)
NoWildWrite == wild => badReset

(* No buffer of the ring is lost, and none but those is written to. *)
BuffersAccounted == BuffersReturned /\ NoWildWrite

(* Frames reach the protocols in the order of the wire, none twice, unless a
   start rebuilt the ring while the receiver ran, as it does when the resets
   of a stop and of the start after it both fail. *)
DeliveredInOrder == ~rebuilt => delivered.inOrder

(* Driver and chip agree on the ring: between geiRxIdx and RDH lie the frames
   to be taken, and the chip may fill the rest but one. *)
RingAgrees ==
  up /\ ~rebuilt =>
    /\ mblk = Slots
    /\ Next1(rdt) = rxIdx
    /\ { i \in Slots : desc[i].dd } =
         { (rxIdx + k) % DescCnt : k \in 0 .. ((rdh - rxIdx) % DescCnt) - 1 }

(* A frame that waits in the ring is announced, to the handler, in geiMoreRx
   or to the running job; polled mode alone takes the announcement away. *)
FrameAnnounced ==
  (up /\ desc[rxIdx].dd /\ ~polled /\ ~rebuilt) =>
    \/ "rx" \in icr
    \/ moreRx /\ (queued \/ job # "idle")
    \/ job = "rx"

(* While the interface is up and no job is under way, everything of interest
   interrupts. *)
Unmasked ==
  (up /\ ~polling /\ job = "idle" /\ ~queued) => intrs \subseteq ims

(* What the MUX was told since the start is what the driver takes the link
   for. *)
LinkAnnounced == up => (active <=> told = "up")

(* Driver, chip, job queue and MUX agree, whatever interrupts, starts, stops
   and polled mode came in between. *)
AllAgree ==
  TypeOK /\ RingAgrees /\ FrameAnnounced /\ Unmasked /\ LinkAnnounced

(* When the wire falls silent the ring is drained, unless the interface is
   stopped or polled mode takes a hand. *)
RingDrained ==
  desc[rxIdx].dd ~> (~desc[rxIdx].dd \/ ctl # "idle" \/ ~up \/ polled \/ polling \/ fault)

(* A link that stays is announced, however the first looks at it went. *)
LinkSeen ==
  <>[](up /\ ctl = "idle" /\ phy /\ ~polling /\ ~fault) => <>[](told = "up")

(* Neither what the wire brought nor what became of the cable goes unnoticed. *)
RingAndLinkServed == RingDrained /\ LinkSeen
=============================================================================
