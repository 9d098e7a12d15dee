------------------------------- MODULE GeiTx -------------------------------
(***************************************************************************)
(* The transmit ring of the PRO/1000 END driver: protocols hand packets to *)
(* geiEndSend, which turns each into descriptors; the chip works them off; *)
(* geiEndTxHandle, a job in tNetTask, reclaims what is done and restarts   *)
(* protocols that were refused; polled mode takes the ring over.           *)
(*                                                                         *)
(* END_TX_SEM makes geiEndSend and the clean-up one step each against the  *)
(* other; the chip moves between any two of them.  The ring is the         *)
(* sequence of descriptors from geiTxCons to geiTxProd; the chip's head    *)
(* TDH and the published tail TDT are positions relative to geiTxCons.     *)
(***************************************************************************)
EXTENDS Integers, Sequences, FiniteSets

CONSTANTS
  Senders,      \* protocols bound to the interface
  Quota,        \* bound: packets of each protocol
  DescCnt,      \* GEI_TX_DESC_CNT
  MaxFrags,     \* segments a DMA map takes; one more is too many
  CleanThresh,  \* GEI_TX_CLEAN_THRESH
  MarkThresh,   \* GEI_TX_MARK_THRESH
  Contexts,     \* checksum offload requests, NoContext among them
  NoContext,
  DevTypes,     \* "legacy" and "advanced" descriptor formats
  MaxMishaps    \* bound: an empty pool, a lost link, polled mode

Packet  == [s : Senders, n : Nat \ {0}]
PollBuf == [s |-> "poll", n |-> 0]

(* What is assumed of the constants. *)
TxRingConstants ==
  /\ Quota \in [Senders -> Nat] /\ MaxMishaps \in Nat
  /\ DescCnt \in Nat /\ DescCnt > MaxFrags + 1
  /\ MaxFrags \in Nat \ {0}
  /\ CleanThresh \in 0 .. DescCnt
  /\ MarkThresh \in Nat \ {0}
  /\ NoContext \in Contexts
  /\ DevTypes \subseteq {"legacy", "advanced"}
  /\ "poll" \notin Senders

ASSUME TxRingAssumption == TxRingConstants

VARIABLES
  devType,    \* geiDevType
  ring,       \* descriptors from geiTxCons up to geiTxProd
  ghost,      \* descriptors behind geiTxCons the chip has yet to take
  txFree,     \* geiTxFree
  tdh,        \* TDH, relative to geiTxCons
  tdt,        \* TDT, relative to geiTxCons
  lastCtx,    \* geiLastCtx, geiLastOffsets, geiLastVlan
  sinceMark,  \* geiTxSinceMark
  txStall,    \* geiTxStall
  active,     \* geiCurStatus has IFM_ACTIVE
  chipCtx,    \* the offload request the chip was last given
  ir,         \* a transmit cause is set in ICR
  job,        \* where geiEndIntHandle is with the transmit side
  polling,    \* geiPolling: "no", "draining" or "yes"
  blocked,    \* protocols that got END_ERR_BLOCK and wait for muxTxRestart
  given,      \* history: packets of each protocol the driver took
  sent,       \* history: packets the chip sent, in order
  freed,      \* history: packets whose buffer went back to the pool
  mishaps,    \* history: how often the pool was found empty, the link was
              \* lost or polled mode took over
  wrapped,    \* history: the ring was filled before the chip took the first
              \* of its descriptors
  misread,    \* history: the chip sent a packet under another's request
  uncounted   \* history: the context descriptor of a first attempt, which
              \* geiTxSinceMark does not count, went into the ring

ringVars == << ring, ghost, txFree, tdh, tdt, lastCtx, sinceMark >>
history  == << given, sent, freed, mishaps, wrapped, misread, uncounted >>
txVars == << devType, ringVars, txStall, active, chipCtx, ir, job, polling, blocked, history >>

Entry(kind, p, c, urgent) ==
  [kind |-> kind, pkt |-> p, ctx |-> c, urgent |-> urgent, st |-> "new"]

TxInit ==
  /\ devType \in DevTypes
  /\ ring = << >> /\ ghost = << >>
  /\ txFree = DescCnt
  /\ tdh = 0 /\ tdt = 0
  /\ lastCtx = NoContext
  /\ sinceMark = 0
  /\ txStall = FALSE
  /\ active = TRUE
  /\ chipCtx = NoContext
  /\ ir = FALSE
  /\ job = "idle"
  /\ polling = "no"
  /\ blocked = {}
  /\ given = [s \in Senders |-> 0]
  /\ sent = << >>
  /\ freed = {}
  /\ mishaps = 0
  /\ wrapped = FALSE /\ misread = FALSE /\ uncounted = FALSE

TasksRun == polling = "no"

Mishap == mishaps < MaxMishaps /\ mishaps' = mishaps + 1

(***************************************************************************)
(* The chip.  It works on descriptors while head and tail differ: a ring   *)
(* that is full looks empty to it.                                         *)
(***************************************************************************)
ToDo == (tdt - tdh) % DescCnt

(* What the slot the head points to holds: behind geiTxCons it may hold a
   new descriptor already. *)
AtHead ==
  IF tdh >= 0 THEN ring[tdh + 1]
  ELSE IF tdh + DescCnt < Len(ring) THEN ring[tdh + DescCnt + 1]
  ELSE Head(ghost)

ChipTransmit ==
  /\ active
  /\ ToDo # 0
  /\ tdh' = tdh + 1
  /\ ring' = [i \in 1 .. Len(ring) |->
               IF i = (tdh % DescCnt) + 1 THEN [ring[i] EXCEPT !.st = "sent"] ELSE ring[i]]
  /\ ghost' = IF tdh < 0 THEN Tail(ghost) ELSE ghost
  /\ chipCtx' = IF AtHead.kind \in {"ctx", "advctx"} THEN AtHead.ctx ELSE chipCtx
  /\ sent' = IF AtHead.kind = "eop" /\ AtHead.pkt # PollBuf
             THEN Append(sent, AtHead.pkt) ELSE sent
  /\ misread' = (misread \/ (/\ AtHead.kind = "eop"
                             /\ AtHead.ctx \notin {NoContext, chipCtx}))
  /\ UNCHANGED << devType, txFree, tdt, lastCtx, sinceMark, txStall, active, ir, job,
                  polling, blocked, given, freed, mishaps, wrapped, uncounted >>

(* DD is written to memory after the head moved, and interrupts. *)
ChipWriteBack ==
  /\ \E i \in 1 .. Len(ring) :
       /\ ring[i].st = "sent"
       /\ \A j \in 1 .. i - 1 : ring[j].st # "sent"
       /\ ring' = [ring EXCEPT ![i].st = "done"]
  /\ ir' = TRUE
  /\ UNCHANGED << devType, ghost, txFree, tdh, tdt, lastCtx, sinceMark, txStall, active,
                  chipCtx, job, polling, blocked, history >>

(* geiLinkUpdate: the link goes down or comes up. *)
LinkChange ==
  /\ TasksRun
  /\ active' = ~active
  /\ IF active THEN Mishap ELSE UNCHANGED mishaps
  /\ UNCHANGED << devType, ringVars, txStall, chipCtx, ir, job, polling, blocked, given,
                  sent, freed, wrapped, misread, uncounted >>

(***************************************************************************)
(* geiEndTbdClean.                                                         *)
(***************************************************************************)

(* Completed context descriptors of advanced chips never have DD set: the
   clean-up takes each for completed. *)
Reclaimable(d) == d.st = "done" \/ d.kind = "advctx"

(* The loop stops after k descriptors. *)
CleansTo(k) ==
  /\ \A i \in 1 .. k : Reclaimable(ring[i])
  /\ k < Len(ring) => ~Reclaimable(ring[k + 1])

PacketsIn(q) == { q[i].pkt : i \in { j \in 1 .. Len(q) : q[j].kind = "eop" } }

(* The ring after it, as a record: geiTxSinceMark is cut to what is in use. *)
Cleaned(k) ==
  [ring |-> SubSeq(ring, k + 1, Len(ring)),
   free |-> txFree + k,
   ctx  |-> lastCtx,
   mark |-> IF sinceMark > DescCnt - (txFree + k) THEN DescCnt - (txFree + k)
            ELSE sinceMark]

FreedBy(k) == PacketsIn(SubSeq(ring, 1, k)) \ {PollBuf}

(***************************************************************************)
(* geiEndEncap and geiEndAdvEncap, on such a record.                       *)
(***************************************************************************)

(* A context descriptor if the request is not the one the chip has. *)
LegacyContext(q, c) ==
  IF c \in {NoContext, q.ctx} THEN q
  ELSE [q EXCEPT !.ring = Append(q.ring, Entry("ctx", PollBuf, c, FALSE)),
                 !.free = q.free - 1,
                 !.ctx  = c]

AdvContext(q, c) ==
  IF c \in {NoContext, q.ctx} THEN q
  ELSE [q EXCEPT !.ring = Append(q.ring, Entry("advctx", PollBuf, c, FALSE)),
                 !.free = q.free - 1,
                 !.ctx  = c]

WithContext(q, c) ==
  IF devType = "advanced" THEN AdvContext(q, c) ELSE LegacyContext(q, c)

(* ENOSPC: too many segments for the map, or for the ring.  A segment is one
   descriptor: gei82544PcixWar, which may split it in two, is for an 82544 in
   PCI-X mode and never set on the PR6120. *)
Fits(q, f) == f <= MaxFrags /\ f <= q.free

Data(q, p, c, f, urgent) ==
  q.ring \o [i \in 1 .. f |->
               IF i = f THEN Entry("eop", p, c, urgent) ELSE Entry("data", p, NoContext, FALSE)]

(* Mutant: the request for an undelayed interrupt is never made. *)
MutUrgent(q) == FALSE

(* The last descriptor of a packet interrupts without delay once MarkThresh
   descriptors did not. *)
Urgent(q) == q.mark >= MarkThresh

(* used counts the descriptors of the packet, its context included. *)
LegacyData(q, p, c, f, used) ==
  [q EXCEPT !.ring = Data(q, p, c, f, Urgent(q)),
            !.free = q.free - f,
            !.mark = IF Urgent(q) THEN 0 ELSE q.mark + used]

(* Advanced chips do not delay interrupts. *)
AdvData(q, p, c, f) ==
  [q EXCEPT !.ring = Data(q, p, c, f, TRUE), !.free = q.free - f]

WithData(q, p, c, f, used) ==
  IF devType = "advanced" THEN AdvData(q, p, c, f) ELSE LegacyData(q, p, c, f, used)

Used(q, q2) == q.free - q2.free

(***************************************************************************)
(* geiEndSend.                                                             *)
(***************************************************************************)
NextPacket(s) == [s |-> s, n |-> given[s] + 1]

MaySend(s) ==
  /\ TasksRun
  /\ s \notin blocked
  /\ given[s] < Quota[s]

(* "blocked:" *)
Refuse(s) ==
  /\ txStall' = TRUE
  /\ blocked' = blocked \cup {s}
  /\ UNCHANGED given

(* The clean-up of geiEndSend: only when the ring is used enough. *)
EarlyClean(k) ==
  IF txFree < DescCnt - CleanThresh THEN CleansTo(k) ELSE k = 0

(* What of the k reclaimed descriptors the chip has yet to take. *)
Untaken(k) == SubSeq(ring, (IF tdh > 0 THEN tdh ELSE 0) + 1, k)

(* Bound: the chip is at most a whole ring behind geiTxCons.  A chip further
   behind has been overtaken, which wrapped tells. *)
LapBound(k) == k - tdh <= DescCnt

(* Writes the ring back and the tail pointer to the chip. *)
Publish(k, q, tail) ==
  /\ LapBound(k)
  /\ ring' = q.ring
  /\ ghost' = ghost \o Untaken(k)
  /\ txFree' = q.free
  /\ lastCtx' = q.ctx
  /\ sinceMark' = q.mark
  /\ tdh' = tdh - k
  /\ tdt' = tail
  /\ freed' = freed \cup FreedBy(k)
  /\ wrapped' = (wrapped \/ Len(q.ring) - (tdh - k) >= DescCnt)
  /\ UNCHANGED << chipCtx, misread >>

(* No descriptor, or no link: refused before any clean-up. *)
SendRefused(s) ==
  /\ MaySend(s)
  /\ txFree = 0 \/ ~active
  /\ Refuse(s)
  /\ UNCHANGED << devType, ringVars, active, chipCtx, ir, job, polling, sent, freed, mishaps,
                  wrapped, misread, uncounted >>

(* The packet goes into the ring as it is ... *)
SendDirect(s) ==
  /\ MaySend(s)
  /\ txFree # 0 /\ active
  /\ \E k \in 0 .. Len(ring), c \in Contexts, f \in 1 .. MaxFrags :
       LET q  == Cleaned(k)
           q1 == WithContext(q, c)
           q2 == WithData(q1, NextPacket(s), c, f, Used(q, q1) + f)
       IN /\ EarlyClean(k)
          /\ Fits(q1, f)
          /\ Publish(k, q2, Len(q2.ring))
  /\ given' = [given EXCEPT ![s] = @ + 1]
  /\ UNCHANGED << devType, txStall, active, ir, job, polling, blocked, sent, mishaps,
                  uncounted >>

(* Mutant of SendCoalesced: the context descriptor of the first attempt is
   given back, geiLastCtx is not. *)
MutSendCoalescedGivesBack(s) ==
  /\ MaySend(s)
  /\ txFree # 0 /\ active
  /\ \E k \in 0 .. Len(ring), c \in Contexts, f \in 1 .. MaxFrags + 1 :
       LET q1 == [Cleaned(k) EXCEPT !.ctx = IF c = NoContext THEN lastCtx ELSE c]
           q2 == WithData(q1, NextPacket(s), c, 1, 1)
       IN /\ EarlyClean(k)
          /\ ~Fits(WithContext(Cleaned(k), c), f)
          /\ Fits(q1, 1)
          /\ Publish(k, q2, Len(q2.ring))
          /\ given' = [given EXCEPT ![s] = @ + 1]
  /\ UNCHANGED << devType, txStall, active, ir, job, polling, blocked, sent, mishaps,
                  uncounted >>

(* The first attempt failed after its context descriptor went in. *)
LeavesContext(q, q1) == uncounted' = (uncounted \/ q1 # q)

(* ... or, when it does not fit, coalesced into one buffer; the context
   descriptor is in the ring already ... *)
SendCoalesced(s) ==
  /\ MaySend(s)
  /\ txFree # 0 /\ active
  /\ \E k \in 0 .. Len(ring), c \in Contexts, f \in 1 .. MaxFrags + 1 :
       LET q1 == WithContext(Cleaned(k), c)
       IN /\ EarlyClean(k)
          /\ ~Fits(q1, f)
          /\ LeavesContext(Cleaned(k), q1)
          /\ IF Fits(q1, 1)
             THEN LET q2 == WithData(q1, NextPacket(s), c, 1, 1) IN
                  /\ Publish(k, q2, Len(q2.ring))
                  /\ given' = [given EXCEPT ![s] = @ + 1]
                  /\ UNCHANGED << txStall, blocked >>
             ELSE Publish(k, q1, Len(q1.ring)) /\ Refuse(s)
  /\ UNCHANGED << devType, active, ir, job, polling, sent, mishaps >>

(* ... unless the pool is empty: the tail pointer stays. *)
SendNoBuf(s) ==
  /\ MaySend(s)
  /\ txFree # 0 /\ active
  /\ \E k \in 0 .. Len(ring), c \in Contexts, f \in 1 .. MaxFrags + 1 :
       LET q1 == WithContext(Cleaned(k), c)
       IN /\ EarlyClean(k)
          /\ ~Fits(q1, f)
          /\ LeavesContext(Cleaned(k), q1)
          /\ Publish(k, q1, tdt - k)
  /\ Refuse(s)
  /\ Mishap
  /\ UNCHANGED << devType, active, ir, job, polling, sent >>

Send(s) == SendRefused(s) \/ SendDirect(s) \/ SendCoalesced(s) \/ SendNoBuf(s)

(***************************************************************************)
(* geiEndIntHandle, as far as the transmit side goes.                      *)
(***************************************************************************)

(* Reading ICR acknowledges the cause. *)
JobStart ==
  /\ TasksRun
  /\ job = "idle"
  /\ ir
  /\ ir' = FALSE
  /\ job' = "tx"
  /\ UNCHANGED << devType, ringVars, txStall, active, chipCtx, polling, blocked, history >>

(* Mutants of TxHandle: the stall is not looked at; the clean-up trusts
   every descriptor. *)
MutTxHandle ==
  /\ TasksRun
  /\ job = "tx"
  /\ \E k \in 0 .. Len(ring) :
       /\ CleansTo(k)
       /\ Publish(k, Cleaned(k), tdt - k)
  /\ job' = "idle"
  /\ UNCHANGED << devType, txStall, active, ir, polling, blocked, given, sent, mishaps,
                  uncounted >>

MutTxHandleNoDD ==
  /\ TasksRun
  /\ job = "tx"
  /\ Publish(Len(ring), Cleaned(Len(ring)), tdt - Len(ring))
  /\ txStall' = (txStall /\ ring = << >>)
  /\ job' = IF txStall /\ ring # << >> THEN "restart" ELSE "idle"
  /\ UNCHANGED << devType, active, ir, polling, blocked, given, sent, mishaps, uncounted >>

(* geiEndTxHandle: a stall ends when something was reclaimed here. *)
TxHandle ==
  /\ TasksRun
  /\ job = "tx"
  /\ \E k \in 0 .. Len(ring) :
       /\ CleansTo(k)
       /\ Publish(k, Cleaned(k), tdt - k)
       /\ txStall' = (txStall /\ k = 0)
       /\ job' = IF txStall /\ k # 0 THEN "restart" ELSE "idle"
  /\ UNCHANGED << devType, active, ir, polling, blocked, given, sent, mishaps, uncounted >>

(* muxTxRestart, after END_TX_SEM was given. *)
TxRestart ==
  /\ TasksRun
  /\ job = "restart"
  /\ job' = "idle"
  /\ blocked' = {}
  /\ UNCHANGED << devType, ringVars, txStall, active, chipCtx, ir, polling, history >>

(***************************************************************************)
(* Polled mode: nothing else runs.                                         *)
(***************************************************************************)
PollStart ==
  /\ TasksRun
  /\ polling' = "draining"
  /\ Mishap
  /\ UNCHANGED << devType, ringVars, txStall, active, chipCtx, ir, job, blocked, given, sent,
                  freed, wrapped, misread, uncounted >>

(* EIOCPOLLSTART waits until the chip is idle and empties the ring. *)
PollDrain ==
  /\ polling = "draining"
  /\ ToDo = 0
  /\ polling' = "yes"
  /\ Publish(Len(ring), [Cleaned(Len(ring)) EXCEPT !.mark = 0], tdt - Len(ring))
  /\ UNCHANGED << devType, txStall, active, ir, job, blocked, given, sent, mishaps,
                  uncounted >>

(* Bound: the chip is never a whole ring behind polled sends. *)
PollTimeoutBound(n) == n - tdh < DescCnt

(* geiEndPollSend: send the poll buffer, wait for the chip, reclaim up to the
   first descriptor with EOP, which is the last of this packet because the ring
   was empty.  Without a link the wait times out, and the descriptors are
   reclaimed although the chip has yet to take them. *)
PollSend ==
  /\ polling = "yes"
  /\ \E c \in Contexts :
       LET q  == Cleaned(0)
           q1 == WithContext(q, c)
           q2 == WithData(q1, PollBuf, c, 1, Used(q, q1) + 1)
       IN /\ lastCtx' = q2.ctx
          /\ sinceMark' = q2.mark
          /\ IF active
             THEN tdh' = 0 /\ ghost' = << >> /\ chipCtx' = q2.ctx
             ELSE /\ PollTimeoutBound(Used(q, q2))
                  /\ tdh' = tdh - Used(q, q2)
                  /\ ghost' = ghost \o q2.ring
                  /\ UNCHANGED chipCtx
  /\ tdt' = 0
  /\ ir' = FALSE
  /\ UNCHANGED << devType, ring, txFree, txStall, active, job, polling, blocked,
                  history >>

PollStop ==
  /\ polling = "yes"
  /\ polling' = "no"
  /\ UNCHANGED << devType, ringVars, txStall, active, chipCtx, ir, job, blocked, history >>

Polled == PollStart \/ PollDrain \/ PollSend \/ PollStop
Job    == JobStart \/ TxHandle \/ TxRestart

TxNext == ChipTransmit \/ ChipWriteBack \/ LinkChange \/ Job \/ Polled \/ \E s \in Senders : Send(s)

TxSpec == TxInit /\ [][TxNext]_txVars

(* The chip works off what it is told of while there is a link, and tNetTask
   runs the job.  No protocol is obliged to send. *)
TxFairSpec == TxSpec /\ WF_txVars(ChipTransmit) /\ WF_txVars(ChipWriteBack) /\ WF_txVars(Job)

(***************************************************************************)
(* Properties.                                                             *)
(***************************************************************************)

Descriptor ==
  [kind : {"ctx", "advctx", "data", "eop"}, pkt : Packet \cup {PollBuf},
   ctx : Contexts,
   urgent : BOOLEAN, st : {"new", "sent", "done"}]

(* Every descriptor is either in use or counted in geiTxFree. *)
TxTypeOK ==
  /\ devType \in {"legacy", "advanced"}
  /\ ring \in Seq(Descriptor) /\ ghost \in Seq(Descriptor)
  /\ txFree \in 0 .. DescCnt
  /\ Len(ring) + txFree = DescCnt
  /\ tdh \in Int /\ tdt \in Int
  /\ lastCtx \in Contexts /\ chipCtx \in Contexts
  /\ sinceMark \in Nat
  /\ txStall \in BOOLEAN
  /\ active \in BOOLEAN
  /\ ir \in BOOLEAN
  /\ job \in {"idle", "tx", "restart"}
  /\ polling \in {"no", "draining", "yes"}
  /\ blocked \subseteq Senders
  /\ given \in [Senders -> Nat]
  /\ sent \in Seq(Packet)
  /\ freed \subseteq Packet
  /\ mishaps \in 0 .. MaxMishaps
  /\ wrapped \in BOOLEAN /\ misread \in BOOLEAN /\ uncounted \in BOOLEAN

SentPackets == { sent[i] : i \in 1 .. Len(sent) }

(* As long as the chip is never a whole ring behind, a buffer goes back to the
   pool only after the chip has sent it, polled mode or not. *)
FreedAfterSent == ~wrapped => freed \subseteq SentPackets

(* The chip never sends a packet under the offload request of another: what
   geiLastCtx, geiLastOffsets and geiLastVlan remember is what the chip has. *)
RightContext == ~wrapped => ~misread

(* The packets of a protocol leave in the order of its calls, each once. *)
SentInOrder ==
  ~wrapped =>
    \A i, j \in 1 .. Len(sent) :
      i < j /\ sent[i].s = sent[j].s => sent[i].n < sent[j].n

(* What leaves the chip is what the protocols asked for. *)
SentAsAsked == RightContext /\ SentInOrder

(* A refused protocol is refused for a reason that ends: descriptors are in
   flight and the stall is noted, or the restart is under way. *)
StalledForAReason ==
  blocked # {} /\ mishaps = 0 => (txStall /\ ring # << >>) \/ job = "restart"

(* The invariant geiEndTbdClean is commented to maintain, outside polled
   mode. *)
MarkInvariant == mishaps = 0 => sinceMark <= DescCnt - txFree

Hurries(d) == d.kind = "eop" /\ d.urgent

(* When legacy descriptors run out, one in flight asks for an interrupt
   without delay, if the ring holds more than one threshold and one packet,
   and unless a descriptor in it is the context of a first attempt:
   geiEndEncap adds to geiTxSinceMark what the attempt that succeeds used. *)
FullRingInterruptsSoon ==
  (/\ txFree = 0 /\ devType = "legacy" /\ ~uncounted
   /\ MarkThresh + MaxFrags < DescCnt) => \E i \in 1 .. Len(ring) : Hurries(ring[i])

(* The transmit ring is in order: descriptors are accounted for, a ring that
   is full will interrupt soon, and who was refused waits for something. *)
RingInOrder ==
  TxTypeOK /\ StalledForAReason /\ MarkInvariant /\ FullRingInterruptsSoon

(* A refused protocol is restarted, unless a mishap came between
   or the ring was filled a whole turn ahead of the chip. *)
SendersRestarted ==
  \A s \in Senders : (s \in blocked) ~> (s \notin blocked \/ mishaps > 0 \/ wrapped)
=============================================================================
