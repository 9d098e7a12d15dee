---------------------------- MODULE SerialProofs ----------------------------
(***************************************************************************)
(* The serial driver and the program that uses it: what a channel promises *)
(* whatever is written, read and switched; that the channels found at boot *)
(* are apart and connected, whatever the number of on-chip UARTs; and the  *)
(* safety of the bridge of the demo for every configuration, any number of *)
(* links and any size of the output rings.  The three have nothing in common *)
(* but their place in the system: each part states its own invariant.      *)
(***************************************************************************)
EXTENDS NsSioSystem, Bridge, TLAPS, SequenceTheorems, WellFoundedInduction

(***************************************************************************)
(* A channel (module NsSio).                                               *)
(***************************************************************************)

(* At most one entry of a queue is x. *)
Once(q, x) == \A i, k \in DOMAIN q : q[i] = x /\ q[k] = x => i = k

(* Before the first switch to interrupt mode there is no job, and no
   interrupt is enabled unless the handler ran for another channel. *)
Queueless ==
  ~queueId => /\ channelMode # "int" /\ jobs = << >> /\ job = "none"
              /\ stirred \/ IER = {}

(* txDefer stands for the one transmit job from posting to its beginning. *)
Deferred ==
  /\ Once(jobs, "wr")
  /\ "wr" \in ToSet(jobs) => txDefer /\ job # "wr"
  /\ job = "wr" => txDefer
  /\ txDefer /\ lostJob = "none" => "wr" \in ToSet(jobs) \/ job = "wr"

(* While a receive job is pending its interrupt is off, otherwise on. *)
ReceiveDeferred ==
  /\ ~reenabled =>
       /\ Once(jobs, "rd")
       /\ "rd" \in ToSet(jobs) => job # "rd"
       /\ RdPending => "rx" \notin ier /\ "rx" \notin IER
  /\ lostJob = "none" => RdPending \/ "rx" \in ier

(* What the copy of IER says of the register, and flow control of both. *)
Copied ==
  /\ channelMode = "int" => ier \subseteq IER
  /\ "ms" \in IER => "ms" \in ier
  /\ "ms" \in ier <=> ~Clocal

(* TransmitterAlive, for the modes in which IER says nothing as well. *)
Sender ==
  busy /\ ~starting /\ ~muted /\ lostJob = "none" =>
    \/ WrPending
    \/ "tx" \in ier
    \/ ~Clocal /\ (channelMode = "int" => ~cts \/ dcts)

(* What is left of a burst has room. *)
BurstFits ==
  /\ job = "send" <=> burst > 0
  /\ job = "send" /\ fifoOn /\ ~printed => txFifo + burst <= FifoSize
  /\ ~overrun

SioInv ==
  /\ SioTypeOK /\ Queueless /\ Deferred /\ ReceiveDeferred /\ Copied /\ Sender /\ BurstFits
  /\ JobsHaveAQueue

(* FifoSize and the bounds are numbers. *)
LEMMA SioNumbers ==
  FifoSize \in Nat \ {0} /\ MaxOut \in Nat /\ MaxCts \in Nat /\ MaxCalls \in Nat
  /\ \A o \in Options : o \subseteq {"CLOCAL", "CREAD", "HUPCL"}
BY SioAssumption DEF SioConstants

(* isrDeferJobAdd posts the job it is given and nothing else. *)
LEMMA Posted ==
  ASSUME NEW S, NEW q \in Seq(S), NEW x \in S
  PROVE  /\ Append(q, x) \in Seq(S)
         /\ ToSet(Append(q, x)) = ToSet(q) \cup {x}
         /\ \A y : Once(q, y) /\ (y = x => x \notin ToSet(q)) => Once(Append(q, x), y)
<1> DEFINE r == Append(q, x)
<1>1. /\ r \in Seq(S) /\ Len(r) = Len(q) + 1 /\ Len(q) \in Nat
      /\ \A i \in 1 .. Len(q) : r[i] = q[i]
      /\ r[Len(q) + 1] = x
      /\ DOMAIN q = 1 .. Len(q) /\ DOMAIN r = 1 .. Len(r)
  BY AppendProperties, LenProperties
<1> HIDE DEF r
<1>2. ToSet(r) = ToSet(q) \cup {x}
  BY <1>1 DEF ToSet
<1>3. ASSUME NEW y, Once(q, y), y = x => x \notin ToSet(q)
      PROVE  Once(r, y)
  <2> SUFFICES ASSUME NEW i \in 1 .. Len(r), NEW k \in 1 .. Len(r), r[i] = y, r[k] = y
               PROVE  i = k
    BY <1>1 DEF Once
  <2>1. CASE i \in 1 .. Len(q) /\ k \in 1 .. Len(q)
    BY <1>1, <1>3, <2>1 DEF Once
  <2>2. CASE i = Len(q) + 1 \/ k = Len(q) + 1
    <3>1. y = x => \A n \in 1 .. Len(q) : r[n] # y
      BY <1>1, <1>3 DEF ToSet
    <3> QED
      BY <1>1, <2>2, <3>1
  <2> QED
    BY <1>1, <2>1, <2>2
<1> QED
  BY <1>1, <1>2, <1>3 DEF r

(* The deferral task takes the oldest job and leaves the others. *)
LEMMA Fetched ==
  ASSUME NEW S, NEW q \in Seq(S), q # << >>
  PROVE  /\ Tail(q) \in Seq(S) /\ Head(q) \in S
         /\ ToSet(q) = {Head(q)} \cup ToSet(Tail(q))
         /\ \A y : Once(q, y) => Once(Tail(q), y) /\ (y = Head(q) => y \notin ToSet(Tail(q)))
<1> DEFINE t == Tail(q)
<1>1. /\ t \in Seq(S) /\ Len(t) = Len(q) - 1
      /\ \A i \in 1 .. Len(t) : t[i] = q[i + 1]
      /\ Len(q) \in Nat \ {0}
      /\ Head(q) = q[1]
      /\ DOMAIN q = 1 .. Len(q) /\ DOMAIN t = 1 .. Len(t)
  BY HeadTailProperties, LenProperties, EmptySeq
<1>2. Head(q) \in S
  BY <1>1, ElementOfSeq
<1> HIDE DEF t
<1>3. \A i \in 1 .. Len(t) : i + 1 \in 1 .. Len(q) /\ i + 1 # 1
  BY <1>1
<1>4. \A i \in 1 .. Len(q) : i = 1 \/ \E k \in 1 .. Len(t) : t[k] = q[i]
  <2> SUFFICES ASSUME NEW i \in 1 .. Len(q), i # 1
               PROVE  \E k \in 1 .. Len(t) : t[k] = q[i]
    OBVIOUS
  <2> DEFINE k == i - 1
  <2>1. k \in 1 .. Len(t) /\ i = k + 1
    BY <1>1
  <2> QED
    BY <1>1, <2>1
<1>5. ToSet(q) = {Head(q)} \cup ToSet(t)
  <2>1. ToSet(q) \subseteq {Head(q)} \cup ToSet(t)
    <3> SUFFICES ASSUME NEW i \in 1 .. Len(q)
                 PROVE  q[i] = Head(q) \/ q[i] \in ToSet(t)
      BY <1>1 DEF ToSet
    <3> QED
      BY <1>1, <1>4 DEF ToSet
  <2>2. {Head(q)} \cup ToSet(t) \subseteq ToSet(q)
    BY <1>1, <1>3 DEF ToSet
  <2> QED
    BY <2>1, <2>2
<1>6. ASSUME NEW y, Once(q, y)
      PROVE  Once(t, y) /\ (y = Head(q) => y \notin ToSet(t))
  <2>1. \A i, k \in 1 .. Len(t) : t[i] = y /\ t[k] = y => i = k
    <3> SUFFICES ASSUME NEW i \in 1 .. Len(t), NEW k \in 1 .. Len(t), t[i] = y, t[k] = y
                 PROVE  i = k
      OBVIOUS
    <3>1. i + 1 = k + 1
      BY <1>1, <1>3, <1>6 DEF Once
    <3> QED
      BY <3>1
  <2>2. \A i \in 1 .. Len(t) : y = Head(q) => t[i] # y
    <3> SUFFICES ASSUME NEW i \in 1 .. Len(t), y = q[1], t[i] = y
                 PROVE  FALSE
      BY <1>1
    <3>1. 1 \in 1 .. Len(q) /\ q[i + 1] = y
      BY <1>1
    <3> QED
      BY <1>1, <1>3, <1>6, <3>1 DEF Once
  <2> QED
    BY <1>1, <2>1, <2>2 DEF Once, ToSet
<1> QED
  BY <1>1, <1>2, <1>5, <1>6 DEF t

LEMMA SioInitOK == SioInit => SioInv
<1> SUFFICES ASSUME SioInit PROVE SioInv
  OBVIOUS
<1>1. jobs \in Seq({"wr", "rd"}) /\ ToSet(jobs) = {} /\ \A x : Once(jobs, x)
  BY DEF SioInit, ToSet, Once
<1>2. SioTypeOK
  <2>1. {mcrOn, queueId, txDefer, busy, starting, fifoOn, cts, dcts, muted, reenabled, printed,
         overrun, stirred} \subseteq BOOLEAN
    BY DEF SioInit
  <2>2. ier \subseteq Bits /\ IER \subseteq Bits /\ callbacks \subseteq {"tx", "rx"}
    BY DEF SioInit, Bits
  <2>3. burst \in 0 .. FifoSize /\ out \in 0 .. MaxOut /\ {txFifo, rxFifo} \subseteq 0 .. FifoSize
        /\ turns \in 0 .. MaxCts /\ calls \in 0 .. MaxCalls
    BY SioNumbers DEF SioInit
  <2> QED
    BY <1>1, <2>1, <2>2, <2>3 DEF SioInit, SioTypeOK
<1>3. Queueless /\ Deferred /\ ReceiveDeferred /\ Copied /\ Sender /\ JobsHaveAQueue
  BY <1>1 DEF SioInit, Queueless, Deferred, ReceiveDeferred, Copied, Sender, JobsHaveAQueue,
     RdPending, Clocal
<1>4. BurstFits
  BY DEF SioInit, BurstFits
<1> QED
  BY <1>2, <1>3, <1>4 DEF SioInv

(* SioTypeOK in parts. *)
IsFlag(b) == b \in BOOLEAN

SioFlags ==
  /\ IsFlag(mcrOn) /\ IsFlag(queueId) /\ IsFlag(txDefer) /\ IsFlag(busy) /\ IsFlag(starting)
  /\ IsFlag(fifoOn) /\ IsFlag(cts) /\ IsFlag(dcts) /\ IsFlag(muted) /\ IsFlag(reenabled)
  /\ IsFlag(printed) /\ IsFlag(overrun) /\ IsFlag(stirred)

SioSets ==
  /\ channelMode \in {"undefined", "poll", "int"}
  /\ options \subseteq {"CLOCAL", "CREAD", "HUPCL"}
  /\ ier \subseteq Bits /\ IER \subseteq Bits
  /\ lostJob \in {"none", "other", "own"}
  /\ callbacks \subseteq {"tx", "rx"}
  /\ jobs \in Seq({"wr", "rd"})
  /\ job \in {"none", "wr", "send", "more", "rd"}

SioCounts ==
  /\ burst \in 0 .. FifoSize
  /\ out \in 0 .. MaxOut
  /\ txFifo \in 0 .. FifoSize /\ rxFifo \in 0 .. FifoSize
  /\ turns \in 0 .. MaxCts /\ calls \in 0 .. MaxCalls

LEMMA SioTyped ==
  /\ SioTypeOK <=> SioFlags /\ SioSets /\ SioCounts
  /\ SioTypeOK' <=> SioFlags' /\ SioSets' /\ SioCounts'
<1>1. SioTypeOK <=> SioFlags /\ SioSets /\ SioCounts
  BY DEF SioTypeOK, SioFlags, SioSets, SioCounts, IsFlag
<1>2. SioTypeOK' <=> SioFlags' /\ SioSets' /\ SioCounts'
  BY DEF SioTypeOK, SioFlags, SioSets, SioCounts, IsFlag
<1> QED
  BY <1>1, <1>2

(* The FIFO only gets emptier. *)
LEMMA ChipSendOK == ASSUME SioInv, ChipSend PROVE SioInv'
<1>1. SioTypeOK'
  BY SioNumbers DEF SioInv, SioTypeOK, Bits, ChipSend, chan, defer, tty, msr, uart,
     counts, blame
<1>2. Queueless'
  BY SioNumbers DEF SioInv, Queueless, ChipSend, SioTypeOK, chan, defer, tty, msr,
     uart, counts, blame
<1>3. Deferred'
  BY SioNumbers DEF SioInv, Deferred, ChipSend, SioTypeOK, Queueless, chan, defer, tty,
     msr, uart, counts, blame
<1>4. ReceiveDeferred'
  BY SioNumbers DEF SioInv, ReceiveDeferred, RdPending, ChipSend, SioTypeOK, Queueless,
     chan, defer, tty, msr, uart, counts, blame
<1>5. Copied'
  BY SioNumbers DEF SioInv, Copied, Clocal, ChipSend, SioTypeOK, Queueless, chan,
     defer, tty, msr, uart, counts, blame
<1>6. Sender'
  BY SioNumbers DEF SioInv, Sender, WrPending, Clocal, ChipSend, SioTypeOK, Queueless,
     chan, defer, tty, msr, uart, counts, blame
<1>7. BurstFits'
  BY SioNumbers DEF SioInv, BurstFits, ChipSend, SioTypeOK, Queueless, chan, defer,
     tty, msr, uart, counts, blame
<1>8. JobsHaveAQueue'
  BY SioNumbers DEF SioInv, JobsHaveAQueue, ChipSend, SioTypeOK, Queueless, chan,
     defer, tty, msr, uart, counts, blame
<1> QED
  BY <1>1, <1>2, <1>3, <1>4, <1>5, <1>6, <1>7, <1>8 DEF SioInv

(* A character arrives; the receive interrupt or a job is there. *)
LEMMA ChipReceiveOK == ASSUME SioInv, ChipReceive PROVE SioInv'
<1>1. SioTypeOK'
  BY SioNumbers DEF SioInv, SioTypeOK, Bits, ChipReceive, Depth, chan, defer, tty, msr,
     uart, counts, blame
<1>2. Queueless'
  BY SioNumbers DEF SioInv, Queueless, ChipReceive, Depth, SioTypeOK, chan, defer, tty,
     msr, uart, counts, blame
<1>3. Deferred'
  BY SioNumbers DEF SioInv, Deferred, ChipReceive, Depth, SioTypeOK, Queueless, chan,
     defer, tty, msr, uart, counts, blame
<1>4. ReceiveDeferred'
  BY SioNumbers DEF SioInv, ReceiveDeferred, RdPending, ChipReceive, Depth, SioTypeOK,
     Queueless, chan, defer, tty, msr, uart, counts, blame
<1>5. Copied'
  BY SioNumbers DEF SioInv, Copied, Clocal, ChipReceive, Depth, SioTypeOK, Queueless,
     chan, defer, tty, msr, uart, counts, blame
<1>6. Sender'
  BY SioNumbers DEF SioInv, Sender, WrPending, Clocal, ChipReceive, Depth, SioTypeOK,
     Queueless, chan, defer, tty, msr, uart, counts, blame
<1>7. BurstFits'
  BY SioNumbers DEF SioInv, BurstFits, ChipReceive, Depth, SioTypeOK, Queueless, chan,
     defer, tty, msr, uart, counts, blame
<1>8. JobsHaveAQueue'
  BY SioNumbers DEF SioInv, JobsHaveAQueue, ChipReceive, Depth, SioTypeOK, Queueless,
     chan, defer, tty, msr, uart, counts, blame
<1> QED
  BY <1>1, <1>2, <1>3, <1>4, <1>5, <1>6, <1>7, <1>8 DEF SioInv

(* A change of CTS sets DCTS. *)
LEMMA CtsChangesOK == ASSUME SioInv, CtsChanges PROVE SioInv'
<1>1. SioTypeOK'
  BY SioNumbers DEF SioInv, SioTypeOK, Bits, CtsChanges, chan, defer, tty, msr, uart,
     counts, blame
<1>2. Queueless'
  BY SioNumbers DEF SioInv, Queueless, CtsChanges, SioTypeOK, chan, defer, tty, msr,
     uart, counts, blame
<1>3. Deferred'
  BY SioNumbers DEF SioInv, Deferred, CtsChanges, SioTypeOK, Queueless, chan, defer,
     tty, msr, uart, counts, blame
<1>4. ReceiveDeferred'
  BY SioNumbers DEF SioInv, ReceiveDeferred, RdPending, CtsChanges, SioTypeOK,
     Queueless, chan, defer, tty, msr, uart, counts, blame
<1>5. Copied'
  BY SioNumbers DEF SioInv, Copied, Clocal, CtsChanges, SioTypeOK, Queueless, chan,
     defer, tty, msr, uart, counts, blame
<1>6. Sender'
  BY SioNumbers DEF SioInv, Sender, WrPending, Clocal, CtsChanges, SioTypeOK,
     Queueless, chan, defer, tty, msr, uart, counts, blame
<1>7. BurstFits'
  BY SioNumbers DEF SioInv, BurstFits, CtsChanges, SioTypeOK, Queueless, chan, defer,
     tty, msr, uart, counts, blame
<1>8. JobsHaveAQueue'
  BY SioNumbers DEF SioInv, JobsHaveAQueue, CtsChanges, SioTypeOK, Queueless, chan,
     defer, tty, msr, uart, counts, blame
<1> QED
  BY <1>1, <1>2, <1>3, <1>4, <1>5, <1>6, <1>7, <1>8 DEF SioInv

(* From here on the job itself stands for the transmitter, or the interrupt it enabled. *)
LEMMA Wr2BeginOK == ASSUME SioInv, Wr2Begin PROVE SioInv'
<1>1. SioTypeOK'
  <2>1. SioFlags'
    <3>1. /\ UNCHANGED << mcrOn, queueId, busy, starting, fifoOn, cts, dcts >>
          /\ UNCHANGED << reenabled, printed, overrun, stirred >>
      BY DEF Wr2Begin, tty, msr
    <3>2. (muted' = muted \/ muted' = FALSE) /\ txDefer' = FALSE
      BY DEF Wr2Begin, Wr2Ready, Wr2Wait
    <3>3. SioFlags /\ IsFlag(FALSE)
      BY SioTyped DEF SioInv, IsFlag
    <3> QED
      BY <3>1, <3>2, <3>3, Zenon DEF SioFlags
  <2>2. SioSets'
    BY SioTyped DEF SioInv, SioSets, SioTypeOK, Bits, Wr2Ready, Wr2Wait, Wr2Begin,
       THRE, chan, defer, tty, msr, uart, counts, blame
  <2>3. SioCounts'
    BY SioNumbers, SioTyped DEF SioInv, SioCounts, BurstFits, Wr2Ready, Wr2Wait,
       Wr2Begin, THRE, chan, defer, tty, msr, uart, counts, blame
  <2> QED
    BY <2>1, <2>2, <2>3, SioTyped
<1>2. Queueless'
  BY SioNumbers DEF SioInv, Queueless, Wr2Ready, Wr2Wait, Wr2Begin, THRE, SioTypeOK,
     chan, defer, tty, msr, uart, counts, blame
<1>3. Deferred'
  BY SioNumbers DEF SioInv, Deferred, Wr2Ready, Wr2Wait, Wr2Begin, THRE, SioTypeOK,
     Queueless, chan, defer, tty, msr, uart, counts, blame
<1>4. ReceiveDeferred'
  BY SioNumbers DEF SioInv, ReceiveDeferred, RdPending, Wr2Ready, Wr2Wait, Wr2Begin,
     THRE, SioTypeOK, Queueless, chan, defer, tty, msr, uart, counts, blame
<1>5. Copied'
  BY SioNumbers DEF SioInv, Copied, Clocal, Wr2Ready, Wr2Wait, Wr2Begin, THRE,
     SioTypeOK, Queueless, chan, defer, tty, msr, uart, counts, blame
<1>6. Sender'
  BY SioNumbers DEF SioInv, Sender, WrPending, Clocal, Wr2Ready, Wr2Wait, Wr2Begin,
     THRE, SioTypeOK, Queueless, chan, defer, tty, msr, uart, counts, blame
<1>7. BurstFits'
  BY SioNumbers DEF SioInv, BurstFits, Wr2Ready, Wr2Wait, Wr2Begin, THRE, SioTypeOK,
     Queueless, chan, defer, tty, msr, uart, counts, blame
<1>8. JobsHaveAQueue'
  BY SioNumbers DEF SioInv, JobsHaveAQueue, Wr2Ready, Wr2Wait, Wr2Begin, THRE,
     SioTypeOK, Queueless, chan, defer, tty, msr, uart, counts, blame
<1> QED
  BY <1>1, <1>2, <1>3, <1>4, <1>5, <1>6, <1>7, <1>8 DEF SioInv

(* A burst more, or the interrupt. *)
LEMMA Wr2AgainOK == ASSUME SioInv, Wr2Again PROVE SioInv'
<1>1. SioTypeOK'
  <2>1. SioFlags'
    <3>1. /\ UNCHANGED << mcrOn, queueId, txDefer, busy, starting, fifoOn, cts, dcts >>
          /\ UNCHANGED << reenabled, printed, overrun, stirred >>
      BY DEF Wr2Again, tty, msr
    <3>2. (muted' = muted \/ muted' = FALSE)
      BY DEF Wr2Again, Wr2Ready, Wr2Wait
    <3>3. SioFlags /\ IsFlag(FALSE)
      BY SioTyped DEF SioInv, IsFlag
    <3> QED
      BY <3>1, <3>2, <3>3, Zenon DEF SioFlags
  <2>2. SioSets'
    BY SioTyped DEF SioInv, SioSets, SioTypeOK, Bits, Wr2Ready, Wr2Wait, Wr2Again,
       THRE, chan, defer, tty, msr, uart, counts, blame
  <2>3. SioCounts'
    BY SioNumbers, SioTyped DEF SioInv, SioCounts, BurstFits, Wr2Ready, Wr2Wait,
       Wr2Again, THRE, chan, defer, tty, msr, uart, counts, blame
  <2> QED
    BY <2>1, <2>2, <2>3, SioTyped
<1>2. Queueless'
  BY SioNumbers DEF SioInv, Queueless, Wr2Ready, Wr2Wait, Wr2Again, THRE, SioTypeOK,
     chan, defer, tty, msr, uart, counts, blame
<1>3. Deferred'
  BY SioNumbers DEF SioInv, Deferred, Wr2Ready, Wr2Wait, Wr2Again, THRE, SioTypeOK,
     Queueless, chan, defer, tty, msr, uart, counts, blame
<1>4. ReceiveDeferred'
  BY SioNumbers DEF SioInv, ReceiveDeferred, RdPending, Wr2Ready, Wr2Wait, Wr2Again,
     THRE, SioTypeOK, Queueless, chan, defer, tty, msr, uart, counts, blame
<1>5. Copied'
  BY SioNumbers DEF SioInv, Copied, Clocal, Wr2Ready, Wr2Wait, Wr2Again, THRE,
     SioTypeOK, Queueless, chan, defer, tty, msr, uart, counts, blame
<1>6. Sender'
  BY SioNumbers DEF SioInv, Sender, WrPending, Clocal, Wr2Ready, Wr2Wait, Wr2Again,
     THRE, SioTypeOK, Queueless, chan, defer, tty, msr, uart, counts, blame
<1>7. BurstFits'
  BY SioNumbers DEF SioInv, BurstFits, Wr2Ready, Wr2Wait, Wr2Again, THRE, SioTypeOK,
     Queueless, chan, defer, tty, msr, uart, counts, blame
<1>8. JobsHaveAQueue'
  BY SioNumbers DEF SioInv, JobsHaveAQueue, Wr2Ready, Wr2Wait, Wr2Again, THRE,
     SioTypeOK, Queueless, chan, defer, tty, msr, uart, counts, blame
<1> QED
  BY <1>1, <1>2, <1>3, <1>4, <1>5, <1>6, <1>7, <1>8 DEF SioInv

(* One character less to write and one more in the FIFO. *)
LEMMA Wr2CharOK == ASSUME SioInv, Wr2Char PROVE SioInv'
<1>1. SioTypeOK'
  <2>1. SioFlags'
    BY SioTyped, Zenon DEF SioInv, SioFlags, IsFlag, WriteTHR, Wr2Char, Depth, chan,
       defer, tty, msr, uart, counts, blame
  <2>2. SioSets'
    BY SioTyped DEF SioInv, SioSets, SioTypeOK, Bits, WriteTHR, Wr2Char, Depth, chan,
       defer, tty, msr, uart, counts, blame
  <2>3. SioCounts'
    BY SioNumbers, SioTyped DEF SioInv, SioCounts, BurstFits, WriteTHR, Wr2Char, Depth,
       chan, defer, tty, msr, uart, counts, blame
  <2> QED
    BY <2>1, <2>2, <2>3, SioTyped
<1>2. Queueless'
  BY SioNumbers DEF SioInv, Queueless, WriteTHR, Wr2Char, Depth, SioTypeOK, chan,
     defer, tty, msr, uart, counts, blame
<1>3. Deferred'
  BY SioNumbers DEF SioInv, Deferred, WriteTHR, Wr2Char, Depth, SioTypeOK, Queueless,
     chan, defer, tty, msr, uart, counts, blame
<1>4. ReceiveDeferred'
  BY SioNumbers DEF SioInv, ReceiveDeferred, RdPending, WriteTHR, Wr2Char, Depth,
     SioTypeOK, Queueless, chan, defer, tty, msr, uart, counts, blame
<1>5. Copied'
  BY SioNumbers DEF SioInv, Copied, Clocal, WriteTHR, Wr2Char, Depth, SioTypeOK,
     Queueless, chan, defer, tty, msr, uart, counts, blame
<1>6. Sender'
  BY SioNumbers DEF SioInv, Sender, WrPending, Clocal, WriteTHR, Wr2Char, Depth,
     SioTypeOK, Queueless, chan, defer, tty, msr, uart, counts, blame
<1>7. BurstFits'
  BY SioNumbers DEF SioInv, BurstFits, WriteTHR, Wr2Char, Depth, SioTypeOK, Queueless,
     chan, defer, tty, msr, uart, counts, blame
<1>8. JobsHaveAQueue'
  BY SioNumbers DEF SioInv, JobsHaveAQueue, WriteTHR, Wr2Char, Depth, SioTypeOK,
     Queueless, chan, defer, tty, msr, uart, counts, blame
<1> QED
  BY <1>1, <1>2, <1>3, <1>4, <1>5, <1>6, <1>7, <1>8 DEF SioInv

(* Nothing is left to send. *)
LEMMA Wr2EmptyOK == ASSUME SioInv, Wr2Empty PROVE SioInv'
<1>1. SioTypeOK'
  <2>1. SioFlags'
    BY SioTyped, Zenon DEF SioInv, SioFlags, IsFlag, Wr2Empty, chan, defer, tty, msr,
       uart, counts, blame
  <2>2. SioSets'
    BY SioTyped DEF SioInv, SioSets, SioTypeOK, Bits, Wr2Empty, chan, defer, tty, msr,
       uart, counts, blame
  <2>3. SioCounts'
    BY SioNumbers, SioTyped DEF SioInv, SioCounts, BurstFits, Wr2Empty, chan, defer,
       tty, msr, uart, counts, blame
  <2> QED
    BY <2>1, <2>2, <2>3, SioTyped
<1>2. Queueless'
  BY SioNumbers DEF SioInv, Queueless, Wr2Empty, SioTypeOK, chan, defer, tty, msr,
     uart, counts, blame
<1>3. Deferred'
  BY SioNumbers DEF SioInv, Deferred, Wr2Empty, SioTypeOK, Queueless, chan, defer, tty,
     msr, uart, counts, blame
<1>4. ReceiveDeferred'
  BY SioNumbers DEF SioInv, ReceiveDeferred, RdPending, Wr2Empty, SioTypeOK, Queueless,
     chan, defer, tty, msr, uart, counts, blame
<1>5. Copied'
  BY SioNumbers DEF SioInv, Copied, Clocal, Wr2Empty, SioTypeOK, Queueless, chan,
     defer, tty, msr, uart, counts, blame
<1>6. Sender'
  BY SioNumbers DEF SioInv, Sender, WrPending, Clocal, Wr2Empty, SioTypeOK, Queueless,
     chan, defer, tty, msr, uart, counts, blame
<1>7. BurstFits'
  BY SioNumbers DEF SioInv, BurstFits, Wr2Empty, SioTypeOK, Queueless, chan, defer,
     tty, msr, uart, counts, blame
<1>8. JobsHaveAQueue'
  BY SioNumbers DEF SioInv, JobsHaveAQueue, Wr2Empty, SioTypeOK, Queueless, chan,
     defer, tty, msr, uart, counts, blame
<1> QED
  BY <1>1, <1>2, <1>3, <1>4, <1>5, <1>6, <1>7, <1>8 DEF SioInv

(* The job reads on. *)
LEMMA Rd2CharOK == ASSUME SioInv, Rd2Char PROVE SioInv'
<1>1. SioTypeOK'
  BY SioNumbers DEF SioInv, SioTypeOK, Bits, Rd2Char, chan, defer, tty, msr, uart,
     counts, blame
<1>2. Queueless'
  BY SioNumbers DEF SioInv, Queueless, Rd2Char, SioTypeOK, chan, defer, tty, msr, uart,
     counts, blame
<1>3. Deferred'
  BY SioNumbers DEF SioInv, Deferred, Rd2Char, SioTypeOK, Queueless, chan, defer, tty,
     msr, uart, counts, blame
<1>4. ReceiveDeferred'
  BY SioNumbers DEF SioInv, ReceiveDeferred, RdPending, Rd2Char, SioTypeOK, Queueless,
     chan, defer, tty, msr, uart, counts, blame
<1>5. Copied'
  BY SioNumbers DEF SioInv, Copied, Clocal, Rd2Char, SioTypeOK, Queueless, chan, defer,
     tty, msr, uart, counts, blame
<1>6. Sender'
  BY SioNumbers DEF SioInv, Sender, WrPending, Clocal, Rd2Char, SioTypeOK, Queueless,
     chan, defer, tty, msr, uart, counts, blame
<1>7. BurstFits'
  BY SioNumbers DEF SioInv, BurstFits, Rd2Char, SioTypeOK, Queueless, chan, defer, tty,
     msr, uart, counts, blame
<1>8. JobsHaveAQueue'
  BY SioNumbers DEF SioInv, JobsHaveAQueue, Rd2Char, SioTypeOK, Queueless, chan, defer,
     tty, msr, uart, counts, blame
<1> QED
  BY <1>1, <1>2, <1>3, <1>4, <1>5, <1>6, <1>7, <1>8 DEF SioInv

(* The job ends and enables its interrupt. *)
LEMMA Rd2EndOK == ASSUME SioInv, Rd2End PROVE SioInv'
<1>1. SioTypeOK'
  BY SioNumbers DEF SioInv, SioTypeOK, Bits, Rd2End, chan, defer, tty, msr, uart,
     counts, blame
<1>2. Queueless'
  BY SioNumbers DEF SioInv, Queueless, Rd2End, SioTypeOK, chan, defer, tty, msr, uart,
     counts, blame
<1>3. Deferred'
  BY SioNumbers DEF SioInv, Deferred, Rd2End, SioTypeOK, Queueless, chan, defer, tty,
     msr, uart, counts, blame
<1>4. ReceiveDeferred'
  BY SioNumbers DEF SioInv, ReceiveDeferred, RdPending, Rd2End, SioTypeOK, Queueless,
     chan, defer, tty, msr, uart, counts, blame
<1>5. Copied'
  BY SioNumbers DEF SioInv, Copied, Clocal, Rd2End, SioTypeOK, Queueless, chan, defer,
     tty, msr, uart, counts, blame
<1>6. Sender'
  BY SioNumbers DEF SioInv, Sender, WrPending, Clocal, Rd2End, SioTypeOK, Queueless,
     chan, defer, tty, msr, uart, counts, blame
<1>7. BurstFits'
  BY SioNumbers DEF SioInv, BurstFits, Rd2End, SioTypeOK, Queueless, chan, defer, tty,
     msr, uart, counts, blame
<1>8. JobsHaveAQueue'
  BY SioNumbers DEF SioInv, JobsHaveAQueue, Rd2End, SioTypeOK, Queueless, chan, defer,
     tty, msr, uart, counts, blame
<1> QED
  BY <1>1, <1>2, <1>3, <1>4, <1>5, <1>6, <1>7, <1>8 DEF SioInv

(* A callback moves nothing. *)
LEMMA CallbackInstallOK == ASSUME SioInv, NEW type \in {"tx", "rx"}, CallbackInstall(type) PROVE SioInv'
<1>1. SioTypeOK'
  BY SioNumbers DEF SioInv, SioTypeOK, Bits, CallbackInstall, chan, defer, tty, msr,
     uart, counts, blame
<1>2. Queueless'
  BY SioNumbers DEF SioInv, Queueless, CallbackInstall, SioTypeOK, chan, defer, tty,
     msr, uart, counts, blame
<1>3. Deferred'
  BY SioNumbers DEF SioInv, Deferred, CallbackInstall, SioTypeOK, Queueless, chan,
     defer, tty, msr, uart, counts, blame
<1>4. ReceiveDeferred'
  BY SioNumbers DEF SioInv, ReceiveDeferred, RdPending, CallbackInstall, SioTypeOK,
     Queueless, chan, defer, tty, msr, uart, counts, blame
<1>5. Copied'
  BY SioNumbers DEF SioInv, Copied, Clocal, CallbackInstall, SioTypeOK, Queueless,
     chan, defer, tty, msr, uart, counts, blame
<1>6. Sender'
  BY SioNumbers DEF SioInv, Sender, WrPending, Clocal, CallbackInstall, SioTypeOK,
     Queueless, chan, defer, tty, msr, uart, counts, blame
<1>7. BurstFits'
  BY SioNumbers DEF SioInv, BurstFits, CallbackInstall, SioTypeOK, Queueless, chan,
     defer, tty, msr, uart, counts, blame
<1>8. JobsHaveAQueue'
  BY SioNumbers DEF SioInv, JobsHaveAQueue, CallbackInstall, SioTypeOK, Queueless,
     chan, defer, tty, msr, uart, counts, blame
<1> QED
  BY <1>1, <1>2, <1>3, <1>4, <1>5, <1>6, <1>7, <1>8 DEF SioInv

(* write() starts the transmitter that is not busy. *)
LEMMA TtyWriteOK == ASSUME SioInv, TtyWrite PROVE SioInv'
<1>1. SioTypeOK'
  BY SioNumbers DEF SioInv, SioTypeOK, Bits, TtyWrite, chan, defer, tty, msr, uart,
     counts, blame
<1>2. Queueless'
  BY SioNumbers DEF SioInv, Queueless, TtyWrite, SioTypeOK, chan, defer, tty, msr,
     uart, counts, blame
<1>3. Deferred'
  BY SioNumbers DEF SioInv, Deferred, TtyWrite, SioTypeOK, Queueless, chan, defer, tty,
     msr, uart, counts, blame
<1>4. ReceiveDeferred'
  BY SioNumbers DEF SioInv, ReceiveDeferred, RdPending, TtyWrite, SioTypeOK, Queueless,
     chan, defer, tty, msr, uart, counts, blame
<1>5. Copied'
  BY SioNumbers DEF SioInv, Copied, Clocal, TtyWrite, SioTypeOK, Queueless, chan,
     defer, tty, msr, uart, counts, blame
<1>6. Sender'
  BY SioNumbers DEF SioInv, Sender, WrPending, Clocal, TtyWrite, SioTypeOK, Queueless,
     chan, defer, tty, msr, uart, counts, blame
<1>7. BurstFits'
  BY SioNumbers DEF SioInv, BurstFits, TtyWrite, SioTypeOK, Queueless, chan, defer,
     tty, msr, uart, counts, blame
<1>8. JobsHaveAQueue'
  BY SioNumbers DEF SioInv, JobsHaveAQueue, TtyWrite, SioTypeOK, Queueless, chan,
     defer, tty, msr, uart, counts, blame
<1> QED
  BY <1>1, <1>2, <1>3, <1>4, <1>5, <1>6, <1>7, <1>8 DEF SioInv

(* The start enables the interrupt, leaves it to the job that waits, or to CTS. *)
LEMMA TxStartupOK == ASSUME SioInv, TxStartup PROVE SioInv'
<1>1. SioTypeOK'
  BY SioNumbers DEF SioInv, SioTypeOK, Bits, TxEnable, TxStartup, chan, defer, tty,
     msr, uart, counts, blame
<1>2. Queueless'
  BY SioNumbers DEF SioInv, Queueless, TxEnable, TxStartup, SioTypeOK, chan, defer,
     tty, msr, uart, counts, blame
<1>3. Deferred'
  BY SioNumbers DEF SioInv, Deferred, TxEnable, TxStartup, SioTypeOK, Queueless, chan,
     defer, tty, msr, uart, counts, blame
<1>4. ReceiveDeferred'
  BY SioNumbers DEF SioInv, ReceiveDeferred, RdPending, TxEnable, TxStartup, SioTypeOK,
     Queueless, chan, defer, tty, msr, uart, counts, blame
<1>5. Copied'
  BY SioNumbers DEF SioInv, Copied, Clocal, TxEnable, TxStartup, SioTypeOK, Queueless,
     chan, defer, tty, msr, uart, counts, blame
<1>6. Sender'
  BY SioNumbers DEF SioInv, Sender, WrPending, Clocal, Deferred, TxEnable, TxStartup,
     SioTypeOK, Queueless, chan, defer, tty, msr, uart, counts, blame
<1>7. BurstFits'
  BY SioNumbers DEF SioInv, BurstFits, TxEnable, TxStartup, SioTypeOK, Queueless, chan,
     defer, tty, msr, uart, counts, blame
<1>8. JobsHaveAQueue'
  BY SioNumbers DEF SioInv, JobsHaveAQueue, TxEnable, TxStartup, SioTypeOK, Queueless,
     chan, defer, tty, msr, uart, counts, blame
<1> QED
  BY <1>1, <1>2, <1>3, <1>4, <1>5, <1>6, <1>7, <1>8 DEF SioInv

(* New options: what they mute or enable is on record. *)
LEMMA OptsSetOK == ASSUME SioInv, NEW opts \in Options, OptsSet(opts) PROVE SioInv'
<1>1. SioTypeOK'
  BY SioNumbers DEF SioInv, SioTypeOK, Bits, Call, OptsSet, chan, defer, tty, msr,
     uart, counts, blame
<1>2. Queueless'
  BY SioNumbers DEF SioInv, Queueless, Call, OptsSet, SioTypeOK, chan, defer, tty, msr,
     uart, counts, blame
<1>3. Deferred'
  BY SioNumbers DEF SioInv, Deferred, Call, OptsSet, SioTypeOK, Queueless, chan, defer,
     tty, msr, uart, counts, blame
<1>4. ReceiveDeferred'
  BY SioNumbers DEF SioInv, ReceiveDeferred, RdPending, Call, OptsSet, SioTypeOK,
     Queueless, chan, defer, tty, msr, uart, counts, blame
<1>5. Copied'
  BY SioNumbers DEF SioInv, Copied, Clocal, Call, OptsSet, SioTypeOK, Queueless, chan,
     defer, tty, msr, uart, counts, blame
<1>6. Sender'
  BY SioNumbers DEF SioInv, Sender, WrPending, Clocal, Call, OptsSet, SioTypeOK,
     Queueless, chan, defer, tty, msr, uart, counts, blame
<1>7. BurstFits'
  BY SioNumbers DEF SioInv, BurstFits, Call, OptsSet, SioTypeOK, Queueless, chan,
     defer, tty, msr, uart, counts, blame
<1>8. JobsHaveAQueue'
  BY SioNumbers DEF SioInv, JobsHaveAQueue, Call, OptsSet, SioTypeOK, Queueless, chan,
     defer, tty, msr, uart, counts, blame
<1> QED
  BY <1>1, <1>2, <1>3, <1>4, <1>5, <1>6, <1>7, <1>8 DEF SioInv

(* Interrupt mode: the register has at least what the copy has. *)
LEMMA ModeSetIntOK == ASSUME SioInv, ModeSetInt PROVE SioInv'
<1>1. SioTypeOK'
  <2>1. SioFlags'
    BY SioTyped, Zenon DEF SioInv, SioFlags, IsFlag, Call, ModeSetInt, chan, defer,
       tty, msr, uart, counts, blame
  <2>2. SioSets'
    BY SioTyped DEF SioInv, SioSets, SioTypeOK, Bits, Call, ModeSetInt, chan, defer,
       tty, msr, uart, counts, blame
  <2>3. SioCounts'
    BY SioNumbers, SioTyped DEF SioInv, SioCounts, BurstFits, Call, ModeSetInt, chan,
       defer, tty, msr, uart, counts, blame
  <2> QED
    BY <2>1, <2>2, <2>3, SioTyped
<1>2. Queueless'
  BY SioNumbers DEF SioInv, Queueless, Call, ModeSetInt, SioTypeOK, chan, defer, tty,
     msr, uart, counts, blame
<1>3. Deferred'
  BY SioNumbers DEF SioInv, Deferred, Call, ModeSetInt, SioTypeOK, Queueless, chan,
     defer, tty, msr, uart, counts, blame
<1>4. ReceiveDeferred'
  BY SioNumbers DEF SioInv, ReceiveDeferred, RdPending, Call, ModeSetInt, SioTypeOK,
     Queueless, chan, defer, tty, msr, uart, counts, blame
<1>5. Copied'
  BY SioNumbers DEF SioInv, Copied, Clocal, Call, ModeSetInt, SioTypeOK, Queueless,
     chan, defer, tty, msr, uart, counts, blame
<1>6. Sender'
  BY SioNumbers DEF SioInv, Sender, WrPending, Clocal, Call, ModeSetInt, SioTypeOK,
     Queueless, chan, defer, tty, msr, uart, counts, blame
<1>7. BurstFits'
  BY SioNumbers DEF SioInv, BurstFits, Call, ModeSetInt, SioTypeOK, Queueless, chan,
     defer, tty, msr, uart, counts, blame
<1>8. JobsHaveAQueue'
  BY SioNumbers DEF SioInv, JobsHaveAQueue, Call, ModeSetInt, SioTypeOK, Queueless,
     chan, defer, tty, msr, uart, counts, blame
<1> QED
  BY <1>1, <1>2, <1>3, <1>4, <1>5, <1>6, <1>7, <1>8 DEF SioInv

(* Polled mode disables the register and not the copy. *)
LEMMA ModeSetPollOK == ASSUME SioInv, ModeSetPoll PROVE SioInv'
<1>1. SioTypeOK'
  BY SioNumbers DEF SioInv, SioTypeOK, Bits, Call, ModeSetPoll, chan, defer, tty, msr,
     uart, counts, blame
<1>2. Queueless'
  BY SioNumbers DEF SioInv, Queueless, Call, ModeSetPoll, SioTypeOK, chan, defer, tty,
     msr, uart, counts, blame
<1>3. Deferred'
  BY SioNumbers DEF SioInv, Deferred, Call, ModeSetPoll, SioTypeOK, Queueless, chan,
     defer, tty, msr, uart, counts, blame
<1>4. ReceiveDeferred'
  BY SioNumbers DEF SioInv, ReceiveDeferred, RdPending, Call, ModeSetPoll, SioTypeOK,
     Queueless, chan, defer, tty, msr, uart, counts, blame
<1>5. Copied'
  BY SioNumbers DEF SioInv, Copied, Clocal, Call, ModeSetPoll, SioTypeOK, Queueless,
     chan, defer, tty, msr, uart, counts, blame
<1>6. Sender'
  BY SioNumbers DEF SioInv, Sender, WrPending, Clocal, Call, ModeSetPoll, SioTypeOK,
     Queueless, chan, defer, tty, msr, uart, counts, blame
<1>7. BurstFits'
  BY SioNumbers DEF SioInv, BurstFits, Call, ModeSetPoll, SioTypeOK, Queueless, chan,
     defer, tty, msr, uart, counts, blame
<1>8. JobsHaveAQueue'
  BY SioNumbers DEF SioInv, JobsHaveAQueue, Call, ModeSetPoll, SioTypeOK, Queueless,
     chan, defer, tty, msr, uart, counts, blame
<1> QED
  BY <1>1, <1>2, <1>3, <1>4, <1>5, <1>6, <1>7, <1>8 DEF SioInv

(* Both FIFOs are empty. *)
LEMMA ClearFifosOK == ASSUME SioInv, NEW on \in BOOLEAN, ClearFifos(on) PROVE SioInv'
<1>1. SioTypeOK'
  BY SioNumbers DEF SioInv, SioTypeOK, Bits, Call, ClearFifos, chan, defer, tty, msr,
     uart, counts, blame
<1>2. Queueless'
  BY SioNumbers DEF SioInv, Queueless, Call, ClearFifos, SioTypeOK, chan, defer, tty,
     msr, uart, counts, blame
<1>3. Deferred'
  BY SioNumbers DEF SioInv, Deferred, Call, ClearFifos, SioTypeOK, Queueless, chan,
     defer, tty, msr, uart, counts, blame
<1>4. ReceiveDeferred'
  BY SioNumbers DEF SioInv, ReceiveDeferred, RdPending, Call, ClearFifos, SioTypeOK,
     Queueless, chan, defer, tty, msr, uart, counts, blame
<1>5. Copied'
  BY SioNumbers DEF SioInv, Copied, Clocal, Call, ClearFifos, SioTypeOK, Queueless,
     chan, defer, tty, msr, uart, counts, blame
<1>6. Sender'
  BY SioNumbers DEF SioInv, Sender, WrPending, Clocal, Call, ClearFifos, SioTypeOK,
     Queueless, chan, defer, tty, msr, uart, counts, blame
<1>7. BurstFits'
  BY SioNumbers DEF SioInv, BurstFits, Call, ClearFifos, SioTypeOK, Queueless, chan,
     defer, tty, msr, uart, counts, blame
<1>8. JobsHaveAQueue'
  BY SioNumbers DEF SioInv, JobsHaveAQueue, Call, ClearFifos, SioTypeOK, Queueless,
     chan, defer, tty, msr, uart, counts, blame
<1> QED
  BY <1>1, <1>2, <1>3, <1>4, <1>5, <1>6, <1>7, <1>8 DEF SioInv

(* A printed character finds the FIFO empty. *)
LEMMA PollOutputOK == ASSUME SioInv, PollOutput PROVE SioInv'
<1>1. SioTypeOK'
  <2>1. SioFlags'
    BY SioTyped, Zenon DEF SioInv, SioFlags, IsFlag, WriteTHR, THRE, PollOutput, Depth,
       chan, defer, tty, msr, uart, counts, blame
  <2>2. SioSets'
    BY SioTyped DEF SioInv, SioSets, SioTypeOK, Bits, WriteTHR, THRE, PollOutput,
       Depth, chan, defer, tty, msr, uart, counts, blame
  <2>3. SioCounts'
    BY SioNumbers, SioTyped DEF SioInv, SioCounts, BurstFits, WriteTHR, THRE,
       PollOutput, Depth, chan, defer, tty, msr, uart, counts, blame
  <2> QED
    BY <2>1, <2>2, <2>3, SioTyped
<1>2. Queueless'
  BY SioNumbers DEF SioInv, Queueless, WriteTHR, THRE, PollOutput, Depth, SioTypeOK,
     chan, defer, tty, msr, uart, counts, blame
<1>3. Deferred'
  BY SioNumbers DEF SioInv, Deferred, WriteTHR, THRE, PollOutput, Depth, SioTypeOK,
     Queueless, chan, defer, tty, msr, uart, counts, blame
<1>4. ReceiveDeferred'
  BY SioNumbers DEF SioInv, ReceiveDeferred, RdPending, WriteTHR, THRE, PollOutput,
     Depth, SioTypeOK, Queueless, chan, defer, tty, msr, uart, counts, blame
<1>5. Copied'
  BY SioNumbers DEF SioInv, Copied, Clocal, WriteTHR, THRE, PollOutput, Depth,
     SioTypeOK, Queueless, chan, defer, tty, msr, uart, counts, blame
<1>6. Sender'
  BY SioNumbers DEF SioInv, Sender, WrPending, Clocal, WriteTHR, THRE, PollOutput,
     Depth, SioTypeOK, Queueless, chan, defer, tty, msr, uart, counts, blame
<1>7. BurstFits'
  BY SioNumbers DEF SioInv, BurstFits, WriteTHR, THRE, PollOutput, Depth, SioTypeOK,
     Queueless, chan, defer, tty, msr, uart, counts, blame
<1>8. JobsHaveAQueue'
  BY SioNumbers DEF SioInv, JobsHaveAQueue, WriteTHR, THRE, PollOutput, Depth,
     SioTypeOK, Queueless, chan, defer, tty, msr, uart, counts, blame
<1> QED
  BY <1>1, <1>2, <1>3, <1>4, <1>5, <1>6, <1>7, <1>8 DEF SioInv

(* A polled character. *)
LEMMA PollInputOK == ASSUME SioInv, PollInput PROVE SioInv'
<1>1. SioTypeOK'
  BY SioNumbers DEF SioInv, SioTypeOK, Bits, PollInput, chan, defer, tty, msr, uart,
     counts, blame
<1>2. Queueless'
  BY SioNumbers DEF SioInv, Queueless, PollInput, SioTypeOK, chan, defer, tty, msr,
     uart, counts, blame
<1>3. Deferred'
  BY SioNumbers DEF SioInv, Deferred, PollInput, SioTypeOK, Queueless, chan, defer,
     tty, msr, uart, counts, blame
<1>4. ReceiveDeferred'
  BY SioNumbers DEF SioInv, ReceiveDeferred, RdPending, PollInput, SioTypeOK,
     Queueless, chan, defer, tty, msr, uart, counts, blame
<1>5. Copied'
  BY SioNumbers DEF SioInv, Copied, Clocal, PollInput, SioTypeOK, Queueless, chan,
     defer, tty, msr, uart, counts, blame
<1>6. Sender'
  BY SioNumbers DEF SioInv, Sender, WrPending, Clocal, PollInput, SioTypeOK, Queueless,
     chan, defer, tty, msr, uart, counts, blame
<1>7. BurstFits'
  BY SioNumbers DEF SioInv, BurstFits, PollInput, SioTypeOK, Queueless, chan, defer,
     tty, msr, uart, counts, blame
<1>8. JobsHaveAQueue'
  BY SioNumbers DEF SioInv, JobsHaveAQueue, PollInput, SioTypeOK, Queueless, chan,
     defer, tty, msr, uart, counts, blame
<1> QED
  BY <1>1, <1>2, <1>3, <1>4, <1>5, <1>6, <1>7, <1>8 DEF SioInv

(* The deferral task takes the oldest job; txDefer still stands for it. *)
LEMMA JobStartOK == ASSUME SioInv, JobStart PROVE SioInv'
<1>1. /\ jobs' \in Seq({"wr", "rd"}) /\ job' \in {"wr", "rd"}
      /\ ToSet(jobs) = {job'} \cup ToSet(jobs')
      /\ \A y : Once(jobs, y) => Once(jobs', y) /\ (y = job' => y \notin ToSet(jobs'))
  BY Fetched DEF SioInv, SioTypeOK, JobStart
<1>2. /\ job = "none"
      /\ UNCHANGED << chan, burst, tty, uart, counts, blame >>
  BY DEF JobStart
<1>3. SioTypeOK'
  BY <1>1, <1>2 DEF SioInv, SioTypeOK, chan, tty, uart, msr, counts, blame
<1>4. Queueless'
  BY <1>1, <1>2 DEF SioInv, Queueless, JobStart, chan, uart, blame
<1>5. Deferred'
  BY <1>1, <1>2 DEF SioInv, Deferred, chan, blame
<1>6. ReceiveDeferred'
  BY <1>1, <1>2 DEF SioInv, ReceiveDeferred, RdPending, chan, blame, uart
<1>7. Copied'
  BY <1>2 DEF SioInv, Copied, Clocal, chan, uart
<1>8. Sender'
  BY <1>1, <1>2 DEF SioInv, Sender, WrPending, Clocal, chan, tty, uart, msr, blame
<1>9. BurstFits' /\ JobsHaveAQueue'
  BY <1>1, <1>2 DEF SioInv, BurstFits, JobsHaveAQueue, chan, uart, blame
<1> QED
  BY <1>3, <1>4, <1>5, <1>6, <1>7, <1>8, <1>9 DEF SioInv

(* A posted job is new, whichever it is. *)
LEMMA PostOK ==
  ASSUME SioInv, NEW j \in {"wr", "rd"}, Post(j)
  PROVE  /\ jobs' \in Seq({"wr", "rd"}) /\ lostJob' \in {"none", "other", "own"}
         /\ \/ /\ queueId /\ lostJob' = lostJob
               /\ ToSet(jobs') = ToSet(jobs) \cup {j}
               /\ \A y : Once(jobs, y) /\ (y = j => j \notin ToSet(jobs)) => Once(jobs', y)
            \/ /\ ~queueId /\ jobs' = jobs
               /\ lostJob' = IF stirred THEN "other" ELSE "own"
<1>1. jobs \in Seq({"wr", "rd"}) /\ lostJob \in {"none", "other", "own"}
  BY DEF SioInv, SioTypeOK
<1>2. CASE queueId
  <2>1. jobs' = Append(jobs, j) /\ lostJob' = lostJob
    BY <1>2 DEF Post
  <2>2. /\ Append(jobs, j) \in Seq({"wr", "rd"})
        /\ ToSet(Append(jobs, j)) = ToSet(jobs) \cup {j}
        /\ \A y : Once(jobs, y) /\ (y = j => j \notin ToSet(jobs)) => Once(Append(jobs, j), y)
    BY <1>1, Posted
  <2> QED
    BY <1>1, <1>2, <2>1, <2>2
<1>3. CASE ~queueId
  BY <1>1, <1>3 DEF Post
<1> QED
  BY <1>2, <1>3

(* What every run of the handler leaves alone, and the register it writes. *)
LEMMA IsrKeeps ==
  ASSUME SioInv, Isr
  PROVE  /\ IER' = ier'
         /\ muted' = (muted /\ "tx" \notin ier')
         /\ stirred' = (stirred \/ (~queueId /\ IIR = "none"))
         /\ UNCHANGED << channelMode, options, mcrOn, queueId, callbacks, job, burst, out, busy,
                         starting, fifoOn, txFifo, rxFifo, cts, turns, calls, reenabled,
                         printed, overrun >>
         /\ BurstFits'
         /\ IsFlag(muted') /\ IsFlag(stirred')
<1>1. /\ IER' = ier' /\ muted' = (muted /\ "tx" \notin ier')
      /\ stirred' = (stirred \/ (~queueId /\ IIR = "none"))
      /\ UNCHANGED << channelMode, options, mcrOn, queueId, callbacks, job, burst, out, busy,
                      starting, fifoOn, txFifo, rxFifo, cts, turns, calls, reenabled,
                      printed, overrun >>
  BY DEF Isr, tty, counts
<1>2. BurstFits'
  BY <1>1 DEF SioInv, BurstFits
<1>3. IsFlag(muted') /\ IsFlag(stirred')
  BY <1>1, SioTyped, Zenon DEF SioInv, SioFlags, IsFlag
<1> QED
  BY <1>1, <1>2, <1>3

(* Its type is right if what a cause may change is. *)
LEMMA IsrTyped ==
  ASSUME SioInv, Isr, IsFlag(txDefer'), IsFlag(dcts'), ier' \subseteq Bits,
         jobs' \in Seq({"wr", "rd"}), lostJob' \in {"none", "other", "own"}
  PROVE  SioTypeOK'
<1>1. SioFlags /\ SioSets /\ SioCounts
  BY SioTyped DEF SioInv
<1>2. SioFlags'
  BY <1>1, IsrKeeps, Zenon DEF SioFlags
<1>3. SioSets'
  BY <1>1, IsrKeeps DEF SioSets
<1>4. SioCounts'
  BY <1>1, IsrKeeps DEF SioCounts
<1> QED
  BY <1>2, <1>3, <1>4, SioTyped

(* Before there is a queue an interrupt is enabled only if the handler ran for
   another channel. *)
LEMMA CauseEnabled ==
  /\ IIR = "rda" => "rx" \in IER /\ rxFifo > 0
  /\ IIR = "thre" => "tx" \in IER /\ THRE
  /\ IIR = "mstat" => "ms" \in IER /\ dcts
BY DEF IIR

(* IIR_RDA: the interrupt goes off with the job that will enable it. *)
LEMMA IntRdaOK == ASSUME SioInv, Isr, IntRda PROVE SioInv'
<1>1. /\ "rx" \in IER /\ IIR = "rda"
      /\ ier' = ier \ {"rx"} /\ Post("rd") /\ txDefer' = txDefer /\ dcts' = dcts
  BY CauseEnabled DEF IntRda
<1>2. /\ jobs' \in Seq({"wr", "rd"}) /\ lostJob' \in {"none", "other", "own"}
      /\ \/ /\ queueId /\ lostJob' = lostJob
            /\ ToSet(jobs') = ToSet(jobs) \cup {"rd"}
            /\ \A y : Once(jobs, y) /\ (y = "rd" => "rd" \notin ToSet(jobs)) => Once(jobs', y)
         \/ /\ ~queueId /\ jobs' = jobs
            /\ lostJob' = IF stirred THEN "other" ELSE "own"
  BY <1>1, PostOK
<1>3. ~queueId => stirred
  BY <1>1 DEF SioInv, Queueless
<1>4. SioTypeOK'
  <2>1. IsFlag(txDefer) /\ IsFlag(dcts) /\ ier \subseteq Bits
    BY SioTyped DEF SioInv, SioFlags, SioSets
  <2> QED
    BY <1>1, <1>2, <2>1, IsrTyped
<1>5. Queueless'
  BY <1>1, <1>2, <1>3, IsrKeeps DEF SioInv, Queueless
<1>6. Deferred'
  BY <1>1, <1>2, IsrKeeps DEF SioInv, Deferred
<1>7. ReceiveDeferred'
  BY <1>1, <1>2, IsrKeeps DEF SioInv, ReceiveDeferred, RdPending
<1>8. Copied'
  BY <1>1, IsrKeeps DEF SioInv, Copied, Clocal
<1>9. Sender'
  BY <1>1, <1>2, IsrKeeps DEF SioInv, Sender, WrPending, Clocal
<1>10. JobsHaveAQueue'
  BY <1>2, <1>3 DEF SioInv, JobsHaveAQueue
<1> QED
  BY <1>4, <1>5, <1>6, <1>7, <1>8, <1>9, <1>10, IsrKeeps DEF SioInv

(* IIR_THRE: one job is posted, unless txDefer says that there is one. *)
LEMMA IntThreOK == ASSUME SioInv, Isr, IntThre PROVE SioInv'
<1>1. /\ "tx" \in IER /\ IIR = "thre" /\ ier' = ier \ {"tx"} /\ dcts' = dcts
      /\ \/ txDefer /\ UNCHANGED << txDefer, jobs, lostJob >>
         \/ ~txDefer /\ txDefer' = TRUE /\ Post("wr")
  BY CauseEnabled DEF IntThre
<1>2. /\ jobs' \in Seq({"wr", "rd"}) /\ lostJob' \in {"none", "other", "own"}
      /\ \/ txDefer /\ UNCHANGED << txDefer, jobs, lostJob >>
         \/ /\ ~txDefer /\ txDefer' = TRUE
            /\ \/ /\ queueId /\ lostJob' = lostJob
                  /\ ToSet(jobs') = ToSet(jobs) \cup {"wr"}
                  /\ \A y : Once(jobs, y) /\ (y = "wr" => "wr" \notin ToSet(jobs))
                              => Once(jobs', y)
               \/ /\ ~queueId /\ jobs' = jobs
                  /\ lostJob' = IF stirred THEN "other" ELSE "own"
  <2>1. CASE txDefer /\ UNCHANGED << txDefer, jobs, lostJob >>
    BY <2>1 DEF SioInv, SioTypeOK
  <2>2. CASE ~txDefer /\ txDefer' = TRUE /\ Post("wr")
    BY <2>2, PostOK
  <2> QED
    BY <1>1, <2>1, <2>2
<1>3. ~queueId => stirred
  BY <1>1 DEF SioInv, Queueless
<1>4. SioTypeOK'
  <2>1. IsFlag(txDefer) /\ IsFlag(dcts) /\ ier \subseteq Bits
    BY SioTyped DEF SioInv, SioFlags, SioSets
  <2>2. IsFlag(txDefer')
    BY <1>2, <2>1, Zenon DEF IsFlag
  <2> QED
    BY <1>1, <1>2, <2>1, <2>2, IsrTyped
<1>5. Queueless'
  BY <1>1, <1>2, <1>3, IsrKeeps DEF SioInv, Queueless
<1>6. Deferred'
  BY <1>1, <1>2, IsrKeeps DEF SioInv, Deferred
<1>7. ReceiveDeferred'
  BY <1>1, <1>2, IsrKeeps DEF SioInv, ReceiveDeferred, RdPending
<1>8. Copied'
  BY <1>1, IsrKeeps DEF SioInv, Copied, Clocal
<1>9. Sender'
  <2>1. lostJob' = "none" => "wr" \in ToSet(jobs') \/ job' = "wr"
    BY <1>2, IsrKeeps DEF SioInv, Deferred
  <2> QED
    BY <2>1 DEF Sender, WrPending
<1>10. JobsHaveAQueue'
  BY <1>2, <1>3 DEF SioInv, JobsHaveAQueue
<1> QED
  BY <1>4, <1>5, <1>6, <1>7, <1>8, <1>9, <1>10, IsrKeeps DEF SioInv

(* IIR_MSTAT: CTS decides whether the transmit interrupt is on. *)
LEMMA IntMstatOK == ASSUME SioInv, Isr, IntMstat PROVE SioInv'
<1>1. /\ "ms" \in IER /\ dcts' = FALSE
      /\ ier' = IF cts THEN ier \cup {"tx"} ELSE ier \ {"tx"}
      /\ UNCHANGED << txDefer, jobs, lostJob >>
  BY CauseEnabled DEF IntMstat
<1>2. ~queueId => stirred
  BY <1>1 DEF SioInv, Queueless
<1>3. SioTypeOK'
  <2>1. IsFlag(txDefer) /\ ier \subseteq Bits
    BY SioTyped DEF SioInv, SioFlags, SioSets
  <2>2. ier' \subseteq Bits
    BY <1>1, <2>1 DEF Bits
  <2>3. IsFlag(dcts') /\ IsFlag(txDefer')
    BY <1>1, <2>1 DEF IsFlag
  <2>4. jobs' \in Seq({"wr", "rd"}) /\ lostJob' \in {"none", "other", "own"}
    BY <1>1, SioTyped DEF SioInv, SioSets
  <2> QED
    BY <2>2, <2>3, <2>4, IsrTyped
<1>4. Queueless'
  BY <1>1, <1>2, IsrKeeps DEF SioInv, Queueless
<1>5. Deferred'
  BY <1>1, IsrKeeps DEF SioInv, Deferred
<1>6. ReceiveDeferred'
  BY <1>1, IsrKeeps DEF SioInv, ReceiveDeferred, RdPending
<1>7. Copied'
  BY <1>1, IsrKeeps DEF SioInv, Copied, Clocal
<1>8. Sender'
  <2>1. ~Clocal /\ Clocal' = Clocal
    BY <1>1, IsrKeeps DEF SioInv, Copied, Clocal
  <2> QED
    BY <1>1, <2>1, IsrKeeps DEF Sender
<1>9. JobsHaveAQueue'
  BY <1>1 DEF SioInv, JobsHaveAQueue
<1> QED
  BY <1>3, <1>4, <1>5, <1>6, <1>7, <1>8, <1>9, IsrKeeps DEF SioInv

(* Another channel's interrupt: the register is set to the copy. *)
LEMMA IntOtherOK == ASSUME SioInv, Isr, IntOther PROVE SioInv'
<1>1. /\ IIR = "none"
      /\ UNCHANGED << ier, txDefer, dcts, jobs, lostJob >>
  BY DEF IntOther
<1>2. SioTypeOK'
  <2>1. IsFlag(txDefer) /\ IsFlag(dcts) /\ ier \subseteq Bits /\ jobs \in Seq({"wr", "rd"})
        /\ lostJob \in {"none", "other", "own"}
    BY SioTyped DEF SioInv, SioFlags, SioSets
  <2> QED
    BY <1>1, <2>1, IsrTyped
<1>3. Queueless'
  <2>1. ~queueId => stirred'
    BY <1>1, IsrKeeps, Zenon
  <2>2. UNCHANGED << queueId, channelMode, job, jobs >>
    BY <1>1, IsrKeeps
  <2> QED
    BY <2>1, <2>2 DEF SioInv, Queueless
<1>4. Deferred'
  BY <1>1, IsrKeeps DEF SioInv, Deferred
<1>5. ReceiveDeferred'
  BY <1>1, IsrKeeps DEF SioInv, ReceiveDeferred, RdPending
<1>6. Copied'
  BY <1>1, IsrKeeps DEF SioInv, Copied, Clocal
<1>7. Sender'
  BY <1>1, IsrKeeps DEF SioInv, Sender, WrPending, Clocal
<1>8. JobsHaveAQueue'
  BY <1>1 DEF SioInv, JobsHaveAQueue
<1> QED
  BY <1>2, <1>3, <1>4, <1>5, <1>6, <1>7, <1>8, IsrKeeps DEF SioInv

(* Every step of the channel keeps the invariant. *)
LEMMA SioStepOK == ASSUME SioInv, [SioNext]_sioVars PROVE SioInv'
<1>1. CASE OnTheLine
  BY <1>1, ChipSendOK, ChipReceiveOK, CtsChangesOK DEF OnTheLine
<1>2. CASE Isr
  BY <1>2, IntRdaOK, IntThreOK, IntMstatOK, IntOtherOK DEF Isr
<1>3. CASE DeferTask
  BY <1>3, JobStartOK, Wr2BeginOK, Wr2AgainOK, Wr2CharOK, Wr2EmptyOK, Rd2CharOK, Rd2EndOK
     DEF DeferTask
<1>4. CASE Tty
  BY <1>4, CallbackInstallOK, TtyWriteOK, TxStartupOK DEF Tty
<1>5. CASE Ioctl
  BY <1>5, OptsSetOK, ModeSetIntOK, ModeSetPollOK, ClearFifosOK DEF Ioctl, Hup, Open
<1>6. CASE Polled
  BY <1>6, PollOutputOK, PollInputOK DEF Polled
<1>7. CASE UNCHANGED sioVars
  <2> USE <1>7 DEF sioVars, chan, defer, tty, uart, msr, counts, blame
  <2>1. SioTypeOK'
    BY DEF SioInv, SioTypeOK
  <2>2. Queueless' /\ Deferred' /\ ReceiveDeferred' /\ Copied'
    BY DEF SioInv, Queueless, Deferred, ReceiveDeferred, Copied, RdPending, Clocal
  <2>3. Sender' /\ BurstFits' /\ JobsHaveAQueue'
    BY DEF SioInv, Sender, BurstFits, JobsHaveAQueue, WrPending, Clocal
  <2> QED
    BY <2>1, <2>2, <2>3 DEF SioInv
<1> QED
  BY <1>1, <1>2, <1>3, <1>4, <1>5, <1>6, <1>7 DEF SioNext

(* The invariant says that work is pending. *)
LEMMA SioInvImplies == SioInv => WorkIsPending /\ NoOverrun
<1> SUFFICES ASSUME SioInv PROVE WorkIsPending /\ NoOverrun
  OBVIOUS
<1>1. TransmitterAlive
  BY DEF SioInv, Sender, Copied, TransmitterAlive
<1>2. ReceiverAlive
  BY DEF SioInv, ReceiveDeferred, Copied, ReceiverAlive
<1>3. OneJobEach
  <2> SUFFICES ASSUME NEW i \in DOMAIN jobs, NEW k \in DOMAIN jobs, jobs[i] = jobs[k],
                      jobs[i] = "rd" => ~reenabled
               PROVE  i = k
    BY DEF OneJobEach
  <2>1. jobs[i] \in {"wr", "rd"}
    BY ElementOfSeq, LenProperties DEF SioInv, SioTypeOK
  <2> QED
    BY <2>1 DEF SioInv, Deferred, ReceiveDeferred, Once
<1> QED
  BY <1>1, <1>2, <1>3 DEF SioInv, WorkIsPending, NoOverrun, BurstFits

(***************************************************************************)
(* The search for the channels at boot.                                    *)
(***************************************************************************)
Pci == PlbUnits + 1

Found == [no : Nat, dev : Devices, regIndex : Bars]

(* The chain of a device: the base addresses that were UARTs, newest first,
   those before the place where ns16550vxbInstInit is. *)
Chained ==
  /\ chains \in [Devices -> Seq(Found)]
  /\ \A d \in Devices : \A i \in 1 .. Len(chains[d]) :
       /\ chains[d][i].dev = d
       /\ IsUart(d, chains[d][i].regIndex)
       /\ d < dev \/ (d = dev /\ chains[d][i].regIndex < bar)
       /\ \A k \in 1 .. i - 1 : chains[d][i].regIndex < chains[d][k].regIndex

(* Numbers are connected once all devices have their channels. *)
Connecting ==
  /\ Attaching => asked = {} /\ connected = {} /\ ~booted
  /\ booted => asked = Numbers
  /\ \A n \in asked : Of(Min(Owners(n)), n) \in connected

NoPlbFailed == \A d \in failed : Kind(d) # "plb"

(* What was drawn before a channel: PLB devices have one each and are called
   after their unit, so the numbers of the PCI board begin behind theirs. *)
Numbered ==
  NoPlbFailed =>
    /\ dev <= PlbUnits => nextNo = IF bar = 0 THEN dev - 1 ELSE dev
    /\ dev > PlbUnits => nextNo >= PlbUnits
    /\ \A d \in Devices : \A i \in 1 .. Len(chains[d]) :
         IF d <= PlbUnits THEN chains[d][i].no = d - 1
         ELSE /\ PlbUnits <= chains[d][i].no /\ chains[d][i].no < nextNo
              /\ \A k \in 1 .. i - 1 : chains[d][i].no < chains[d][k].no

AttachInv == AttachTypeOK /\ Chained /\ Connecting /\ Numbered

(* The number of PLB devices is a number. *)
LEMMA AttachNumbers ==
  /\ PlbUnits \in Nat /\ "plb" \notin PciBoards
  /\ Devices = 1 .. PlbUnits + 1
  /\ \A d \in Devices : d \in Nat /\ (Kind(d) = "plb" <=> d <= PlbUnits \/ board = "plb")
BY AttachAssumption DEF AttachConstants, Devices, Kind

(* A set of numbers has a least one. *)
LEMMA LeastOne ==
  ASSUME NEW T, T \subseteq Nat, T # {}
  PROVE  \E x \in T : \A y \in T : x <= y
<1> DEFINE R == OpToRel(<, Nat)
<1>1. IsWellFoundedOn(R, Nat)
  BY NatLessThanWellFounded
<1>2. \A x, y \in Nat : << y, x >> \in R <=> y < x
  BY DEF OpToRel
<1> HIDE DEF R
<1>3. \E x \in T : \A y \in T : ~(<< y, x >> \in R)
  BY <1>1, WFMin
<1>4. PICK x \in T : \A y \in T : ~(<< y, x >> \in R)
  BY <1>3
<1>5. ASSUME NEW y \in T PROVE x <= y
  <2>1. x \in Nat /\ y \in Nat
    OBVIOUS
  <2>2. ~(y < x)
    BY <1>2, <1>4, <2>1
  <2> QED
    BY <2>1, <2>2
<1> QED
  BY <1>5

(* The first device that has a number has it. *)
LEMMA FirstOwner ==
  ASSUME NEW T, T \subseteq Nat, T # {}
  PROVE  Min(T) \in T /\ \A y \in T : Min(T) <= y
BY LeastOne DEF Min

(* The channel a device has under a number is the first of its chain. *)
LEMMA FirstOfChain ==
  ASSUME NEW d \in Devices, chains[d] \in Seq(Found), NEW n \in Nat,
         d \in Owners(n)
  PROVE  \E i \in 1 .. Len(chains[d]) :
           /\ Of(d, n) = chains[d][i] /\ chains[d][i].no = n
           /\ \A j \in 1 .. i - 1 : chains[d][j].no # n
<1> DEFINE chain == chains[d]
           T == { i \in 1 .. Len(chain) : chain[i].no = n }
<1>1. DOMAIN chain = 1 .. Len(chain) /\ Len(chain) \in Nat
  BY LenProperties
<1>2. \E c \in ToSet(chain) : c.no = n
  BY DEF Owners
<1>3. T # {} /\ T \subseteq Nat
  BY <1>1, <1>2 DEF ToSet
<1>4. PICK x \in T : \A y \in T : x <= y
  BY <1>3, LeastOne
<1>5. x \in 1 .. Len(chain) /\ chain[x].no = n /\ x \in Nat
  BY <1>4
<1>6. \A j \in 1 .. x - 1 : chain[j].no # n
  <2> SUFFICES ASSUME NEW j \in 1 .. x - 1, chain[j].no = n
               PROVE  FALSE
    OBVIOUS
  <2>1. j \in T /\ j < x /\ j \in Nat
    BY <1>1, <1>5
  <2> QED
    BY <1>4, <1>5, <2>1
<1> DEFINE I == CHOOSE i \in DOMAIN chain :
                  chain[i].no = n /\ \A j \in 1 .. i - 1 : chain[j].no # n
<1>7. I \in 1 .. Len(chain) /\ chain[I].no = n /\ \A j \in 1 .. I - 1 : chain[j].no # n
  BY <1>1, <1>5, <1>6
<1>8. Of(d, n) = chain[I]
  BY DEF Of
<1> QED
  BY <1>7, <1>8

(* A new channel goes before the others of its chain. *)
LEMMA Prepended ==
  ASSUME NEW S, NEW q \in Seq(S), NEW x \in S
  PROVE  /\ << x >> \o q \in Seq(S)
         /\ Len(<< x >> \o q) = Len(q) + 1 /\ Len(q) \in Nat
         /\ (<< x >> \o q)[1] = x
         /\ \A i \in 2 .. Len(q) + 1 : (<< x >> \o q)[i] = q[i - 1]
<1>1. << x >> \in Seq(S) /\ Len(<< x >>) = 1 /\ << x >>[1] = x
  OBVIOUS
<1> DEFINE r == << x >> \o q
<1>2. r \in Seq(S) /\ Len(r) = Len(q) + 1 /\ Len(q) \in Nat
  BY <1>1, ConcatProperties, LenProperties
<1>3. \A i \in 1 .. Len(r) : r[i] = IF i <= 1 THEN << x >>[i] ELSE q[i - 1]
  BY <1>1, ConcatProperties
<1>4. r[1] = x
  BY <1>1, <1>2, <1>3
<1>5. \A i \in 2 .. Len(q) + 1 : r[i] = q[i - 1]
  BY <1>2, <1>3
<1> QED
  BY <1>2, <1>4, <1>5

LEMMA AttachInitOK == AttachInit => AttachInv
<1> SUFFICES ASSUME AttachInit PROVE AttachInv
  OBVIOUS
<1>1. /\ \A d \in Devices : chains[d] = << >> /\ ToSet(chains[d]) = {}
      /\ DOMAIN chains = Devices
  BY DEF AttachInit, ToSet
<1>2. Channels = {} /\ Numbers = {}
  BY <1>1 DEF Channels, Numbers
<1>3. AttachTypeOK
  <2>1. board \in PciBoards /\ dev \in 1 .. PlbUnits + 2 /\ bar \in Bars /\ nextNo \in Nat
        /\ failed = {} /\ asked = {} /\ connected = {} /\ booted \in BOOLEAN
    <3>1. PlbUnits \in Nat
      BY AttachNumbers
    <3>2. dev \in 1 .. PlbUnits + 2 /\ bar \in Bars /\ nextNo \in Nat
      BY <3>1 DEF AttachInit, Bars
    <3>3. board \in PciBoards
      BY DEF AttachInit
    <3>4. failed = {} /\ asked = {} /\ connected = {} /\ booted = FALSE
      BY DEF AttachInit
    <3> QED
      BY <3>2, <3>3, <3>4
  <2> QED
    BY <1>1, <1>2, <2>1 DEF AttachTypeOK
<1>4. Chained
  BY <1>1 DEF AttachInit, Chained
<1>5. Connecting
  BY <1>2 DEF AttachInit, Connecting
<1>6. Numbered
  BY <1>1, AttachNumbers DEF AttachInit, Numbered
<1> QED
  BY <1>3, <1>4, <1>5, <1>6 DEF AttachInv

(* Where the driver is next: at the next base address or device. *)
LEMMA NextPlace ==
  ASSUME AttachTypeOK, Attaching, NextBar \/ NextDevice
  PROVE  /\ dev \in Nat /\ bar \in Nat /\ dev <= PlbUnits + 1
         /\ dev' \in 1 .. PlbUnits + 2 /\ bar' \in Bars
         /\ \/ NextBar /\ dev' = dev /\ bar' = bar + 1
            \/ dev' = dev + 1 /\ bar' = 0
<1>1. PlbUnits \in Nat /\ dev \in 1 .. PlbUnits + 1 /\ bar \in 0 .. 9
  BY AttachNumbers DEF AttachTypeOK, Attaching, Bars
<1> QED
  BY <1>1 DEF NextBar, NextDevice, Bars

(* A PLB device has one base address. *)
LEMMA PlbHasOne ==
  ASSUME NEW d \in Devices, d <= PlbUnits, NEW i \in Bars
  PROVE  IsUart(d, i) <=> i = 0
<1>1. Kind(d) = "plb"
  BY DEF Kind
<1>2. Layout["plb"] = [k \in Bars |-> IF k \in {0} THEN At(k, 0) ELSE Null]
  BY DEF Layout, RegBase, RawBars
<1>3. Layout["plb"][i] = IF i = 0 THEN At(0, 0) ELSE Null
  BY <1>2
<1>4. At(0, 0) # Null
  BY DEF At, Null
<1> QED
  BY <1>1, <1>3, <1>4 DEF IsUart, DevProbe

(* What is on a chain is on the board, and has registers. *)
LEMMA ChainedTyped ==
  Chained => /\ DOMAIN chains = Devices
             /\ \A c \in Channels : c.no \in Nat /\ Layout[Kind(c.dev)][c.regIndex] # Null
<1> SUFFICES ASSUME Chained
             PROVE  /\ DOMAIN chains = Devices
                    /\ \A c \in Channels : c.no \in Nat /\ Layout[Kind(c.dev)][c.regIndex] # Null
  OBVIOUS
<1>1. DOMAIN chains = Devices
  BY DEF Chained
<1>2. ASSUME NEW d \in Devices, NEW c \in ToSet(chains[d])
      PROVE  c.no \in Nat /\ Layout[Kind(c.dev)][c.regIndex] # Null
  <2>1. chains[d] \in Seq(Found)
    BY DEF Chained
  <2>2. PICK i \in 1 .. Len(chains[d]) : c = chains[d][i]
    BY <2>1, LenProperties DEF ToSet
  <2>3. c \in Found
    BY <2>1, <2>2, ElementOfSeq
  <2>4. c.dev = d /\ IsUart(d, c.regIndex)
    BY <2>2 DEF Chained
  <2> QED
    BY <2>3, <2>4 DEF Found, IsUart
<1> QED
  BY <1>1, <1>2 DEF Channels

(* The layout does not change. *)
LEMMA SameBoard ==
  ASSUME board' = board
  PROVE  /\ \A d : Kind(d)' = Kind(d)
         /\ \A d, i : IsUart(d, i)' <=> IsUart(d, i)
BY DEF Kind, IsUart, DevProbe

(* A step of ns16550vxbInstInit leaves what comes after it alone. *)
LEMMA InitKeeps ==
  ASSUME AttachInv, InstInit
  PROVE  /\ Attaching /\ board' = board /\ asked' = {} /\ connected' = {} /\ booted' = FALSE
         /\ NextBar \/ NextDevice
         /\ Connecting'
<1>1. /\ Attaching /\ board' = board
      /\ UNCHANGED << asked, connected, booted >>
      /\ NextBar \/ NextDevice
  BY DEF InstInit, SkipBar, AttachFails, AttachChannel
<1>2. asked = {} /\ connected = {} /\ booted = FALSE
  BY <1>1 DEF AttachInv, Connecting, AttachTypeOK
<1>3. asked' = {} /\ connected' = {} /\ booted' = FALSE
  BY <1>1, <1>2
<1> QED
  BY <1>1, <1>3 DEF Connecting

(* A step that adds nothing only moves on. *)
LEMMA MovedChained ==
  ASSUME AttachInv, InstInit, chains' = chains
  PROVE  Chained'
<1>1. /\ dev \in Nat /\ bar \in Nat
      /\ (dev' = dev /\ bar' = bar + 1) \/ (dev' = dev + 1 /\ bar' = 0)
  BY NextPlace, InitKeeps DEF AttachInv
<1>2. \A d, i : IsUart(d, i)' <=> IsUart(d, i)
  BY SameBoard, InitKeeps
<1>3. Devices' = Devices /\ Found' = Found
  BY DEF Devices, Found
<1>4. chains' \in [Devices -> Seq(Found)]
  BY DEF AttachInv, Chained
<1>5. ASSUME NEW d \in Devices, NEW i \in 1 .. Len(chains[d])
      PROVE  /\ chains[d][i].dev = d
             /\ IsUart(d, chains[d][i].regIndex)'
             /\ d < dev' \/ (d = dev' /\ chains[d][i].regIndex < bar')
             /\ \A k \in 1 .. i - 1 : chains[d][i].regIndex < chains[d][k].regIndex
  <2>1. /\ chains[d][i].dev = d
        /\ IsUart(d, chains[d][i].regIndex)
        /\ d < dev \/ (d = dev /\ chains[d][i].regIndex < bar)
        /\ \A k \in 1 .. i - 1 : chains[d][i].regIndex < chains[d][k].regIndex
    BY DEF AttachInv, Chained
  <2>2. chains[d] \in Seq(Found)
    BY DEF AttachInv, Chained
  <2>3. chains[d][i] \in Found
    BY <2>2, ElementOfSeq
  <2>4. chains[d][i].regIndex \in Nat /\ d \in Nat
    BY <2>3, AttachNumbers DEF Found, Bars
  <2>5. d < dev' \/ (d = dev' /\ chains[d][i].regIndex < bar')
    BY <1>1, <2>1, <2>4
  <2> QED
    BY <1>2, <2>1, <2>5
<1> QED
  BY <1>3, <1>4, <1>5 DEF Chained

(* Types follow from the chains. *)
LEMMA InitTyped ==
  ASSUME AttachInv, InstInit, Chained', nextNo' \in Nat, failed' \subseteq Devices
  PROVE  AttachTypeOK'
<1>1. /\ board' \in PciBoards /\ asked' = {} /\ connected' = {} /\ booted' = FALSE
  BY InitKeeps DEF AttachInv, AttachTypeOK
<1>2. dev' \in 1 .. PlbUnits + 2 /\ bar' \in Bars
  BY NextPlace, InitKeeps DEF AttachInv
<1>3. /\ (DOMAIN chains = Devices)'
      /\ (\A c \in Channels : c.no \in Nat /\ Layout[Kind(c.dev)][c.regIndex] # Null)'
  BY ChainedTyped, PTL
<1> QED
  BY <1>1, <1>2, <1>3 DEF AttachTypeOK

(* No UART at this base address. *)
LEMMA SkipBarOK == ASSUME AttachInv, SkipBar PROVE AttachInv'
<1>1. InstInit /\ chains' = chains /\ UNCHANGED << board, nextNo, failed >>
  BY DEF InstInit, SkipBar
<1>2. Chained'
  BY <1>1, MovedChained
<1>3. AttachTypeOK'
  <2>1. nextNo \in Nat /\ failed \subseteq Devices
    BY DEF AttachInv, AttachTypeOK
  <2> QED
    BY <1>1, <1>2, <2>1, InitTyped
<1>4. Numbered'
  <2> SUFFICES ASSUME NoPlbFailed'
               PROVE  /\ dev' <= PlbUnits => nextNo' = IF bar' = 0 THEN dev' - 1 ELSE dev'
                      /\ dev' > PlbUnits => nextNo' >= PlbUnits
    BY <1>1 DEF AttachInv, Numbered, NoPlbFailed, Kind, Devices
  <2>1. NoPlbFailed
    BY <1>1 DEF NoPlbFailed, Kind
  <2>2. /\ dev \in Nat /\ bar \in Nat /\ PlbUnits \in Nat /\ nextNo \in Nat
        /\ (dev' = dev /\ bar' = bar + 1) \/ (dev' = dev + 1 /\ bar' = 0)
    BY <1>1, NextPlace, InitKeeps, AttachNumbers DEF AttachInv, AttachTypeOK
  <2>3. dev <= PlbUnits => bar # 0
    BY PlbHasOne DEF SkipBar, Attaching, Bars
  <2>4. /\ dev <= PlbUnits => nextNo = IF bar = 0 THEN dev - 1 ELSE dev
        /\ dev > PlbUnits => nextNo >= PlbUnits
    BY <2>1 DEF AttachInv, Numbered
  <2> QED
    BY <1>1, <2>2, <2>3, <2>4
<1> QED
  BY <1>1, <1>2, <1>3, <1>4, InitKeeps DEF AttachInv

(* The device is given up. *)
LEMMA AttachFailsOK == ASSUME AttachInv, AttachFails PROVE AttachInv'
<1>1. /\ InstInit /\ chains' = chains /\ UNCHANGED << board, nextNo >>
      /\ failed' = failed \cup {dev} /\ NextDevice /\ Attaching
  BY DEF InstInit, AttachFails
<1>2. Chained'
  BY <1>1, MovedChained
<1>3. AttachTypeOK'
  <2>1. nextNo \in Nat /\ failed' \subseteq Devices
    BY <1>1 DEF AttachInv, AttachTypeOK, Attaching
  <2> QED
    BY <1>1, <1>2, <2>1, InitTyped
<1>4. Numbered'
  <2> SUFFICES ASSUME NoPlbFailed'
               PROVE  Numbered'
    BY DEF Numbered
  <2>1. NoPlbFailed /\ Kind(dev) # "plb"
    BY <1>1 DEF NoPlbFailed, Kind
  <2>2. dev \in Nat /\ PlbUnits \in Nat /\ dev > PlbUnits /\ dev' = dev + 1
    BY <1>1, <2>1, AttachNumbers DEF NextDevice, Attaching, Kind
  <2>3. nextNo' >= PlbUnits
    BY <1>1, <2>1, <2>2 DEF AttachInv, Numbered
  <2> QED
    BY <1>1, <2>1, <2>2, <2>3 DEF AttachInv, Numbered, Devices
<1> QED
  BY <1>1, <1>2, <1>3, <1>4, InitKeeps DEF AttachInv

(* A channel is put on the chain of the device. *)
LEMMA AttachChannelOK == ASSUME AttachInv, AttachChannel PROVE AttachInv'
<1> DEFINE entry == [no |-> ChannelNo(dev, nextNo), dev |-> dev, regIndex |-> bar]
           old == chains[dev]
<1>1. /\ InstInit /\ UNCHANGED << board, failed >> /\ dev \in Devices /\ IsUart(dev, bar)
      /\ chains' = [chains EXCEPT ![dev] = << entry >> \o old]
      /\ nextNo' = nextNo + 1 /\ NextBar
  BY DEF InstInit, AttachChannel, Attaching, Drawn
<1>2. /\ dev \in Nat /\ bar \in Nat /\ PlbUnits \in Nat /\ nextNo \in Nat /\ bar \in Bars
      /\ (dev' = dev /\ bar' = bar + 1) \/ (dev' = dev + 1 /\ bar' = 0)
  BY <1>1, NextPlace, InitKeeps, AttachNumbers DEF AttachInv, AttachTypeOK
<1>3. entry \in Found
  <2>1. ChannelNo(dev, nextNo) \in Nat
    <3>1. dev - 1 \in Nat
      BY <1>1, AttachNumbers
    <3> QED
      BY <1>2, <3>1 DEF ChannelNo, Unit
  <2> QED
    BY <1>1, <1>2, <2>1 DEF Found
<1>4. /\ chains \in [Devices -> Seq(Found)] /\ old \in Seq(Found)
      /\ \A d \in Devices : chains[d] \in Seq(Found)
  BY <1>1 DEF AttachInv, Chained
<1>5. /\ << entry >> \o old \in Seq(Found) /\ Len(old) \in Nat
      /\ Len(<< entry >> \o old) = Len(old) + 1
      /\ (<< entry >> \o old)[1] = entry
      /\ \A i \in 2 .. Len(old) + 1 : (<< entry >> \o old)[i] = old[i - 1]
  <2> HIDE DEF entry, old
  <2> QED
    BY <1>3, <1>4, Prepended
<1>6. /\ entry.no = ChannelNo(dev, nextNo) /\ entry.dev = dev /\ entry.regIndex = bar
  OBVIOUS
<1> HIDE DEF entry
<1>7. /\ chains' \in [Devices -> Seq(Found)]
      /\ chains'[dev] = << entry >> \o old
      /\ \A d \in Devices \ {dev} : chains'[d] = chains[d]
  BY <1>1, <1>4, <1>5
<1>8. /\ Len(chains'[dev]) = Len(old) + 1 /\ Len(old) \in Nat
      /\ chains'[dev][1] = entry
      /\ \A i \in 2 .. Len(old) + 1 :
           chains'[dev][i] = chains[dev][i - 1] /\ i - 1 \in 1 .. Len(chains[dev])
  BY <1>5, <1>7
<1>9. \A d \in Devices : \A i \in 1 .. Len(chains[d]) :
        /\ chains[d][i] \in Found /\ chains[d][i].regIndex \in Nat /\ chains[d][i].no \in Nat
        /\ d \in Nat /\ i \in Nat
  <2> SUFFICES ASSUME NEW d \in Devices, NEW i \in 1 .. Len(chains[d])
               PROVE  /\ chains[d][i] \in Found /\ chains[d][i].regIndex \in Nat
                      /\ chains[d][i].no \in Nat /\ d \in Nat /\ i \in Nat
    OBVIOUS
  <2>1. chains[d] \in Seq(Found)
    BY <1>4
  <2>2. chains[d][i] \in Found /\ i \in Nat
    BY <2>1, ElementOfSeq, LenProperties
  <2> QED
    BY <2>2, AttachNumbers DEF Found, Bars
<1>10. \A d, i : IsUart(d, i)' <=> IsUart(d, i)
  BY <1>1, SameBoard
<1> HIDE DEF old
<1>11. Chained'
  <2>1. ASSUME NEW d \in Devices, NEW i \in 1 .. Len(chains'[d])
        PROVE  /\ chains'[d][i].dev = d
               /\ IsUart(d, chains'[d][i].regIndex)
               /\ d < dev' \/ (d = dev' /\ chains'[d][i].regIndex < bar')
               /\ \A k \in 1 .. i - 1 : chains'[d][i].regIndex < chains'[d][k].regIndex
    <3>1. CASE d # dev
      <4>1. chains'[d] = chains[d]
        BY <1>7, <3>1
      <4>2. /\ chains[d][i].dev = d
            /\ IsUart(d, chains[d][i].regIndex)
            /\ d < dev \/ (d = dev /\ chains[d][i].regIndex < bar)
            /\ \A k \in 1 .. i - 1 : chains[d][i].regIndex < chains[d][k].regIndex
        BY <4>1 DEF AttachInv, Chained
      <4>3. d \in Nat /\ d < dev
        BY <3>1, <4>2, AttachNumbers
      <4>4. d < dev'
        BY <1>2, <4>3
      <4> QED
        BY <1>10, <4>1, <4>2, <4>4
    <3>2. CASE d = dev /\ i = 1
      <4>1. chains'[d][i] = entry
        BY <1>8, <3>2
      <4>2. d < dev' \/ (d = dev' /\ bar < bar')
        BY <1>2, <3>2
      <4>3. 1 .. i - 1 = {}
        BY <3>2
      <4> QED
        BY <1>1, <1>6, <1>10, <3>2, <4>1, <4>2, <4>3
    <3>3. CASE d = dev /\ i # 1
      <4>1. i \in 2 .. Len(old) + 1
        BY <1>8, <3>3
      <4>2. chains'[d][i] = chains[d][i - 1] /\ i - 1 \in 1 .. Len(chains[d]) /\ i \in Nat
        BY <1>8, <3>3, <4>1
      <4>3. /\ chains[d][i - 1].dev = d
            /\ IsUart(d, chains[d][i - 1].regIndex)
            /\ d < dev \/ (d = dev /\ chains[d][i - 1].regIndex < bar)
            /\ \A k \in 1 .. (i - 1) - 1 : chains[d][i - 1].regIndex < chains[d][k].regIndex
        BY <4>2 DEF AttachInv, Chained
      <4>4. chains[d][i - 1].regIndex < bar /\ chains[d][i - 1].regIndex \in Nat
        BY <1>2, <1>9, <3>3, <4>2, <4>3
      <4>5. d < dev' \/ (d = dev' /\ chains'[d][i].regIndex < bar')
        BY <1>2, <3>3, <4>2, <4>4
      <4>6. ASSUME NEW k \in 1 .. i - 1
            PROVE  chains'[d][i].regIndex < chains'[d][k].regIndex
        <5>1. CASE k = 1
          BY <1>6, <1>8, <3>3, <4>2, <4>4, <5>1
        <5>2. CASE k # 1
          <6>1. k \in 2 .. Len(old) + 1 /\ k - 1 \in 1 .. (i - 1) - 1
            BY <1>8, <4>1, <5>2
          <6>2. chains'[d][k] = chains[d][k - 1]
            BY <1>8, <3>3, <6>1
          <6> QED
            BY <4>2, <4>3, <6>1, <6>2
        <5> QED
          BY <5>1, <5>2
      <4> QED
        BY <1>10, <4>2, <4>3, <4>5, <4>6
    <3> QED
      BY <3>1, <3>2, <3>3
  <2>2. Devices' = Devices /\ Found' = Found
    BY DEF Devices, Found
  <2>3. ASSUME NEW d \in Devices, NEW i \in 1 .. Len(chains'[d])
        PROVE  IsUart(d, chains[d][i].regIndex)'
    BY <1>1, <2>1 DEF IsUart, DevProbe, Kind
  <2> QED
    BY <1>7, <2>1, <2>2, <2>3 DEF Chained
<1>12. AttachTypeOK'
  <2>1. nextNo' \in Nat /\ failed' \subseteq Devices
    BY <1>1, <1>2 DEF AttachInv, AttachTypeOK
  <2> QED
    BY <1>1, <1>11, <2>1, InitTyped
<1>13. Numbered'
  <2> SUFFICES ASSUME NoPlbFailed'
               PROVE  Numbered'
    BY DEF Numbered
  <2>1. NoPlbFailed
    BY <1>1 DEF NoPlbFailed, Kind
  <2>2. /\ dev <= PlbUnits => nextNo = IF bar = 0 THEN dev - 1 ELSE dev
        /\ dev > PlbUnits => nextNo >= PlbUnits
        /\ \A d \in Devices : \A i \in 1 .. Len(chains[d]) :
             IF d <= PlbUnits THEN chains[d][i].no = d - 1
             ELSE /\ PlbUnits <= chains[d][i].no /\ chains[d][i].no < nextNo
                  /\ \A k \in 1 .. i - 1 : chains[d][i].no < chains[d][k].no
    BY <2>1 DEF AttachInv, Numbered
  <2>3. dev <= PlbUnits => bar = 0
    BY <1>1, <1>2, PlbHasOne
  <2>4. /\ dev' <= PlbUnits => nextNo' = IF bar' = 0 THEN dev' - 1 ELSE dev'
        /\ dev' > PlbUnits => nextNo' >= PlbUnits
    BY <1>1, <1>2, <2>2, <2>3
  <2>5. ChannelNo(dev, nextNo) = IF dev <= PlbUnits THEN dev - 1 ELSE nextNo
    <3>1. Kind(dev) = "plb" <=> dev <= PlbUnits
      <4>1. board # "plb"
        BY AttachNumbers DEF AttachInv, AttachTypeOK
      <4> QED
        BY <1>1, <4>1, AttachNumbers
    <3> QED
      BY <3>1 DEF ChannelNo, Unit
  <2>6. ASSUME NEW d \in Devices, NEW i \in 1 .. Len(chains'[d])
        PROVE  IF d <= PlbUnits THEN chains'[d][i].no = d - 1
               ELSE /\ PlbUnits <= chains'[d][i].no /\ chains'[d][i].no < nextNo'
                    /\ \A k \in 1 .. i - 1 : chains'[d][i].no < chains'[d][k].no
    <3>1. CASE d # dev
      <4>1. chains'[d] = chains[d]
        BY <1>7, <3>1
      <4>2. chains[d][i].no \in Nat
        BY <1>9, <4>1
      <4>3. IF d <= PlbUnits THEN chains[d][i].no = d - 1
            ELSE /\ PlbUnits <= chains[d][i].no /\ chains[d][i].no < nextNo
                 /\ \A k \in 1 .. i - 1 : chains[d][i].no < chains[d][k].no
        BY <2>2, <4>1
      <4>4. chains[d][i].no < nextNo => chains[d][i].no < nextNo'
        BY <1>1, <1>2, <4>2
      <4> QED
        BY <4>1, <4>3, <4>4
    <3>2. CASE d = dev /\ i = 1
      <4>1. chains'[d][i].no = IF d <= PlbUnits THEN d - 1 ELSE nextNo
        BY <1>6, <1>8, <2>5, <3>2
      <4>2. d > PlbUnits => PlbUnits <= nextNo /\ nextNo < nextNo'
        BY <1>1, <1>2, <2>2, <3>2
      <4>3. 1 .. i - 1 = {}
        BY <3>2
      <4> QED
        BY <1>2, <3>2, <4>1, <4>2, <4>3
    <3>3. CASE d = dev /\ i # 1
      <4>1. i \in 2 .. Len(old) + 1
        BY <1>8, <3>3
      <4>2. chains'[d][i] = chains[d][i - 1] /\ i - 1 \in 1 .. Len(chains[d]) /\ i \in Nat
        BY <1>8, <3>3, <4>1
      <4>3. IF d <= PlbUnits THEN chains[d][i - 1].no = d - 1
            ELSE /\ PlbUnits <= chains[d][i - 1].no /\ chains[d][i - 1].no < nextNo
                 /\ \A k \in 1 .. (i - 1) - 1 : chains[d][i - 1].no < chains[d][k].no
        BY <2>2, <4>2
      <4>4. chains[d][i - 1].no \in Nat
        BY <1>9, <4>2
      <4>5. d > PlbUnits => chains'[d][i].no < nextNo /\ chains'[d][i].no < nextNo'
        BY <1>1, <1>2, <3>3, <4>2, <4>3, <4>4, SMTT(30)
      <4>6. ASSUME d > PlbUnits, NEW k \in 1 .. i - 1
            PROVE  chains'[d][i].no < chains'[d][k].no
        <5>1. CASE k = 1
          <6>1. chains'[d][k].no = nextNo
            BY <1>2, <1>6, <1>8, <2>5, <3>3, <4>6, <5>1
          <6> QED
            BY <4>5, <4>6, <6>1
        <5>2. CASE k # 1
          <6>1. k \in 2 .. Len(old) + 1 /\ k - 1 \in 1 .. (i - 1) - 1
            BY <1>8, <4>1, <5>2
          <6>2. chains'[d][k] = chains[d][k - 1]
            BY <1>8, <3>3, <6>1
          <6> QED
            BY <1>2, <3>3, <4>2, <4>3, <4>6, <6>1, <6>2
        <5> QED
          BY <5>1, <5>2
      <4> QED
        BY <1>2, <3>3, <4>2, <4>3, <4>5, <4>6
    <3> QED
      BY <3>1, <3>2, <3>3
  <2>7. Devices' = Devices
    BY DEF Devices
  <2> QED
    BY <2>4, <2>6, <2>7 DEF Numbered
<1> QED
  BY <1>1, <1>11, <1>12, <1>13, InitKeeps DEF AttachInv

(* The channels depend on what ns16550vxbInstInit leaves. *)
LEMMA SameFound ==
  ASSUME UNCHANGED << board, dev, bar, chains, nextNo, failed >>
  PROVE  /\ Channels' = Channels /\ Numbers' = Numbers /\ Attaching' = Attaching
         /\ \A m : Owners(m)' = Owners(m)
         /\ \A m : Of(Min(Owners(m)), m)' = Of(Min(Owners(m)), m)
         /\ Chained' = Chained /\ Numbered' = Numbered
<1>1. Channels' = Channels
  BY DEF Channels, Devices
<1>2. \A m : Owners(m)' = Owners(m)
  BY DEF Owners, Devices
<1>3. \A m : Of(Min(Owners(m)), m)' = Of(Min(Owners(m)), m)
  BY DEF Owners, Devices, Min, Of
<1>4. Chained' = Chained
  BY DEF Chained, Found, Devices, IsUart, DevProbe, Kind
<1>5. Numbered' = Numbered
  BY DEF Numbered, NoPlbFailed, Devices, Kind
<1> QED
  BY <1>1, <1>2, <1>3, <1>4, <1>5 DEF Numbers, Attaching, Devices

(* A number is connected. *)
LEMMA ConnectAllOK == ASSUME AttachInv, ConnectAll PROVE AttachInv'
<1>1. /\ ~Attaching /\ ~booted
      /\ UNCHANGED << board, dev, bar, chains, nextNo, failed >>
      /\ booted' = (asked' = Numbers)
  BY DEF ConnectAll
<1>2. PICK n \in Numbers \ asked : SioChanConnect(n)
  BY DEF ConnectAll
<1>3. asked' = asked \cup {n} /\ connected' = connected \cup {Of(Min(Owners(n)), n)}
  BY <1>2 DEF SioChanConnect
<1>4. /\ Channels' = Channels /\ Numbers' = Numbers /\ Attaching' = Attaching
      /\ \A m : Owners(m)' = Owners(m)
      /\ \A m : Of(Min(Owners(m)), m)' = Of(Min(Owners(m)), m)
      /\ Chained' = Chained /\ Numbered' = Numbered
  BY <1>1, SameFound
<1>5. Of(Min(Owners(n)), n) \in Channels
  <2>1. PICK c \in Channels : c.no = n
    BY DEF Numbers
  <2>2. PICK d \in Devices : c \in ToSet(chains[d])
    BY DEF Channels
  <2>3. d \in Owners(n) /\ Owners(n) \subseteq Devices
    BY <2>1, <2>2 DEF Owners
  <2>4. Owners(n) \subseteq Nat
    BY <2>3, AttachNumbers
  <2>5. Min(Owners(n)) \in Owners(n)
    BY <2>3, <2>4, FirstOwner
  <2> DEFINE e == Min(Owners(n))
  <2>6. e \in Devices /\ e \in Owners(n) /\ chains[e] \in Seq(Found)
    BY <2>3, <2>5 DEF AttachInv, Chained
  <2>7. n \in Nat
    <3>1. c.no \in Nat
      BY DEF AttachInv, AttachTypeOK
    <3> QED
      BY <2>1, <3>1
  <2> HIDE DEF e
  <2>8. PICK i \in 1 .. Len(chains[e]) : Of(e, n) = chains[e][i]
    BY <2>6, <2>7, FirstOfChain
  <2>9. Of(e, n) \in ToSet(chains[e])
    BY <2>6, <2>8, LenProperties DEF ToSet
  <2>10. Of(e, n) \in Channels
    BY <2>6, <2>9 DEF Channels
  <2> QED
    BY <2>10 DEF e
<1>6. AttachTypeOK'
  <2>1. /\ board' \in PciBoards /\ dev' \in 1 .. PlbUnits + 2 /\ bar' \in Bars /\ nextNo' \in Nat
        /\ failed' \subseteq Devices /\ booted' \in BOOLEAN
    BY <1>1 DEF AttachInv, AttachTypeOK
  <2>2. asked' \subseteq Numbers' /\ connected' \subseteq Channels'
    BY <1>3, <1>4, <1>5 DEF AttachInv, AttachTypeOK
  <2>3. (DOMAIN chains = Devices)'
        /\ (\A c \in Channels : c.no \in Nat /\ Layout[Kind(c.dev)][c.regIndex] # Null)'
    <3>1. Chained'
      BY <1>4 DEF AttachInv
    <3> QED
      BY <3>1, ChainedTyped, PTL
  <2>4. Devices' = Devices
    BY DEF Devices
  <2> QED
    BY <2>1, <2>2, <2>3, <2>4 DEF AttachTypeOK
<1>7. Connecting'
  <2>1. \A m \in asked : Of(Min(Owners(m)), m) \in connected
    BY DEF AttachInv, Connecting
  <2>2. \A m \in asked' : Of(Min(Owners(m)), m)' \in connected'
    BY <1>3, <1>4, <2>1
  <2>3. (\A m \in asked : Of(Min(Owners(m)), m) \in connected)'
    BY <2>2
  <2> QED
    BY <1>1, <1>4, <2>3 DEF Connecting
<1> QED
  BY <1>4, <1>6, <1>7 DEF AttachInv

LEMMA AttachStepOK == AttachInv /\ [AttachNext]_attachVars => AttachInv'
<1> SUFFICES ASSUME AttachInv, [AttachNext]_attachVars PROVE AttachInv'
  OBVIOUS
<1>1. CASE SkipBar
  BY <1>1, SkipBarOK
<1>2. CASE AttachFails
  BY <1>2, AttachFailsOK
<1>3. CASE AttachChannel
  BY <1>3, AttachChannelOK
<1>4. CASE ConnectAll
  BY <1>4, ConnectAllOK
<1>5. CASE UNCHANGED attachVars
  <2>1. /\ UNCHANGED << board, dev, bar, chains, nextNo, failed >>
        /\ UNCHANGED << asked, connected, booted >>
    BY <1>5 DEF attachVars
  <2>2. /\ Channels' = Channels /\ Numbers' = Numbers /\ Attaching' = Attaching
        /\ \A m : Of(Min(Owners(m)), m)' = Of(Min(Owners(m)), m)
        /\ Chained' = Chained /\ Numbered' = Numbered
    BY <2>1, SameFound
  <2>3. AttachTypeOK'
    <3>1. /\ (DOMAIN chains = Devices)'
          /\ (\A c \in Channels : c.no \in Nat /\ Layout[Kind(c.dev)][c.regIndex] # Null)'
      <4>1. Chained'
        BY <2>2 DEF AttachInv
      <4> QED
        BY <4>1, ChainedTyped, PTL
    <3>2. Devices' = Devices
      BY DEF Devices
    <3> QED
      BY <2>1, <2>2, <3>1, <3>2 DEF AttachInv, AttachTypeOK
  <2>4. Connecting'
    BY <2>1, <2>2 DEF AttachInv, Connecting
  <2> QED
    BY <2>2, <2>3, <2>4 DEF AttachInv
<1> QED
  BY <1>1, <1>2, <1>3, <1>4, <1>5 DEF AttachNext, InstInit

(* What a board without shared base addresses has behind each of them. *)
Plain(kind, i) == RegBase(kind)[i] \in {At(i, 0), Null}

LEMMA PlainBoards ==
  ASSUME NEW kind, NEW i \in Bars,
         kind \notin {"IC0607KB", "LF653KB", "LF662KB1", "PR6120"}
  PROVE  Plain(kind, i)
<1> DEFINE raw == [k \in Bars |-> IF k \in RawBars(kind) THEN At(k, 0) ELSE Null]
<1>1. \A k \in Bars : raw[k] \in {At(k, 0), Null}
  OBVIOUS
<1>2. \A S : Without(raw, S)[i] \in {At(i, 0), Null}
  BY <1>1 DEF Without
<1>3. RegBase(kind) = raw \/ \E S : RegBase(kind) = Without(raw, S)
  <2> HIDE DEF raw
  <2>1. RegBase(kind) =
          CASE kind = "ESD1001"  -> Without(raw, {0, 2, 3, 4, 5})
            [] kind = "ESD1002"  -> Without(raw, {0, 3, 4, 5})
            [] kind = "ESD1004"  -> Without(raw, 0 .. 5)
            [] kind = "IC0607KB" -> [raw EXCEPT ![1] = At(0, 8)]
            [] kind = "LF659KB"  -> Without(raw, {0, 2, 3, 4})
            [] kind = "LF653KB"  -> [Without(raw, {0, 2}) EXCEPT
                                         ![3] = At(1, 32), ![4] = At(1, 64), ![5] = At(1, 96)]
            [] kind = "LF662KB1" -> [Without(raw, {0, 2}) EXCEPT
                                         ![3] = At(1, 1024), ![4] = At(1, 2048), ![5] = At(1, 3072)]
            [] kind = "PR6120"   -> [Without(raw, 4 .. 9) EXCEPT
                                         ![1] = At(0, 8), ![2] = At(0, 16), ![3] = At(0, 24)]
            [] OTHER -> raw
    BY DEF RegBase, raw
  <2> QED
    BY <2>1
<1> QED
  BY <1>1, <1>2, <1>3 DEF Plain

(* The corrected boards have their UARTs at known offsets. *)
LEMMA SharedBoards ==
  ASSUME NEW kind \in {"IC0607KB", "LF653KB", "LF662KB1", "PR6120"}, NEW i \in Bars,
         RegBase(kind)[i] # Null
  PROVE  LET reg == RegBase(kind)[i] IN
         CASE kind = "IC0607KB" -> reg = IF i = 1 THEN At(0, 8) ELSE At(i, 0)
           [] kind = "LF653KB"  -> reg = IF i \in {3, 4, 5} THEN At(1, 32 * (i - 2)) ELSE At(i, 0)
           [] kind = "LF662KB1" -> reg = IF i \in {3, 4, 5} THEN At(1, 1024 * (i - 2)) ELSE At(i, 0)
           [] kind = "PR6120"   -> i \in {0, 1, 2, 3} /\ reg = At(0, 8 * i)
<1> DEFINE raw == [k \in Bars |-> IF k \in RawBars(kind) THEN At(k, 0) ELSE Null]
<1>1. kind # "plb" /\ RawBars(kind) = 0 .. 5
  BY DEF RawBars
<1>2. raw \in [Bars -> {At(k, 0) : k \in Bars} \cup {Null}]
      /\ \A k \in Bars : raw[k] = IF k <= 5 THEN At(k, 0) ELSE Null
  BY <1>1 DEF Bars
<1>3. \A S : DOMAIN Without(raw, S) = Bars
             /\ \A k \in Bars : Without(raw, S)[k] = IF k \in S THEN Null ELSE raw[k]
  BY DEF Without
<1> HIDE DEF raw
<1>4. 1 \in Bars /\ 2 \in Bars /\ 3 \in Bars /\ 4 \in Bars /\ 5 \in Bars /\ i \in Int
  BY DEF Bars
<1>5. CASE kind = "IC0607KB"
  <2>1. RegBase(kind) = [raw EXCEPT ![1] = At(0, 8)]
    BY <1>5 DEF RegBase, raw
  <2>2. RegBase(kind)[i] = IF i = 1 THEN At(0, 8) ELSE raw[i]
    BY <1>2, <1>4, <2>1
  <2> QED
    BY <1>2, <1>5, <2>2
<1>6. CASE kind = "LF653KB"
  <2>1. RegBase(kind) = [Without(raw, {0, 2}) EXCEPT
                             ![3] = At(1, 32), ![4] = At(1, 64), ![5] = At(1, 96)]
    BY <1>6 DEF RegBase, raw
  <2>2. RegBase(kind)[i] = IF i = 5 THEN At(1, 96) ELSE IF i = 4 THEN At(1, 64)
                           ELSE IF i = 3 THEN At(1, 32) ELSE Without(raw, {0, 2})[i]
    BY <1>3, <1>4, <2>1
  <2>3. 32 * (3 - 2) = 32 /\ 32 * (4 - 2) = 64 /\ 32 * (5 - 2) = 96
    OBVIOUS
  <2>4. i \notin {3, 4, 5} => RegBase(kind)[i] = At(i, 0)
    BY <1>2, <1>3, <2>2
  <2>5. i \in {3, 4, 5} => RegBase(kind)[i] = At(1, 32 * (i - 2))
    BY <2>2, <2>3
  <2> QED
    BY <1>6, <2>4, <2>5
<1>7. CASE kind = "LF662KB1"
  <2>1. RegBase(kind) = [Without(raw, {0, 2}) EXCEPT
                             ![3] = At(1, 1024), ![4] = At(1, 2048), ![5] = At(1, 3072)]
    BY <1>7 DEF RegBase, raw
  <2>2. RegBase(kind)[i] = IF i = 5 THEN At(1, 3072) ELSE IF i = 4 THEN At(1, 2048)
                           ELSE IF i = 3 THEN At(1, 1024) ELSE Without(raw, {0, 2})[i]
    BY <1>3, <1>4, <2>1
  <2>3. 1024 * (3 - 2) = 1024 /\ 1024 * (4 - 2) = 2048 /\ 1024 * (5 - 2) = 3072
    OBVIOUS
  <2>4. i \notin {3, 4, 5} => RegBase(kind)[i] = At(i, 0)
    BY <1>2, <1>3, <2>2
  <2>5. i \in {3, 4, 5} => RegBase(kind)[i] = At(1, 1024 * (i - 2))
    BY <2>2, <2>3
  <2> QED
    BY <1>7, <2>4, <2>5
<1>8. CASE kind = "PR6120"
  <2>1. RegBase(kind) = [Without(raw, 4 .. 9) EXCEPT
                             ![1] = At(0, 8), ![2] = At(0, 16), ![3] = At(0, 24)]
    BY <1>8 DEF RegBase, raw
  <2>2. RegBase(kind)[i] = IF i = 3 THEN At(0, 24) ELSE IF i = 2 THEN At(0, 16)
                           ELSE IF i = 1 THEN At(0, 8) ELSE Without(raw, 4 .. 9)[i]
    BY <1>3, <1>4, <2>1
  <2>3. 8 * 0 = 0 /\ 8 * 1 = 8 /\ 8 * 2 = 16 /\ 8 * 3 = 24
    OBVIOUS
  <2>4. i \in {0, 1, 2, 3}
    BY <1>3, <2>2 DEF Bars
  <2>5. RegBase(kind)[i] = At(0, 8 * i)
    BY <1>2, <1>3, <2>2, <2>3, <2>4
  <2> QED
    BY <1>8, <2>4, <2>5
<1> QED
  BY <1>5, <1>6, <1>7, <1>8

(* Two UARTs of a board are eight registers apart, unless they have base
   addresses of their own. *)
LEMMA LayoutApart ==
  ASSUME board \in PciBoards, NEW d \in Devices,
         NEW i \in Bars, NEW j \in Bars, i < j, IsUart(d, i), IsUart(d, j),
         Layout[Kind(d)][i].bar = Layout[Kind(d)][j].bar
  PROVE  Layout[Kind(d)][i].off + 8 * RegDelta(d) <= Layout[Kind(d)][j].off
<1> DEFINE kind == Kind(d)
           ri == RegBase(kind)[i]
           rj == RegBase(kind)[j]
<1>1. Layout[kind] = RegBase(kind)
  BY DEF Kind, Layout
<1>2. /\ ri # Null /\ rj # Null /\ DevProbe(d, i) /\ DevProbe(d, j)
      /\ ri.bar = rj.bar
  BY <1>1 DEF IsUart
<1>3. \A b, o : At(b, o).bar = b /\ At(b, o).off = o
  BY DEF At
<1>4. i \in 0 .. 9 /\ j \in 0 .. 9
  BY DEF Bars
<1>5. CASE kind \notin {"IC0607KB", "LF653KB", "LF662KB1", "PR6120"}
  <2>1. ri = At(i, 0) /\ rj = At(j, 0)
    BY <1>2, <1>5, PlainBoards DEF Plain
  <2> QED
    BY <1>2, <1>3, <1>4, <2>1
<1>6. CASE kind = "IC0607KB"
  <2>1. /\ ri = IF i = 1 THEN At(0, 8) ELSE At(i, 0)
        /\ rj = IF j = 1 THEN At(0, 8) ELSE At(j, 0)
    BY <1>2, <1>6, SharedBoards
  <2>2. i = 0 /\ j = 1
    BY <1>2, <1>4, <1>6 DEF DevProbe
  <2>3. ri = At(0, 0) /\ rj = At(0, 8)
    BY <2>1, <2>2
  <2>4. RegDelta(d) = 1
    BY <1>6 DEF RegDelta
  <2> QED
    BY <1>1, <1>3, <2>3, <2>4
<1>7. CASE kind = "LF653KB"
  <2>1. /\ ri = IF i \in {3, 4, 5} THEN At(1, 32 * (i - 2)) ELSE At(i, 0)
        /\ rj = IF j \in {3, 4, 5} THEN At(1, 32 * (j - 2)) ELSE At(j, 0)
    BY <1>2, <1>7, SharedBoards
  <2>2. /\ ri.bar = IF i \in {3, 4, 5} THEN 1 ELSE i
        /\ ri.off = IF i \in {3, 4, 5} THEN 32 * (i - 2) ELSE 0
        /\ rj.bar = IF j \in {3, 4, 5} THEN 1 ELSE j
        /\ rj.off = IF j \in {3, 4, 5} THEN 32 * (j - 2) ELSE 0
    BY <1>3, <2>1
  <2>3. j \in {3, 4, 5} /\ i \in {1, 3, 4, 5}
    <3>1. (IF i \in {3, 4, 5} THEN 1 ELSE i) = IF j \in {3, 4, 5} THEN 1 ELSE j
      <4>1. ri.bar = rj.bar
        BY <1>2
      <4> HIDE DEF ri, rj, kind
      <4> QED
        BY <2>2, <4>1
    <3> HIDE DEF ri, rj, kind
    <3>2. i < j /\ i \in 0 .. 9 /\ j \in 0 .. 9
      BY <1>4
    <3>3. j \in {3, 4, 5}
      BY <3>1, <3>2
    <3> QED
      BY <3>1, <3>2, <3>3
  <2>4. RegDelta(d) = 4
    BY <1>7 DEF RegDelta
  <2>5. ri.off + 32 <= rj.off
    BY <1>4, <2>2, <2>3
  <2> QED
    BY <1>1, <2>4, <2>5
<1>8. CASE kind = "LF662KB1"
  <2>1. /\ ri = IF i \in {3, 4, 5} THEN At(1, 1024 * (i - 2)) ELSE At(i, 0)
        /\ rj = IF j \in {3, 4, 5} THEN At(1, 1024 * (j - 2)) ELSE At(j, 0)
    BY <1>2, <1>8, SharedBoards
  <2>2. /\ ri.bar = IF i \in {3, 4, 5} THEN 1 ELSE i
        /\ ri.off = IF i \in {3, 4, 5} THEN 1024 * (i - 2) ELSE 0
        /\ rj.bar = IF j \in {3, 4, 5} THEN 1 ELSE j
        /\ rj.off = IF j \in {3, 4, 5} THEN 1024 * (j - 2) ELSE 0
    BY <1>3, <2>1
  <2>3. j \in {3, 4, 5} /\ i \in {1, 3, 4, 5}
    <3>1. (IF i \in {3, 4, 5} THEN 1 ELSE i) = IF j \in {3, 4, 5} THEN 1 ELSE j
      <4>1. ri.bar = rj.bar
        BY <1>2
      <4> HIDE DEF ri, rj, kind
      <4> QED
        BY <2>2, <4>1
    <3> HIDE DEF ri, rj, kind
    <3>2. i < j /\ i \in 0 .. 9 /\ j \in 0 .. 9
      BY <1>4
    <3>3. j \in {3, 4, 5}
      BY <3>1, <3>2
    <3> QED
      BY <3>1, <3>2, <3>3
  <2>4. RegDelta(d) = 4
    BY <1>8 DEF RegDelta
  <2>5. ri.off + 32 <= rj.off
    BY <1>4, <2>2, <2>3
  <2> QED
    BY <1>1, <2>4, <2>5
<1>9. CASE kind = "PR6120"
  <2>1. i \in {0, 1, 2, 3} /\ ri = At(0, 8 * i) /\ j \in {0, 1, 2, 3} /\ rj = At(0, 8 * j)
    BY <1>2, <1>9, SharedBoards
  <2>2. ri.off = 8 * i /\ rj.off = 8 * j
    BY <1>3, <2>1
  <2>3. RegDelta(d) = 1
    BY <1>9 DEF RegDelta
  <2>4. ri.off + 8 <= rj.off
    BY <2>1, <2>2
  <2> QED
    BY <1>1, <2>3, <2>4
<1> QED
  BY <1>5, <1>6, <1>7, <1>8, <1>9

(* The channels of a device have registers of their own. *)
LEMMA RegistersOwn == AttachInv => RegistersApart
<1> SUFFICES ASSUME AttachInv PROVE RegistersApart
  OBVIOUS
<1> SUFFICES ASSUME NEW d \in Devices, NEW c1 \in ToSet(chains[d]), NEW c2 \in ToSet(chains[d]),
                    c1 # c2,
                    Layout[Kind(d)][c1.regIndex].bar = Layout[Kind(d)][c2.regIndex].bar
             PROVE  \/ Layout[Kind(d)][c1.regIndex].off + 8 * RegDelta(d)
                         <= Layout[Kind(d)][c2.regIndex].off
                    \/ Layout[Kind(d)][c2.regIndex].off + 8 * RegDelta(d)
                         <= Layout[Kind(d)][c1.regIndex].off
  BY DEF RegistersApart
<1>1. chains[d] \in Seq(Found)
  BY DEF AttachInv, Chained
<1>2. PICK i \in 1 .. Len(chains[d]) : c1 = chains[d][i]
  BY <1>1, LenProperties DEF ToSet
<1>3. PICK j \in 1 .. Len(chains[d]) : c2 = chains[d][j]
  BY <1>1, LenProperties DEF ToSet
<1>4. c1 \in Found /\ c2 \in Found
  BY <1>1, <1>2, <1>3, ElementOfSeq
<1>5. c1.regIndex \in Bars /\ c2.regIndex \in Bars
  BY <1>4 DEF Found
<1>6. IsUart(d, c1.regIndex) /\ IsUart(d, c2.regIndex)
  BY <1>2, <1>3 DEF AttachInv, Chained
<1>7. c1.regIndex < c2.regIndex \/ c2.regIndex < c1.regIndex
  <2>1. i < j \/ j < i
    BY <1>2, <1>3
  <2>2. /\ \A k \in 1 .. i - 1 : chains[d][i].regIndex < chains[d][k].regIndex
        /\ \A k \in 1 .. j - 1 : chains[d][j].regIndex < chains[d][k].regIndex
    BY DEF AttachInv, Chained
  <2>3. i < j => i \in 1 .. j - 1
    OBVIOUS
  <2>4. j < i => j \in 1 .. i - 1
    OBVIOUS
  <2> QED
    BY <1>2, <1>3, <2>1, <2>2, <2>3, <2>4
<1>8. board \in PciBoards
  BY DEF AttachInv, AttachTypeOK
<1> QED
  BY <1>5, <1>6, <1>7, <1>8, LayoutApart

(* The channel a number belongs to, if every number belongs to one device. *)
LEMMA OneOwner ==
  ASSUME AttachInv, NoPlbFailed, NEW c \in Channels
  PROVE  Owners(c.no) = {c.dev} /\ Of(c.dev, c.no) = c /\ c.dev \in Nat
<1>1. /\ \A d \in Devices : chains[d] \in Seq(Found) /\ d \in Nat
      /\ PlbUnits \in Nat /\ Devices = 1 .. PlbUnits + 1
      /\ \A d \in Devices : \A i \in 1 .. Len(chains[d]) : chains[d][i].dev = d
      /\ \A d \in Devices : \A i \in 1 .. Len(chains[d]) :
            IF d <= PlbUnits THEN chains[d][i].no = d - 1
            ELSE /\ PlbUnits <= chains[d][i].no
                 /\ \A k \in 1 .. i - 1 : chains[d][i].no < chains[d][k].no
  BY AttachNumbers DEF AttachInv, Chained, Numbered
<1>2. PICK d \in Devices : c \in ToSet(chains[d])
  BY DEF Channels
<1>3. PICK i \in 1 .. Len(chains[d]) : c = chains[d][i]
  BY <1>1, <1>2, LenProperties DEF ToSet
<1>4. c.dev = d /\ c.no \in Nat
  <2>1. c.no \in Nat
    BY DEF AttachInv, AttachTypeOK
  <2> QED
    BY <1>1, <1>3, <2>1
<1>5. ASSUME NEW e \in Devices, NEW j \in 1 .. Len(chains[e]), chains[e][j].no = c.no
      PROVE  e = d
  <2>1. /\ IF e <= PlbUnits THEN c.no = e - 1 ELSE PlbUnits <= c.no
        /\ IF d <= PlbUnits THEN c.no = d - 1 ELSE PlbUnits <= c.no
    BY <1>1, <1>3, <1>5
  <2> QED
    BY <1>1, <1>4, <2>1
<1>6. d \in Owners(c.no)
  BY <1>2 DEF Owners
<1>7. Owners(c.no) = {d}
  <2> SUFFICES ASSUME NEW e \in Owners(c.no) PROVE e = d
    BY <1>6
  <2>1. e \in Devices /\ \E x \in ToSet(chains[e]) : x.no = c.no
    BY DEF Owners
  <2>2. \E j \in 1 .. Len(chains[e]) : chains[e][j].no = c.no
    <3>1. DOMAIN chains[e] = 1 .. Len(chains[e])
      BY <1>1, <2>1, LenProperties
    <3>2. PICK x \in ToSet(chains[e]) : x.no = c.no
      BY <2>1
    <3> QED
      BY <3>1, <3>2 DEF ToSet
  <2> QED
    BY <1>5, <2>1, <2>2
<1>8. PICK k \in 1 .. Len(chains[d]) :
        Of(d, c.no) = chains[d][k] /\ chains[d][k].no = c.no
  BY <1>1, <1>4, <1>6, FirstOfChain, SMTT(30)
<1>9. k = i
  <2>1. CASE d <= PlbUnits
    <3>1. Len(chains[d]) \in Nat /\ \A j \in 1 .. Len(chains[d]) : chains[d][j].regIndex = 0
      <4>1. ASSUME NEW j \in 1 .. Len(chains[d]) PROVE chains[d][j].regIndex = 0
        <5>1. IsUart(d, chains[d][j].regIndex)
          BY DEF AttachInv, Chained
        <5>2. chains[d][j] \in Found
          BY <1>1, ElementOfSeq
        <5>3. chains[d][j].regIndex \in Bars
          BY <5>2 DEF Found
        <5> QED
          BY <2>1, <5>1, <5>3, PlbHasOne
      <4> QED
        BY <1>1, <4>1, LenProperties
    <3>2. /\ \A j \in 1 .. i - 1 : chains[d][i].regIndex < chains[d][j].regIndex
          /\ \A j \in 1 .. k - 1 : chains[d][k].regIndex < chains[d][j].regIndex
      BY DEF AttachInv, Chained
    <3>3. ~(k < i)
      <4> SUFFICES ASSUME k < i PROVE FALSE
        OBVIOUS
      <4>1. k \in 1 .. i - 1
        OBVIOUS
      <4> QED
        BY <3>1, <3>2, <4>1
    <3>4. ~(i < k)
      <4> SUFFICES ASSUME i < k PROVE FALSE
        OBVIOUS
      <4>1. i \in 1 .. k - 1
        OBVIOUS
      <4> QED
        BY <3>1, <3>2, <4>1
    <3> QED
      BY <3>3, <3>4
  <2>2. CASE ~(d <= PlbUnits)
    <3>1. /\ \A j \in 1 .. i - 1 : chains[d][i].no < chains[d][j].no
          /\ \A j \in 1 .. k - 1 : chains[d][k].no < chains[d][j].no
      BY <1>1, <2>2
    <3>2. chains[d][i].no = chains[d][k].no /\ chains[d][i].no \in Nat
      BY <1>3, <1>4, <1>8
    <3>3. ~(k < i)
      <4> SUFFICES ASSUME k < i PROVE FALSE
        OBVIOUS
      <4>1. k \in 1 .. i - 1
        OBVIOUS
      <4> QED
        BY <3>1, <3>2, <4>1
    <3>4. ~(i < k)
      <4> SUFFICES ASSUME i < k PROVE FALSE
        OBVIOUS
      <4>1. i \in 1 .. k - 1
        OBVIOUS
      <4> QED
        BY <3>1, <3>2, <4>1
    <3> QED
      BY <3>3, <3>4
  <2> QED
    BY <2>1, <2>2
<1> QED
  BY <1>1, <1>3, <1>4, <1>7, <1>8, <1>9

(* Who gets a channel gets a connected one. *)
LEMMA GotOwn == AttachInv => GotIsConnected
<1> SUFFICES ASSUME AttachInv, booted, NoPlbFailed, NEW c \in Channels
             PROVE  c \in connected /\ SioChanGet(c.no) = c
  BY DEF GotIsConnected, NoPlbFailed
<1>1. Owners(c.no) = {c.dev} /\ Of(c.dev, c.no) = c /\ c.dev \in Nat
  BY OneOwner
<1>2. Min(Owners(c.no)) = c.dev
  BY <1>1 DEF Min
<1>3. Max(Owners(c.no)) = c.dev
  BY <1>1 DEF Max
<1>4. c.no \in asked
  BY DEF AttachInv, Connecting, Numbers
<1>5. Of(Min(Owners(c.no)), c.no) \in connected
  BY <1>4 DEF AttachInv, Connecting
<1> QED
  BY <1>1, <1>2, <1>3, <1>5 DEF SioChanGet

(***************************************************************************)
(* The two together: a channel runs after boot.                            *)
(***************************************************************************)

LEMMA SystemSteps ==
  [SystemNext]_<< sioVars, attachVars >> => [SioNext]_sioVars /\ [AttachNext]_attachVars
<1> SUFFICES ASSUME [SystemNext]_<< sioVars, attachVars >>
             PROVE  [SioNext]_sioVars /\ [AttachNext]_attachVars
  OBVIOUS
<1>1. \/ AttachNext /\ UNCHANGED sioVars
      \/ SioNext /\ UNCHANGED attachVars
      \/ UNCHANGED sioVars /\ UNCHANGED attachVars
  BY DEF SystemNext
<1> QED
  BY <1>1

LEMMA SystemInvariance == SystemSpec => [](SioInv /\ AttachInv)
<1>1. SystemInit => SioInv /\ AttachInv
  BY SioInitOK, AttachInitOK DEF SystemInit
<1>2. SioInv /\ AttachInv /\ [SystemNext]_<< sioVars, attachVars >> => (SioInv /\ AttachInv)'
  BY SystemSteps, SioStepOK, AttachStepOK
<1> QED
  BY <1>1, <1>2, PTL DEF SystemSpec

(* Somebody will send what a channel in interrupt mode has to send, a job, the
   transmit interrupt or a change of CTS; somebody will read what arrives; no
   job is posted twice: however ns16550vxbInt, its tExcTask jobs and the tasks
   that write, switch modes and set options interleave. *)
THEOREM WorkAlwaysPending == SystemSpec => []WorkIsPending
<1>1. SioInv => WorkIsPending
  BY SioInvImplies
<1> QED
  BY <1>1, SystemInvariance, PTL

(* The room ns16550vxbIntWr2 found in the transmit FIFO is still there for
   every character of the burst, unless somebody prints or Hup disables the
   FIFO. *)
THEOREM NeverOverrun == SystemSpec => []NoOverrun
<1>1. SioInv => NoOverrun
  BY SioInvImplies
<1> QED
  BY <1>1, SystemInvariance, PTL

(* Boards that share a base address between UARTs have them eight registers
   apart, and, unless a PLB device failed, ns16550vxbSioChanGet returns under
   its number every channel there is, and its interrupt is connected. *)
THEOREM ChannelsAlwaysFound == SystemSpec => []ChannelsFound
<1>1. AttachInv => ChannelsFound
  BY RegistersOwn, GotOwn DEF ChannelsFound, AttachInv
<1> QED
  BY <1>1, SystemInvariance, PTL

(***************************************************************************)
(* The bridge.                                                             *)
(***************************************************************************)

PcStates == {"none", "read", "selected", "write", "chunk", "check", "exit"}
Kinds    == {"fd", "ctr", "tx", "rx"}
Channel  == [type : {"CAN", "SERIAL", "UDP"}, ready : BOOLEAN]
Peer     == [src : Nat, dst : Nat, running : BOOLEAN]
Index    == 1 .. Len(config)

(* Every line that was parsed made one channel or one link at most, so there
   is a slot for each. *)
Types ==
  /\ config \in Seq(Line) /\ line \in 1 .. Len(config) + 1
  /\ main \in {"parse", "join", "release", "done"}
  /\ at \in Nat \ {0} /\ stop \in BOOLEAN
  /\ ch \in Seq(Channel) /\ peer \in Seq(Peer)
  /\ Len(ch) + Len(peer) < line
  /\ pc \in [Index -> PcStates]
  /\ buf \in [Index -> Message \cup {"none"}]
  /\ left \in [Index -> 0 .. 2]
  /\ inq \in [Index -> Message \cup {"none"}]
  /\ ring \in [Index -> 0 .. RingCap]
  /\ after \in [Index -> Nat]
  /\ fds \subseteq (Nat \ {0}) \X Kinds

(* Only links between channels that are there run, and main is past a thread
   only if it ended. *)
Running ==
  /\ \A l \in Index : pc[l] # "none" => l \in Links /\ peer[l].running
  /\ \A l \in Links : peer[l].running => Src(l) <= ChIdx /\ Dst(l) <= ChIdx
  /\ main \in {"parse", "join"} => \A i \in 1 .. ChIdx : ch[i].ready
  /\ main = "parse" => at = 1
  /\ main = "join" => \A l \in Links : l < at => pc[l] \in {"none", "exit"}
  /\ main \in {"release", "done"} => \A l \in Links : pc[l] \in {"none", "exit"}

(* Descriptors belong to channels that opened, or to the one that did not. *)
Owned ==
  /\ \A fd \in fds : fd[1] <= ChIdx + 1
  /\ main = "parse" => \A fd \in fds : fd[1] <= ChIdx
  /\ main = "release" => \A fd \in fds : fd[1] >= at
  /\ main = "done" => \A fd \in fds : fd[1] > ChIdx

Shared(l) == \E k \in Links \ {l} : peer[k].running /\ Dst(k) = Dst(l)

(* The room select() promised to the only writer is still there at write(). *)
RoomKept ==
  /\ \A l \in Links : pc[l] = "chunk" =>
       left[l] > 0 /\ (ring[Dst(l)] < RingCap \/ Shared(l))
  /\ \A l \in short : l \in Links /\ Shared(l)

(* A thread that read after stop does not read again. *)
LastMessage ==
  \A l \in Index :
    after[l] <= 1 /\ (after[l] = 1 => stop /\ pc[l] \in {"write", "chunk", "check", "exit"})

BInv == Types /\ Running /\ Owned /\ RoomKept /\ LastMessage

(* What the configurations and the bounds are. *)
LEMMA BridgeFacts ==
  /\ \A c \in Configs : c \in Seq(Line)
  /\ {MaxLinks, RingCap} \subseteq Nat \ {0}
  /\ Failures \subseteq {"open", "config", "thread", "read"}
BY BridgeAssumption DEF BridgeConstants

LEMMA AppendFacts ==
  ASSUME NEW S, NEW s \in Seq(S), NEW x \in S
  PROVE  /\ Append(s, x) \in Seq(S)
         /\ Len(s) \in Nat /\ Len(Append(s, x)) = Len(s) + 1
         /\ \A i \in 1 .. Len(s) : Append(s, x)[i] = s[i]
         /\ Append(s, x)[Len(s) + 1] = x
OBVIOUS

(* A channel and a link have a slot each, and one is free while a line is left. *)
LEMMA Bounds ==
  ASSUME Types
  PROVE  /\ Len(config) \in Nat /\ ChIdx \in Nat /\ Len(peer) \in Nat
         /\ Links \subseteq Index /\ 1 .. ChIdx \subseteq Index
         /\ line <= Len(config) => Len(peer) + 1 \in Index
BY DEF Types, Links, ChIdx, Index

LEMMA InitOK == Init => BInv
<1> SUFFICES ASSUME Init PROVE BInv
  OBVIOUS
<1>1. config \in Seq(Line) /\ Len(config) \in Nat
  BY BridgeFacts DEF Init
<1>2. ch = << >> /\ peer = << >> /\ Links = {} /\ ChIdx = 0
  BY DEF Init, Links, ChIdx
<1>3. Types
  <2>1. /\ pc \in [Index -> PcStates] /\ buf \in [Index -> Message \cup {"none"}]
        /\ inq \in [Index -> Message \cup {"none"}]
    BY DEF Init, Slots, Index, PcStates, Message
  <2>2. left \in [Index -> 0 .. 2] /\ ring \in [Index -> 0 .. RingCap] /\ after \in [Index -> Nat]
    BY BridgeFacts DEF Init, Slots, Index
  <2>3. line \in 1 .. Len(config) + 1 /\ Len(ch) + Len(peer) < line
    BY <1>1, <1>2 DEF Init
  <2>4. ch \in Seq(Channel) /\ peer \in Seq(Peer)
    BY <1>2
  <2>5. fds = {} /\ at = 1 /\ main = "parse" /\ stop = FALSE
    BY DEF Init
  <2>6. fds \subseteq (Nat \ {0}) \X Kinds
    BY <2>5
  <2>7. at \in Nat \ {0}
    BY <2>5
  <2> QED
    BY <1>1, <2>1, <2>2, <2>3, <2>4, <2>5, <2>6, <2>7 DEF Types
<1>4. Running /\ Owned /\ RoomKept
  BY <1>1, <1>2 DEF Init, Running, Owned, RoomKept, Slots, Index
<1>5. LastMessage
  BY <1>1 DEF Init, LastMessage, Slots, Index
<1> QED
  BY <1>3, <1>4, <1>5 DEF BInv

(***************************************************************************)
(* The parser.                                                             *)
(***************************************************************************)

LEMMA AddChannelOK ==
  ASSUME BInv, main = "parse", line <= Len(config), NEW kinds \in SUBSET Kinds,
         config[line].type \in {"CAN", "SERIAL", "UDP"}, AddChannel(kinds),
         UNCHANGED << stop, peer, threads, inq, ring, short, after >>
  PROVE  BInv'
<1> DEFINE c == [type |-> config[line].type, ready |-> TRUE]
<1> USE Bounds DEF BInv, system, threads
<1>1. c \in Channel /\ ch' = Append(ch, c)
  BY DEF AddChannel, Channel
<1>2. /\ ch' \in Seq(Channel) /\ Len(ch') = Len(ch) + 1
      /\ \A i \in 1 .. Len(ch) : ch'[i] = ch[i]
      /\ ch'[Len(ch) + 1] = c
  BY <1>1, AppendFacts DEF Types
<1> HIDE DEF c
<1>3. line' = line + 1 /\ UNCHANGED << config, main, at >>
  BY DEF AddChannel, NextLine
<1>4. fds' = fds \cup {<< ChIdx + 1, kind >> : kind \in kinds}
  BY DEF AddChannel
<1>5. Types'
  <2>1. fds' \subseteq (Nat \ {0}) \X Kinds
    BY <1>4 DEF Types
  <2> QED
    BY <1>2, <1>3, <2>1 DEF Types, Index
<1>6. Running'
  <2>1. \A i \in 1 .. ChIdx' : ch'[i].ready
    BY <1>2 DEF Running, ChIdx, c
  <2>2. \A l \in Links : peer[l].running => Src(l) <= ChIdx' /\ Dst(l) <= ChIdx'
    <3> SUFFICES ASSUME NEW l \in Links, peer[l].running
                 PROVE  Src(l) <= ChIdx' /\ Dst(l) <= ChIdx'
      OBVIOUS
    <3>1. Src(l) <= ChIdx /\ Dst(l) <= ChIdx
      BY DEF Running
    <3>2. Src(l) \in Nat /\ Dst(l) \in Nat
      <4>1. peer[l] \in Peer
        BY DEF Types, Links
      <4> QED
        BY <4>1 DEF Peer, Src, Dst
    <3>3. ChIdx' = ChIdx + 1
      BY <1>2 DEF ChIdx
    <3> QED
      BY <3>1, <3>2, <3>3
  <2> QED
    BY <1>3, <2>1, <2>2 DEF Running, Links, Index, Src, Dst
<1>7. Owned'
  BY <1>2, <1>3, <1>4 DEF Owned, ChIdx, Types
<1>8. RoomKept' /\ LastMessage'
  BY <1>3 DEF RoomKept, Shared, LastMessage, Links, Dst, Index
<1> QED
  BY <1>5, <1>6, <1>7, <1>8

LEMMA GiveUpOK ==
  ASSUME BInv, main = "parse", GiveUp, NEW kinds \in SUBSET Kinds,
         fds' = fds \cup {<< ChIdx + 1, kind >> : kind \in kinds},
         UNCHANGED << stop, ch, peer, threads, inq, ring, short, after >>
  PROVE  BInv'
<1> USE Bounds DEF BInv, GiveUp, threads
<1>1. Types'
  <2>1. fds' \subseteq (Nat \ {0}) \X Kinds
    BY DEF Types
  <2> QED
    BY <2>1 DEF Types, Index
<1>2. Running'
  <2>1. at = 1
    BY DEF Running
  <2> QED
    BY <2>1 DEF Running, Links, Index, Src, Dst, ChIdx
<1>3. Owned'
  BY DEF Owned, ChIdx, Types
<1>4. RoomKept' /\ LastMessage'
  BY DEF RoomKept, Shared, LastMessage, Links, Dst, Index
<1> QED
  BY <1>1, <1>2, <1>3, <1>4

(* A new link runs, if it does, between channels that are there. *)
LEMMA LinkOK ==
  ASSUME BInv, Link \/ LinkNoThread
  PROVE  BInv'
<1> DEFINE src == config[line].src
           dst == config[line].dst
           ok  == Link /\ Ready(src + 1) /\ Ready(dst + 1)
           new == [src |-> src, dst |-> dst, running |-> ok]
           n   == Len(peer) + 1
<1> USE Bounds DEF BInv, io
<1>1. main = "parse" /\ line <= Len(config) /\ config[line].type = "LINK"
  BY DEF Link, LinkNoThread, Parsing
<1>2. src \in Nat /\ dst \in Nat
  <2>1. line \in 1 .. Len(config) /\ config[line] \in Line
    BY <1>1 DEF Types
  <2> QED
    BY <1>1, <2>1 DEF Line
<1>3. ok \in BOOLEAN /\ (ok => src + 1 <= ChIdx /\ dst + 1 <= ChIdx)
  BY <1>2 DEF Ready
<1>4. new \in Peer
  BY <1>2, <1>3 DEF Peer
<1>5. /\ peer' = Append(peer, new)
      /\ pc' = IF ok THEN [pc EXCEPT ![n] = "read"] ELSE pc
      /\ line' = line + 1
      /\ UNCHANGED << config, main, at, stop, ch, buf, left, fds, inq, ring, short, after >>
  <2>1. CASE Link
    BY <2>1 DEF Link, NextLine
  <2>2. CASE LinkNoThread /\ ~Link
    BY <2>2 DEF LinkNoThread, NextLine, threads
  <2> QED
    BY <2>1, <2>2
<1> HIDE DEF ok
<1>6. new.src = src /\ new.dst = dst /\ new.running = ok
  OBVIOUS
<1> HIDE DEF src, dst, new
<1>7. /\ peer' \in Seq(Peer) /\ Len(peer') = n
      /\ \A l \in Links : peer'[l] = peer[l]
      /\ peer'[n] = new
  BY <1>4, <1>5, AppendFacts DEF Types, Links
<1>8. n \in Index /\ n \notin Links /\ Links' = Links \cup {n}
  BY <1>1, <1>7 DEF Links
<1>9. pc[n] = "none"
  BY <1>8 DEF Running
<1>10. /\ pc'[n] = IF ok THEN "read" ELSE "none"
       /\ \A l \in Index : l # n => pc'[l] = pc[l]
  BY <1>5, <1>8, <1>9 DEF Types
<1>11. Types'
  <2>1. pc' \in [Index -> PcStates]
    BY <1>5, <1>8 DEF Types, PcStates
  <2>2. Len(ch') + Len(peer') < line' /\ line' \in 1 .. Len(config) + 1
    BY <1>1, <1>5, <1>7 DEF Types, ChIdx
  <2> QED
    BY <1>5, <1>7, <2>1, <2>2 DEF Types, Index
<1>12. Running'
  <2>1. \A l \in Index : pc'[l] # "none" => l \in Links' /\ peer'[l].running
    BY <1>6, <1>7, <1>8, <1>10 DEF Running
  <2>2. \A l \in Links' : peer'[l].running => Src(l)' <= ChIdx /\ Dst(l)' <= ChIdx
    BY <1>3, <1>6, <1>7, <1>8 DEF Running, Src, Dst
  <2> QED
    BY <1>1, <1>5, <2>1, <2>2 DEF Running, Index, ChIdx, Src, Dst
<1>13. Owned'
  BY <1>5 DEF Owned, ChIdx
<1>14. RoomKept'
  <2>1. \A l \in Links : Shared(l) => Shared(l)'
    BY <1>7, <1>8 DEF Shared, Dst
  <2>2. \A l \in Links' : pc'[l] = "chunk" => l \in Links /\ pc[l] = "chunk" /\ Dst(l)' = Dst(l)
    BY <1>7, <1>8, <1>10 DEF Dst
  <2> QED
    BY <1>5, <1>8, <2>1, <2>2 DEF RoomKept
<1>15. LastMessage'
  BY <1>5, <1>8, <1>9, <1>10 DEF LastMessage, Index
<1> QED
  BY <1>11, <1>12, <1>13, <1>14, <1>15

LEMMA ParseOK == BInv /\ Parse => BInv'
<1> SUFFICES ASSUME BInv, Parse PROVE BInv'
  OBVIOUS
<1>1. CASE OpenSerial \/ OpenUdp
  <2>1. CASE AddChannel({"fd"})
    BY <1>1, <2>1, AddChannelOK DEF OpenSerial, OpenUdp, OpenPlain, Parsing, Kinds
  <2>2. CASE GiveUp /\ UNCHANGED << ch, fds >>
    <3>1. fds' = fds \cup {<< ChIdx + 1, kind >> : kind \in {}}
      BY <2>2
    <3> QED
      BY <1>1, <2>2, <3>1, GiveUpOK DEF OpenSerial, OpenUdp, OpenPlain, Parsing
  <2> QED
    BY <1>1, <2>1, <2>2 DEF OpenSerial, OpenUdp, OpenPlain
<1>2. CASE OpenCan
  BY <1>2, AddChannelOK DEF OpenCan, Parsing, Kinds
<1>3. CASE OpenCanFails
  <2>1. PICK kinds \in SUBSET Kinds : fds' = fds \cup {<< ChIdx + 1, kind >> : kind \in kinds}
    BY <1>3 DEF OpenCanFails, Kinds
  <2> QED
    BY <1>3, <2>1, GiveUpOK DEF OpenCanFails, Parsing
<1>4. CASE Link \/ LinkNoThread
  BY <1>4, LinkOK
<1>5. CASE BadLine \/ ParseEnd
  <2>1. main = "parse" /\ GiveUp /\ UNCHANGED << stop, ch, peer, threads, io, short, after >>
    BY <1>5 DEF BadLine, ParseEnd, Parsing
  <2>2. fds' = fds \cup {<< ChIdx + 1, kind >> : kind \in {}}
    BY <2>1 DEF io
  <2>3. {} \in SUBSET Kinds /\ UNCHANGED << stop, ch, peer, threads, inq, ring, short, after >>
    BY <2>1 DEF io
  <2> QED
    BY <2>1, <2>2, <2>3, GiveUpOK
<1> QED
  BY <1>1, <1>2, <1>3, <1>4, <1>5 DEF Parse

(***************************************************************************)
(* The threads.                                                            *)
(***************************************************************************)

(* A step of a thread leaves main, the channels and the links alone, and only
   its own place changes. *)
LEMMA ThreadFrame ==
  ASSUME BInv, NEW l \in Links, Dispatch(l) \/ ReadFails(l)
  PROVE  /\ UNCHANGED << config, line, main, at, ch, peer, fds >>
         /\ pc[l] \notin {"none", "exit"}
         /\ l \in Index /\ Src(l) \in Index /\ Dst(l) \in Index
         /\ pc' \in [Index -> PcStates] /\ pc'[l] # "none"
         /\ \A k \in Index : k # l => pc'[k] = pc[k]
<1> USE Bounds DEF BInv
<1>1. UNCHANGED << config, line, main, at, ch, peer, fds >>
  BY DEF Dispatch, Read, CanSelect, CanRead, CanReadNothing, ReadFails, Write,
         CanWriteSelect, CanWriteChunk, Check, Take, system, io
<1>2. pc[l] \notin {"none", "exit"}
  BY DEF Dispatch, Read, CanSelect, CanRead, CanReadNothing, ReadFails, Write,
         CanWriteSelect, CanWriteChunk, Check
<1>3. l \in Index /\ Src(l) \in Index /\ Dst(l) \in Index
  <2>1. l \in Index /\ peer[l] \in Peer
    <3>1. peer \in Seq(Peer) /\ l \in 1 .. Len(peer)
      BY DEF Types, Links
    <3> QED
      BY <3>1
  <2>2. Src(l) <= ChIdx /\ Dst(l) <= ChIdx
    BY <1>2, <2>1 DEF Running
  <2>3. Src(l) \in Nat \ {0} /\ Dst(l) \in Nat \ {0}
    BY <2>1 DEF Peer, Src, Dst
  <2> QED
    BY <2>1, <2>2, <2>3
<1>4. \E p \in PcStates \ {"none"} : pc' = [pc EXCEPT ![l] = p]
  <2>1. CASE Read(l)
    BY <2>1 DEF Read, PcStates, Take
  <2>2. CASE CanSelect(l)
    BY <2>2 DEF CanSelect, PcStates
  <2>3. CASE CanRead(l)
    BY <2>3 DEF CanRead, PcStates, Take
  <2>4. CASE CanReadNothing(l)
    BY <2>4 DEF CanReadNothing, PcStates
  <2>5. CASE ReadFails(l)
    BY <2>5 DEF ReadFails, PcStates
  <2>6. CASE Write(l)
    BY <2>6 DEF Write, PcStates
  <2>7. CASE CanWriteSelect(l)
    <3>1. CASE left[l] = 0
      BY <2>7, <3>1 DEF CanWriteSelect, PcStates
    <3>2. CASE left[l] # 0
      BY <2>7, <3>2 DEF CanWriteSelect, PcStates
    <3> QED
      BY <3>1, <3>2
  <2>8. CASE CanWriteChunk(l)
    <3>1. CASE ring[Dst(l)] < RingCap
      BY <2>8, <3>1 DEF CanWriteChunk, PcStates
    <3>2. CASE ~(ring[Dst(l)] < RingCap)
      BY <2>8, <3>2 DEF CanWriteChunk, PcStates
    <3> QED
      BY <3>1, <3>2
  <2>9. CASE Check(l)
    BY <2>9 DEF Check, PcStates
  <2> QED
    BY <2>1, <2>2, <2>3, <2>4, <2>5, <2>6, <2>7, <2>8, <2>9 DEF Dispatch
<1>5. PICK p \in PcStates \ {"none"} : pc' = [pc EXCEPT ![l] = p]
  BY <1>4
<1>6. pc \in [Index -> PcStates]
  BY DEF Types
<1> HIDE DEF BInv
<1>7. pc' \in [Index -> PcStates] /\ pc'[l] # "none" /\ \A k \in Index : k # l => pc'[k] = pc[k]
  BY <1>3, <1>5, <1>6
<1> QED
  BY <1>1, <1>2, <1>3, <1>7

LEMMA ChunksType == \A m \in Message : Chunks(m) \in 0 .. 2
BY DEF Message, Chunks

LEMMA ThreadTypes ==
  ASSUME BInv, NEW l \in Links, Dispatch(l) \/ ReadFails(l)
  PROVE  Types'
<1>1. /\ UNCHANGED << config, line, main, at, ch, peer, fds >>
      /\ pc[l] \notin {"none", "exit"} /\ pc' \in [Index -> PcStates]
      /\ l \in Index /\ Src(l) \in Index /\ Dst(l) \in Index
  BY ThreadFrame
<1>2. /\ stop \in BOOLEAN
      /\ buf \in [Index -> Message \cup {"none"}] /\ left \in [Index -> 0 .. 2]
      /\ inq \in [Index -> Message \cup {"none"}] /\ ring \in [Index -> 0 .. RingCap]
      /\ after \in [Index -> Nat]
  BY DEF BInv, Types
<1> DEFINE Goal == /\ stop' \in BOOLEAN
                   /\ buf' \in [Index -> Message \cup {"none"}]
                   /\ left' \in [Index -> 0 .. 2]
                   /\ inq' \in [Index -> Message \cup {"none"}]
                   /\ ring' \in [Index -> 0 .. RingCap]
                   /\ after' \in [Index -> Nat]
<1>3. ASSUME Take(l), UNCHANGED << stop, ring >> PROVE Goal
  <2>1. inq[Src(l)] \in Message
    BY <1>1, <1>2, <1>3 DEF Take
  <2>2. Chunks(inq[Src(l)]) \in 0 .. 2
    BY <2>1, ChunksType
  <2>3. after' \in [Index -> Nat]
    BY <1>1, <1>2, <1>3 DEF Take, MayRead
  <2> QED
    BY <1>1, <1>2, <1>3, <2>1, <2>2, <2>3 DEF Take
<1>4. ASSUME Read(l) \/ CanRead(l) PROVE Goal
  BY <1>3, <1>4 DEF Read, CanRead
<1>5. ASSUME CanSelect(l) \/ CanReadNothing(l) \/ ReadFails(l) \/ CanWriteSelect(l) PROVE Goal
  BY <1>2, <1>5 DEF CanSelect, CanReadNothing, ReadFails, CanWriteSelect, io
<1>6. ASSUME Write(l) PROVE Goal
  BY <1>1, <1>2, <1>6 DEF Write, io
<1>7. ASSUME CanWriteChunk(l) PROVE Goal
  <2>1. left[l] \in 1 .. 2
    BY <1>2, <1>1, <1>7 DEF CanWriteChunk, BInv, RoomKept
  <2>2. CASE ring[Dst(l)] < RingCap
    <3>1. ring' = [ring EXCEPT ![Dst(l)] = @ + 1] /\ left' = [left EXCEPT ![l] = @ - 1]
      BY <1>7, <2>2 DEF CanWriteChunk
    <3>2. ring[Dst(l)] + 1 \in 0 .. RingCap /\ left[l] - 1 \in 0 .. 2
      BY <1>1, <1>2, <2>1, <2>2, BridgeFacts
    <3> QED
      BY <1>1, <1>2, <1>7, <3>1, <3>2 DEF CanWriteChunk
  <2>3. CASE ~(ring[Dst(l)] < RingCap)
    BY <1>2, <1>7, <2>3 DEF CanWriteChunk
  <2> QED
    BY <2>2, <2>3
<1>8. ASSUME Check(l) PROVE Goal
  BY <1>1, <1>2, <1>8 DEF Check, io
<1>9. Goal
  BY <1>4, <1>5, <1>6, <1>7, <1>8 DEF Dispatch
<1> QED
  BY <1>1, <1>9 DEF BInv, Types, Index

LEMMA ThreadOK ==
  ASSUME BInv, NEW l \in Links, Dispatch(l) \/ ReadFails(l)
  PROVE  BInv'
<1>1. /\ UNCHANGED << config, line, main, at, ch, peer, fds >>
      /\ pc[l] \notin {"none", "exit"}
      /\ l \in Index /\ Src(l) \in Index /\ Dst(l) \in Index
      /\ pc' \in [Index -> PcStates] /\ pc'[l] # "none"
      /\ \A k \in Index : k # l => pc'[k] = pc[k]
  BY ThreadFrame
<1>2. Types'
  BY ThreadTypes
<1>3. Links' = Links /\ Index' = Index /\ ChIdx' = ChIdx
      /\ \A k : Src(k)' = Src(k) /\ Dst(k)' = Dst(k)
  BY <1>1 DEF Links, Index, ChIdx, Src, Dst
<1>4. Running'
  <2>1. \A k \in Index : pc'[k] # "none" => k \in Links /\ peer[k].running
    BY <1>1 DEF BInv, Running
  <2>2. main \notin {"release", "done"}
    BY <1>1 DEF BInv, Running
  <2>3. main = "join" => ~(l < at)
    BY <1>1 DEF BInv, Running
  <2>4. Links \subseteq Index
    BY Bounds DEF BInv
  <2>5. main = "join" => \A k \in Links : k < at => pc'[k] \in {"none", "exit"}
    BY <1>1, <2>3, <2>4 DEF BInv, Running
  <2> QED
    BY <1>1, <1>3, <2>1, <2>2, <2>5 DEF BInv, Running
<1>5. Owned'
  BY <1>1, <1>3 DEF BInv, Owned
<1>6. RoomKept'
  <2>1. \A k \in Links : Shared(k)' <=> Shared(k)
    BY <1>1, <1>3 DEF Shared
  <2>2. /\ \A k \in Links : pc[k] = "chunk" => left[k] > 0 /\ (ring[Dst(k)] < RingCap \/ Shared(k))
        /\ \A k \in short : k \in Links /\ Shared(k)
    BY DEF BInv, RoomKept
  <2>3. /\ left \in [Index -> 0 .. 2] /\ ring \in [Index -> 0 .. RingCap]
        /\ pc \in [Index -> PcStates] /\ Links \subseteq Index
    BY Bounds DEF BInv, Types
  <2>4. ASSUME UNCHANGED << ring, short >>, pc'[l] # "chunk",
               \A k \in Index : k # l => left'[k] = left[k]
        PROVE  RoomKept'
    BY <1>1, <1>3, <2>1, <2>2, <2>3, <2>4 DEF RoomKept
  <2>5. CASE Read(l) \/ CanRead(l)
    BY <1>1, <2>3, <2>4, <2>5 DEF Read, CanRead, Take
  <2>6. CASE CanSelect(l) \/ CanReadNothing(l) \/ ReadFails(l)
    <3>1. UNCHANGED << ring, short, left >> /\ pc'[l] # "chunk"
      BY <1>1, <2>3, <2>6 DEF CanSelect, CanReadNothing, ReadFails, io
    <3> QED
      BY <2>4, <3>1
  <2>7. CASE Write(l)
    BY <1>1, <2>3, <2>4, <2>7 DEF Write, io
  <2>8. CASE Check(l)
    BY <1>1, <2>3, <2>4, <2>8 DEF Check, io
  <2>9. CASE CanWriteSelect(l)
    <3>1. UNCHANGED << ring, short, left >>
      BY <2>9 DEF CanWriteSelect, io
    <3>2. pc'[l] = "chunk" => left[l] > 0 /\ ring[Dst(l)] < RingCap
      BY <1>1, <2>3, <2>9 DEF CanWriteSelect
    <3> QED
      BY <1>1, <1>3, <2>1, <2>2, <2>3, <3>1, <3>2 DEF RoomKept
  <2>10. CASE CanWriteChunk(l)
    <3>1. CASE ring[Dst(l)] < RingCap
      <4>1. /\ ring' = [ring EXCEPT ![Dst(l)] = @ + 1]
            /\ left' = [left EXCEPT ![l] = @ - 1]
            /\ short' = short /\ pc'[l] = "write"
        BY <1>1, <2>3, <2>10, <3>1 DEF CanWriteChunk
      <4>2. ASSUME NEW k \in Links, pc'[k] = "chunk"
            PROVE  left'[k] > 0 /\ (ring'[Dst(k)] < RingCap \/ Shared(k))
        <5>1. k # l /\ pc[k] = "chunk" /\ left'[k] = left[k]
          BY <1>1, <2>3, <4>1, <4>2
        <5>2. CASE Dst(k) = Dst(l)
          <6>1. peer[l].running
            BY <1>1 DEF BInv, Running
          <6> QED
            BY <2>2, <5>1, <5>2, <6>1 DEF Shared
        <5>3. CASE Dst(k) # Dst(l)
          <6>1. ring'[Dst(k)] = ring[Dst(k)]
            BY <1>1, <2>3, <4>1, <5>3
          <6> QED
            BY <2>2, <5>1, <6>1
        <5> QED
          BY <5>2, <5>3
      <4> QED
        BY <1>3, <2>1, <2>2, <4>1, <4>2 DEF RoomKept
    <3>2. CASE ~(ring[Dst(l)] < RingCap)
      <4>1. /\ UNCHANGED << ring, left >> /\ short' = short \cup {l}
            /\ pc[l] = "chunk" /\ pc'[l] = "check"
        BY <1>1, <2>3, <2>10, <3>2 DEF CanWriteChunk
      <4>2. Shared(l)
        BY <2>2, <3>2, <4>1
      <4> QED
        BY <1>1, <1>3, <2>1, <2>2, <2>3, <4>1, <4>2 DEF RoomKept
    <3> QED
      BY <3>1, <3>2
  <2> QED
    BY <2>5, <2>6, <2>7, <2>8, <2>9, <2>10 DEF Dispatch
<1>7. LastMessage'
  <2>1. /\ \A k \in Index : after[k] <= 1 /\ (after[k] = 1 => stop /\ pc[k] \in {"write", "chunk", "check", "exit"})
        /\ after \in [Index -> Nat] /\ stop \in BOOLEAN /\ pc \in [Index -> PcStates]
    BY DEF BInv, Types, LastMessage
  <2>2. CASE Read(l) \/ CanRead(l)
    <3>1. Take(l) /\ stop' = stop /\ pc[l] \in {"read", "selected"}
      BY <2>2 DEF Read, CanRead
    <3>2. pc'[l] = "write" /\ after' = [after EXCEPT ![l] = IF stop /\ @ < 2 THEN @ + 1 ELSE @]
      BY <1>1, <2>1, <3>1 DEF Take, MayRead
    <3>3. after[l] = 0
      BY <1>1, <2>1, <3>1
    <3>4. after'[l] = (IF stop THEN 1 ELSE 0) /\ \A k \in Index : k # l => after'[k] = after[k]
      BY <1>1, <2>1, <3>2, <3>3
    <3> QED
      BY <1>1, <1>3, <2>1, <3>1, <3>2, <3>4 DEF LastMessage
  <2>3. ASSUME after' = after, stop => stop', 
               pc[l] \in {"write", "chunk", "check", "exit"} /\ stop
                 => pc'[l] \in {"write", "chunk", "check", "exit"}
        PROVE  LastMessage'
    BY <1>1, <1>3, <2>1, <2>3 DEF LastMessage
  <2>4. CASE CanSelect(l) \/ CanReadNothing(l) \/ ReadFails(l)
    <3>1. after' = after /\ stop' = stop /\ pc[l] \in {"read", "selected"}
      BY <2>4 DEF CanSelect, CanReadNothing, ReadFails
    <3> QED
      BY <2>3, <3>1
  <2>5. CASE Write(l)
    BY <1>1, <2>1, <2>3, <2>5 DEF Write
  <2>6. CASE CanWriteSelect(l)
    BY <1>1, <2>1, <2>3, <2>6 DEF CanWriteSelect
  <2>7. CASE CanWriteChunk(l)
    BY <1>1, <2>1, <2>3, <2>7 DEF CanWriteChunk
  <2>8. CASE Check(l)
    BY <1>1, <2>1, <2>3, <2>8 DEF Check
  <2> QED
    BY <2>2, <2>4, <2>5, <2>6, <2>7, <2>8 DEF Dispatch
<1> QED
  BY <1>2, <1>4, <1>5, <1>6, <1>7 DEF BInv

(***************************************************************************)
(* The end of main, and what comes from outside.                           *)
(***************************************************************************)

LEMMA JoinOK == BInv /\ Join => BInv'
<1> SUFFICES ASSUME BInv, Join PROVE BInv'
  OBVIOUS
<1> USE DEF BInv, io, threads
<1>1. main = "join" /\ at \in Nat \ {0} /\ Len(peer) \in Nat
  BY Bounds DEF Join, Types
<1>2. UNCHANGED << config, line, stop, ch, peer, pc, buf, left, fds, inq, ring, short, after >>
  BY DEF Join
<1>3. CASE at > Len(peer)
  <2>1. main' = "release" /\ at' = 1
    BY <1>3 DEF Join
  <2>2. Types'
    BY <1>2, <2>1 DEF Types, Index
  <2>3. \A l \in Links : pc[l] \in {"none", "exit"}
    BY <1>1, <1>3 DEF Running, Links
  <2>4. Running'
    BY <1>2, <2>1, <2>3 DEF Running, Links, Index, Src, Dst, ChIdx
  <2>5. Owned'
    BY <1>2, <2>1 DEF Owned, ChIdx, Types
  <2> QED
    BY <1>2, <2>2, <2>4, <2>5 DEF RoomKept, Shared, LastMessage, Links, Dst, Index
<1>4. CASE ~(at > Len(peer))
  <2>1. /\ main' = main /\ at' = at + 1
        /\ peer[at].running => pc[at] = "exit"
    BY <1>4 DEF Join
  <2>2. Types'
    BY <1>2, <2>1 DEF Types, Index
  <2>3. at \in Links /\ at \in Index
    BY <1>1, <1>4, Bounds DEF Links
  <2>4. pc[at] \in {"none", "exit"}
    BY <2>1, <2>3 DEF Running
  <2>5. \A l \in Links : l < at' => pc[l] \in {"none", "exit"}
    BY <1>1, <2>1, <2>4 DEF Running, Links
  <2>6. Running'
    BY <1>1, <1>2, <2>1, <2>5 DEF Running, Links, Index, Src, Dst, ChIdx
  <2>7. Owned'
    BY <1>1, <1>2, <2>1 DEF Owned, ChIdx
  <2> QED
    BY <1>2, <2>2, <2>6, <2>7 DEF RoomKept, Shared, LastMessage, Links, Dst, Index
<1> QED
  BY <1>3, <1>4

LEMMA ReleaseOK == BInv /\ ReleaseChannel => BInv'
<1> SUFFICES ASSUME BInv, ReleaseChannel PROVE BInv'
  OBVIOUS
<1> USE DEF BInv, threads
<1>1. main = "release" /\ at \in Nat \ {0} /\ ChIdx \in Nat
  BY Bounds DEF ReleaseChannel, Types
<1>2. UNCHANGED << config, line, stop, peer, pc, buf, left, inq, ring, short, after >>
  BY DEF ReleaseChannel
<1>3. fds \subseteq (Nat \ {0}) \X Kinds
  BY DEF Types
<1>4. CASE at > ChIdx
  <2>1. main' = "done" /\ UNCHANGED << at, ch, fds >>
    BY <1>4 DEF ReleaseChannel
  <2>2. Types'
    BY <1>2, <2>1 DEF Types, Index
  <2>3. Running'
    BY <1>1, <1>2, <2>1 DEF Running, Links, Index, Src, Dst, ChIdx
  <2>4. \A fd \in fds : fd[1] >= at /\ fd[1] <= ChIdx + 1 /\ fd[1] \in Nat
    BY <1>1, <1>3 DEF Owned
  <2>5. Owned'
    BY <1>1, <1>2, <1>4, <2>1, <2>4 DEF Owned, ChIdx
  <2> QED
    BY <1>2, <2>2, <2>3, <2>5 DEF RoomKept, Shared, LastMessage, Links, Dst, Index
<1>5. CASE ~(at > ChIdx)
  <2>1. /\ main' = main /\ at' = at + 1
        /\ ch' = [ch EXCEPT ![at].ready = FALSE]
        /\ fds' = {fd \in fds : fd[1] # at}
    BY <1>5 DEF ReleaseChannel
  <2>2. ch' \in Seq(Channel) /\ Len(ch') = Len(ch)
    <3>1. ch \in Seq(Channel) /\ at \in 1 .. Len(ch)
      BY <1>1, <1>5 DEF Types, ChIdx
    <3>2. ch[at] \in Channel
      BY <3>1
    <3>3. [ch[at] EXCEPT !.ready = FALSE] \in Channel
      BY <3>2 DEF Channel
    <3>4. ch' = [ch EXCEPT ![at] = [ch[at] EXCEPT !.ready = FALSE]]
      BY <2>1
    <3> QED
      BY <3>1, <3>3, <3>4
  <2>3. Types'
    BY <1>2, <2>1, <2>2 DEF Types, Index
  <2>4. Running'
    BY <1>1, <1>2, <2>1, <2>2 DEF Running, Links, Index, Src, Dst, ChIdx
  <2>5. \A fd \in fds' : fd \in fds /\ fd[1] >= at /\ fd[1] # at /\ fd[1] <= ChIdx + 1 /\ fd[1] \in Nat
    BY <1>1, <1>3, <2>1 DEF Owned
  <2>6. Owned'
    BY <1>1, <2>1, <2>2, <2>5 DEF Owned, ChIdx
  <2> QED
    BY <1>2, <2>3, <2>4, <2>6 DEF RoomKept, Shared, LastMessage, Links, Dst, Index
<1> QED
  BY <1>4, <1>5

LEMMA SigHandlerOK == BInv /\ SigHandler => BInv'
<1> SUFFICES ASSUME BInv, SigHandler PROVE BInv'
  OBVIOUS
<1> USE DEF BInv, SigHandler, system, threads, io
<1>1. Types' /\ Owned'
  BY DEF Types, Owned, ChIdx, Index
<1>2. Running'
  BY DEF Running, Links, Index, Src, Dst, ChIdx
<1>3. RoomKept' /\ LastMessage'
  BY DEF RoomKept, Shared, LastMessage, Links, Dst, Index
<1> QED
  BY <1>1, <1>2, <1>3

(* A message that arrives and a frame that leaves the ring take no room. *)
LEMMA OutsideOK ==
  ASSUME BInv, NEW i \in 1 .. ChIdx, Arrive(i) \/ ChipTransmit(i)
  PROVE  BInv'
<1> USE DEF BInv, system, threads
<1>1. /\ UNCHANGED << config, line, main, at, stop, ch, peer, pc, buf, left, fds, short, after >>
      /\ i \in Index
  BY Bounds DEF Arrive, ChipTransmit
<1>2. /\ inq' \in [Index -> Message \cup {"none"}]
      /\ ring' \in [Index -> 0 .. RingCap]
      /\ \A k \in Index : ring'[k] <= ring[k]
  <2>1. inq \in [Index -> Message \cup {"none"}] /\ ring \in [Index -> 0 .. RingCap]
        /\ RingCap \in Nat
    BY BridgeFacts DEF Types
  <2>2. CASE Arrive(i)
    BY <1>1, <2>1, <2>2 DEF Arrive
  <2>3. CASE ChipTransmit(i)
    <3>1. ring' = [ring EXCEPT ![i] = ring[i] - 1] /\ ring[i] > 0 /\ inq' = inq
      BY <2>3 DEF ChipTransmit
    <3>2. ring[i] - 1 \in 0 .. RingCap /\ ring[i] - 1 <= ring[i]
      BY <1>1, <2>1, <3>1
    <3> QED
      BY <1>1, <2>1, <3>1, <3>2
  <2> QED
    BY <2>2, <2>3
<1>3. Types'
  BY <1>1, <1>2 DEF Types, Index
<1>4. Running'
  BY <1>1 DEF Running, Links, Index, Src, Dst, ChIdx
<1>5. Owned' /\ LastMessage'
  BY <1>1 DEF Owned, LastMessage, ChIdx, Index
<1>6. RoomKept'
  <2>1. \A l \in Links : (Shared(l)' <=> Shared(l)) /\ Dst(l)' = Dst(l)
    BY <1>1 DEF Shared, Links, Dst
  <2>2. ASSUME NEW l \in Links, pc[l] = "chunk", ring[Dst(l)] < RingCap
        PROVE  ring'[Dst(l)] < RingCap
    <3>1. l \in 1 .. Len(peer) /\ peer \in Seq(Peer) /\ l \in Index
      BY Bounds DEF Types, Links
    <3>2. Dst(l) \in Nat \ {0} /\ Dst(l) <= ChIdx
      <4>1. peer[l] \in Peer
        BY <3>1
      <4> QED
        BY <2>2, <3>1, <4>1 DEF Running, Peer, Dst
    <3>3. Dst(l) \in Index
      BY <3>2, Bounds
    <3>4. ring[Dst(l)] \in Int /\ ring'[Dst(l)] \in Int /\ RingCap \in Int
      BY <1>2, <3>3, BridgeFacts DEF Types
    <3> QED
      BY <1>2, <2>2, <3>3, <3>4
  <2> QED
    BY <1>1, <2>1, <2>2 DEF RoomKept, Links
<1> QED
  BY <1>3, <1>4, <1>5, <1>6

LEMMA StepOK == BInv /\ [Next]_vars => BInv'
<1> SUFFICES ASSUME BInv, [Next]_vars PROVE BInv'
  OBVIOUS
<1>1. CASE Parse
  BY <1>1, ParseOK
<1>2. CASE Join \/ ReleaseChannel \/ SigHandler
  BY <1>2, JoinOK, ReleaseOK, SigHandlerOK
<1>3. CASE \E l \in Links : Dispatch(l) \/ ReadFails(l)
  BY <1>3, ThreadOK
<1>4. CASE \E i \in 1 .. ChIdx : Arrive(i) \/ ChipTransmit(i)
  BY <1>4, OutsideOK
<1>5. CASE UNCHANGED vars
  <2> USE <1>5 DEF BInv, vars, system, threads, io
  <2>1. Types' /\ Owned'
    BY DEF Types, Owned, ChIdx, Index
  <2>2. Running'
    BY DEF Running, Links, Index, Src, Dst, ChIdx
  <2>3. RoomKept' /\ LastMessage'
    BY DEF RoomKept, Shared, LastMessage, Links, Dst, Index
  <2> QED
    BY <2>1, <2>2, <2>3
<1> QED
  BY <1>1, <1>2, <1>3, <1>4, <1>5 DEF Next

LEMMA Invariance == Spec => []BInv
BY InitOK, StepOK, PTL DEF Spec

(***************************************************************************)
(* What follows for the properties.                                        *)
(***************************************************************************)

LEMMA TypesAreOK == Types => TypeOK
<1> SUFFICES ASSUME Types PROVE TypeOK
  OBVIOUS
<1>1. \A i \in 1 .. ChIdx : ch[i] \in Channel
  BY DEF Types, ChIdx
<1> QED
  BY <1>1 DEF Types, TypeOK, Channel, PcStates, Index

LEMMA UsedAreReady == BInv => ChannelsInUseAreReady
<1> SUFFICES ASSUME BInv, NEW l \in Links, pc[l] \notin {"none", "exit"}
             PROVE  Ready(Src(l)) /\ Ready(Dst(l))
  BY DEF ChannelsInUseAreReady
<1>1. l \in Index /\ l \in 1 .. Len(peer) /\ peer \in Seq(Peer)
  BY Bounds DEF BInv, Types, Links
<1>2. peer[l] \in Peer
  BY <1>1
<1>3. /\ Src(l) \in Nat \ {0} /\ Dst(l) \in Nat \ {0}
      /\ Src(l) <= ChIdx /\ Dst(l) <= ChIdx
  BY <1>1, <1>2 DEF BInv, Running, Peer, Src, Dst
<1>4. main \in {"parse", "join"}
  BY DEF BInv, Types, Running
<1>5. \A i \in 1 .. ChIdx : ch[i].ready
  BY <1>4 DEF BInv, Running
<1> QED
  BY <1>3, <1>5, Bounds DEF Ready, BInv

LEMMA NothingLeftOpen == BInv => DescriptorsClosed
<1> SUFFICES ASSUME BInv, main = "done", NEW fd \in fds
             PROVE  fd[1] = ChIdx + 1 /\ ~Ready(fd[1])
  BY DEF DescriptorsClosed
<1>1. fd[1] \in Nat /\ ChIdx \in Nat
  BY Bounds DEF BInv, Types
<1>2. fd[1] > ChIdx /\ fd[1] <= ChIdx + 1
  BY DEF BInv, Owned
<1> QED
  BY <1>1, <1>2 DEF Ready

(* A thread runs on two channels that are open, whatever the configuration,
   the lines that fail and the order in which threads end; and when main is
   done only a CAN channel whose initialisation failed halfway has descriptors
   left. *)
THEOREM ChannelsHandledAlways == Spec => []ChannelsHandled
<1>1. BInv => ChannelsHandled
  BY TypesAreOK, UsedAreReady, NothingLeftOpen DEF BInv, ChannelsHandled
<1> QED
  BY <1>1, Invariance, PTL

(* The room that select() promises to a link is still there at its write(), as
   long as no other link writes to the same channel: CanWrite gives up a
   message only of a link that shares its output. *)
THEOREM SoleWriter == Spec => []SoleWriterLosesNothing
<1>1. BInv => SoleWriterLosesNothing
  BY DEF BInv, RoomKept, Shared, SoleWriterLosesNothing
<1> QED
  BY <1>1, Invariance, PTL

(* A thread that was waiting for its input when stop was set forwards that one
   message and ends, with any number of links. *)
THEOREM StopHeeded == Spec => []OneMessageAfterStop
<1>1. BInv => OneMessageAfterStop
  BY Bounds DEF BInv, LastMessage, OneMessageAfterStop
<1> QED
  BY <1>1, Invariance, PTL

=============================================================================
