------------------------------- MODULE Bridge -------------------------------
(***************************************************************************)
(* demo/main.c: a configuration names serial, CAN and UDP channels and     *)
(* links from one to another; a thread per link copies every message from  *)
(* its input to its output until one of them reads "!STOP", SIGINT comes   *)
(* or its input fails; main joins the threads and releases the channels.   *)
(*                                                                         *)
(* The threads run while main still parses.  A CAN channel is written in   *)
(* chunks of 8 bytes, each after a select() of its own, into the output    *)
(* ring CanTx is about, and read by select() and read(); serial and UDP    *)
(* channels take and give a message in one call.                           *)
(***************************************************************************)
EXTENDS Integers, Sequences, FiniteSets

CONSTANTS
  Configs,    \* configurations: sequences of lines
  MaxLinks,   \* bound: links of a configuration
  RingCap,    \* frames the output ring of a CAN channel holds
  Failures    \* what may fail: subset of {"open", "config", "thread", "read"}

(* A line opens a channel or links two, by their index from 0; "bad" does not
   parse. *)
Line == [type : {"CAN", "SERIAL", "UDP"}, baud : Nat]
          \cup [type : {"LINK"}, src : Nat, dst : Nat] \cup [type : {"bad"}]

BridgeConstants ==
  /\ \A c \in Configs : c \in Seq(Line)
  /\ {MaxLinks, RingCap} \subseteq Nat \ {0}
  /\ Failures \subseteq {"open", "config", "thread", "read"}

ASSUME BridgeAssumption == BridgeConstants

(* Messages, and the chunks of 8 bytes up to their first NUL. *)
Message == {"text", "long", "binary", "!STOP"}
Chunks(message) ==
  CASE message = "long"   -> 2
    [] message = "binary" -> 0
    [] OTHER              -> 1

VARIABLES
  config, line,   \* the configuration and the line main parses
  main,           \* "parse", "join", "release" or "done"
  at,             \* the thread main joins, the channel it releases
  stop,
  \* ch[], peer[]
  ch,             \* opened channels, in order: type and ready
  peer,           \* links, in order: src, dst, running
  pc, buf, left,  \* of each link's thread: where it is in Dispatch, what it
                  \* read, chunks CanWrite has still to write
  \* I/O system
  fds,            \* open descriptors, << channel, kind >>
  inq,            \* a message waits at the channel's input, or "none"
  ring,           \* frames in a CAN channel's output ring
  \* histories
  short,          \* links of which CanWrite gave up a message
  after           \* messages a thread read after stop was set

system  == << config, line, main, at >>
threads == << pc, buf, left >>
io      == << fds, inq, ring >>
vars == << system, stop, ch, peer, threads, io, short, after >>

Links == 1 .. Len(peer)
Slots(set) == [l \in 1 .. Len(config) |-> set]
ChIdx == Len(ch)

Src(l) == peer[l].src + 1
Dst(l) == peer[l].dst + 1

Init ==
  /\ config \in Configs /\ line = 1 /\ main = "parse" /\ at = 1
  /\ stop = FALSE
  /\ ch = << >> /\ peer = << >>
  /\ pc = Slots("none") /\ buf = Slots("none") /\ left = Slots(0)
  /\ fds = {} /\ inq = Slots("none") /\ ring = Slots(0)
  /\ short = {} /\ after = Slots(0)

(***************************************************************************)
(* ParseConfig.  A line that fails ends it, and main goes on.              *)
(***************************************************************************)
Parsing(type) ==
  /\ main = "parse"
  /\ line <= Len(config)
  /\ config[line].type = type

NextLine == line' = line + 1 /\ UNCHANGED << config, main, at >>
GiveUp   == main' = "join" /\ UNCHANGED << config, line, at >>

AddChannel(kinds) ==
  /\ ch' = Append(ch, [type |-> config[line].type, ready |-> TRUE])
  /\ fds' = fds \cup {<< ChIdx + 1, kind >> : kind \in kinds}
  /\ NextLine

(* A channel of one descriptor: what fails leaves none. *)
OpenPlain ==
  /\ \/ AddChannel({"fd"})
     \/ "open" \in Failures /\ GiveUp /\ UNCHANGED << ch, fds >>
  /\ UNCHANGED << stop, peer, threads, inq, ring, short, after >>

(* InitSerialChannel; the ioctl() calls that follow its open() are not looked at. *)
OpenSerial == Parsing("SERIAL") /\ OpenPlain

(* InitUdpChannel, which closes its socket if the bind fails. *)
OpenUdp == Parsing("UDP") /\ OpenPlain

(* UpdateBaudRate: 8 MHz and 8 quanta to a bit, an UCHAR for brp, of which
   SJA1000_SetBitTiming takes 6 bits. *)
Brp(baud) == ((1000000 \div baud) - 1) % 256
BaudFails == Brp(config[line].baud) > 63

(* InitCanChannel. *)
OpenCan ==
  /\ Parsing("CAN")
  /\ ~BaudFails
  /\ AddChannel({"ctr", "tx", "rx"})
  /\ UNCHANGED << stop, peer, threads, inq, ring, short, after >>

(* Every error return after the first leaves the descriptors opened before;
   the UCHAR of a rate that cannot be set makes WNCAN_CONFIG_SET fail. *)
OpenCanFails ==
  /\ Parsing("CAN")
  /\ \E left_open \in {{}, {"ctr"}, {"ctr", "tx"}, {"ctr", "tx", "rx"}} :
       /\ IF BaudFails THEN left_open = {"ctr"}
          ELSE IF left_open = {} THEN "open" \in Failures
          ELSE "config" \in Failures
       /\ fds' = fds \cup {<< ChIdx + 1, kind >> : kind \in left_open}
  /\ GiveUp
  /\ UNCHANGED << stop, ch, peer, threads, inq, ring, short, after >>

Ready(i) == i <= ChIdx /\ ch[i].ready

(* Mutant: only the input is checked. *)
MutLink ==
  /\ Parsing("LINK")
  /\ LET src == config[line].src
         dst == config[line].dst
         ok  == Ready(src + 1)
     IN  /\ peer' = Append(peer, [src |-> src, dst |-> dst, running |-> ok])
         /\ pc' = IF ok THEN [pc EXCEPT ![Len(peer) + 1] = "read"] ELSE pc
  /\ NextLine
  /\ UNCHANGED << stop, ch, buf, left, io, short, after >>

(* ParseLinkOpt and LinkIOChannel: the link counts whether or not it runs. *)
Link ==
  /\ Parsing("LINK")
  /\ LET src == config[line].src
         dst == config[line].dst
         ok  == Ready(src + 1) /\ Ready(dst + 1)
     IN  /\ peer' = Append(peer, [src |-> src, dst |-> dst, running |-> ok])
         /\ pc' = IF ok THEN [pc EXCEPT ![Len(peer) + 1] = "read"] ELSE pc
  /\ NextLine
  /\ UNCHANGED << stop, ch, buf, left, io, short, after >>

(* pthread_create fails: this link, too, counts and does not run. *)
LinkNoThread ==
  /\ Parsing("LINK")
  /\ "thread" \in Failures
  /\ peer' = Append(peer, [src |-> config[line].src, dst |-> config[line].dst,
                           running |-> FALSE])
  /\ NextLine
  /\ UNCHANGED << stop, ch, threads, io, short, after >>

BadLine ==
  /\ Parsing("bad")
  /\ GiveUp
  /\ UNCHANGED << stop, ch, peer, threads, io, short, after >>

ParseEnd ==
  /\ main = "parse" /\ line > Len(config)
  /\ GiveUp
  /\ UNCHANGED << stop, ch, peer, threads, io, short, after >>

Parse == OpenSerial \/ OpenUdp \/ OpenCan \/ OpenCanFails
         \/ Link \/ LinkNoThread \/ BadLine \/ ParseEnd

(***************************************************************************)
(* Dispatch, one thread per link.                                          *)
(***************************************************************************)
(* Counted up to 2. *)
MayRead(l) == after' = [after EXCEPT ![l] = IF stop /\ @ < 2 THEN @ + 1 ELSE @]

(* SerialRead and UdpRead, and read() on the message select() announced. *)
Take(l) ==
  /\ inq[Src(l)] # "none"
  /\ buf' = [buf EXCEPT ![l] = inq[Src(l)]]
  /\ left' = [left EXCEPT ![l] = Chunks(inq[Src(l)])]
  /\ inq' = [inq EXCEPT ![Src(l)] = "none"]
  /\ pc' = [pc EXCEPT ![l] = "write"]
  /\ MayRead(l)

Read(l) ==
  /\ pc[l] = "read"
  /\ ch[Src(l)].type # "CAN"
  /\ Take(l)
  /\ UNCHANGED << system, stop, ch, peer, fds, ring, short >>

CanSelect(l) ==
  /\ pc[l] = "read"
  /\ ch[Src(l)].type = "CAN"
  /\ inq[Src(l)] # "none"
  /\ pc' = [pc EXCEPT ![l] = "selected"]
  /\ UNCHANGED << system, stop, ch, peer, buf, left, io, short, after >>

CanRead(l) ==
  /\ pc[l] = "selected"
  /\ Take(l)
  /\ UNCHANGED << system, stop, ch, peer, fds, ring, short >>

(* Another link of the same input was faster: read() returns 0. *)
CanReadNothing(l) ==
  /\ pc[l] = "selected"
  /\ inq[Src(l)] = "none"
  /\ pc' = [pc EXCEPT ![l] = IF stop THEN "exit" ELSE "read"]
  /\ UNCHANGED << system, stop, ch, peer, buf, left, io, short, after >>

(* n < 0. *)
ReadFails(l) ==
  /\ "read" \in Failures
  /\ pc[l] = "read"
  /\ pc' = [pc EXCEPT ![l] = "exit"]
  /\ UNCHANGED << system, stop, ch, peer, buf, left, io, short, after >>

(* SerialWrite and UdpWrite. *)
Write(l) ==
  /\ pc[l] = "write"
  /\ ch[Dst(l)].type # "CAN"
  /\ left' = [left EXCEPT ![l] = 0]
  /\ pc' = [pc EXCEPT ![l] = "check"]
  /\ UNCHANGED << system, stop, ch, peer, buf, io, short, after >>

(* CanWrite: select() returns when the ring has room. *)
CanWriteSelect(l) ==
  /\ pc[l] = "write"
  /\ ch[Dst(l)].type = "CAN"
  /\ IF left[l] = 0 THEN pc' = [pc EXCEPT ![l] = "check"]
     ELSE /\ ring[Dst(l)] < RingCap
          /\ pc' = [pc EXCEPT ![l] = "chunk"]
  /\ UNCHANGED << system, stop, ch, peer, buf, left, io, short, after >>

(* Mutant: select() once for the message, not for every chunk. *)
MutCanWriteChunk(l) ==
  /\ pc[l] = "chunk"
  /\ IF ring[Dst(l)] < RingCap
     THEN /\ ring' = [ring EXCEPT ![Dst(l)] = @ + 1]
          /\ left' = [left EXCEPT ![l] = @ - 1]
          /\ pc' = IF left[l] = 1 THEN [pc EXCEPT ![l] = "check"] ELSE pc
          /\ UNCHANGED short
     ELSE /\ pc' = [pc EXCEPT ![l] = "check"]
          /\ short' = short \cup {l}
          /\ UNCHANGED << ring, left >>
  /\ UNCHANGED << system, stop, ch, peer, buf, fds, inq, after >>

(* write(): a full ring takes nothing, and CanWrite gives the message up. *)
CanWriteChunk(l) ==
  /\ pc[l] = "chunk"
  /\ IF ring[Dst(l)] < RingCap
     THEN /\ ring' = [ring EXCEPT ![Dst(l)] = @ + 1]
          /\ left' = [left EXCEPT ![l] = @ - 1]
          /\ pc' = [pc EXCEPT ![l] = "write"]
          /\ UNCHANGED short
     ELSE /\ pc' = [pc EXCEPT ![l] = "check"]
          /\ short' = short \cup {l}
          /\ UNCHANGED << ring, left >>
  /\ UNCHANGED << system, stop, ch, peer, buf, fds, inq, after >>

(* Mutant: a thread heeds only the "!STOP" it read itself. *)
MutCheck(l) ==
  /\ pc[l] = "check"
  /\ stop' = (stop \/ buf[l] = "!STOP")
  /\ pc' = [pc EXCEPT ![l] = IF buf[l] = "!STOP" THEN "exit" ELSE "read"]
  /\ buf' = [buf EXCEPT ![l] = "none"]
  /\ UNCHANGED << system, ch, peer, left, io, short, after >>

Check(l) ==
  /\ pc[l] = "check"
  /\ stop' = (stop \/ buf[l] = "!STOP")
  /\ pc' = [pc EXCEPT ![l] = IF stop' THEN "exit" ELSE "read"]
  /\ buf' = [buf EXCEPT ![l] = "none"]
  /\ left' = [left EXCEPT ![l] = 0]
  /\ UNCHANGED << system, ch, peer, io, short, after >>

Dispatch(l) ==
  \/ Read(l) \/ CanSelect(l) \/ CanRead(l) \/ CanReadNothing(l)
  \/ Write(l) \/ CanWriteSelect(l) \/ CanWriteChunk(l) \/ Check(l)

(***************************************************************************)
(* The end of main, and what comes from outside.                           *)
(***************************************************************************)

Join ==
  /\ main = "join"
  /\ IF at > Len(peer) THEN main' = "release" /\ at' = 1
     ELSE /\ peer[at].running => pc[at] = "exit"
          /\ at' = at + 1 /\ UNCHANGED main
  /\ UNCHANGED << config, line, stop, ch, peer, threads, io, short, after >>

(* ReleaseSerialChannel, ReleaseCanChannel and ReleaseUdpChannel. *)
ReleaseChannel ==
  /\ main = "release"
  /\ IF at > ChIdx THEN main' = "done" /\ UNCHANGED << at, ch, fds >>
     ELSE /\ ch' = [ch EXCEPT ![at].ready = FALSE]
          /\ fds' = {fd \in fds : fd[1] # at}
          /\ at' = at + 1 /\ UNCHANGED main
  /\ UNCHANGED << config, line, stop, peer, threads, inq, ring, short, after >>

(* The handler is installed after the configuration is parsed. *)
SigHandler ==
  /\ main \notin {"parse", "done"}
  /\ stop' = TRUE
  /\ UNCHANGED << system, ch, peer, threads, io, short, after >>

(* Where nobody reads, what arrives is of no consequence. *)
Arrive(i) ==
  /\ ch[i].ready
  /\ \E l \in Links : Src(l) = i
  /\ inq[i] = "none"
  /\ \E message \in Message : inq' = [inq EXCEPT ![i] = message]
  /\ UNCHANGED << system, stop, ch, peer, threads, fds, ring, short, after >>

ChipTransmit(i) ==
  /\ ring[i] > 0
  /\ ring' = [ring EXCEPT ![i] = @ - 1]
  /\ UNCHANGED << system, stop, ch, peer, threads, fds, inq, short, after >>

Next ==
  \/ Parse \/ Join \/ ReleaseChannel \/ SigHandler
  \/ \E l \in Links : Dispatch(l) \/ ReadFails(l)
  \/ \E i \in 1 .. ChIdx : Arrive(i) \/ ChipTransmit(i)

(* Threads and main run; nothing is assumed of the network, the bus or the
   operator. *)
Fairness ==
  /\ WF_vars(Parse \/ Join \/ ReleaseChannel)
  /\ \A l \in 1 .. MaxLinks : WF_vars(l \in Links /\ Dispatch(l))

Spec == Init /\ [][Next]_vars /\ Fairness

(***************************************************************************)
(* Properties                                                              *)
(***************************************************************************)

(* The variables hold values of their kinds. *)
TypeOK ==
  /\ main \in {"parse", "join", "release", "done"}
  /\ \A i \in 1 .. ChIdx : ch[i] \in [type : {"CAN", "SERIAL", "UDP"}, ready : BOOLEAN]
  /\ \A l \in 1 .. Len(config) :
       /\ pc[l] \in {"none", "read", "selected", "write", "chunk", "check", "exit"}
       /\ buf[l] \in Message \cup {"none"}
       /\ left[l] \in 0 .. 2
       /\ inq[l] \in Message \cup {"none"}
       /\ ring[l] \in 0 .. RingCap

(* A thread runs on two channels that are there: a link to a channel that is
   not open does not run, and main releases no channel before every thread
   has ended. *)
ChannelsInUseAreReady ==
  \A l \in Links : pc[l] \notin {"none", "exit"} => Ready(Src(l)) /\ Ready(Dst(l))

(* CanWrite asks select() before every chunk, so a message is given up halfway
   only if another link writes to the same channel: it may fill the ring
   between select() and write(). *)
SoleWriterLosesNothing ==
  \A l \in short : \E k \in Links \ {l} : peer[k].running /\ Dst(k) = Dst(l)

(* Once stop is set no thread forwards more than the one message it was
   waiting for. *)
OneMessageAfterStop == \A l \in Links : after[l] <= 1

(* When main is done every descriptor of every channel is closed, except those
   of the CAN channel whose initialisation failed halfway. *)
DescriptorsClosed ==
  main = "done" => \A fd \in fds : fd[1] = ChIdx + 1 /\ ~Ready(fd[1])

(* From the first use of a channel to the end of the program: used channels
   are open, and nothing stays open that was used. *)
ChannelsHandled == TypeOK /\ ChannelsInUseAreReady /\ DescriptorsClosed

(* The input of every thread goes on delivering, and the rings drain. *)
InputsDeliver ==
  \A l \in 1 .. MaxLinks :
    []<>(l \in Links => pc[l] \in {"none", "exit"} \/ inq[Src(l)] # "none")
RingsDrain == \A i \in 1 .. MaxLinks + 1 : []<>(i <= ChIdx => ring[i] < RingCap)

(* stop ends the program, provided that every input goes on delivering - a
   thread that waits for its input does not see stop, and main waits for the
   thread - and that every output ring drains. *)
StopEnds ==
  InputsDeliver /\ RingsDrain => ((stop /\ main # "parse") ~> main = "done")
=============================================================================
