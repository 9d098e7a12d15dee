---------------------------- MODULE NsSioAttach ----------------------------
(***************************************************************************)
(* How the NS16550 driver finds its channels at boot.                      *)
(*                                                                         *)
(* VxBus offers the driver its devices one after the other (the on-chip    *)
(* ones of the PLB before a PCI board).  For every base address of a       *)
(* device, as corrected for the boards that need it, the driver allocates  *)
(* a channel and gives it a number.  Then every number is connected: the   *)
(* bus asks all devices, in turn, who has it.                              *)
(***************************************************************************)
EXTENDS Integers, Sequences, FiniteSets, FiniteSetsExt, SequencesExt

CONSTANTS
  PlbUnits,   \* on-chip UARTs, numbered from 0
  PciBoards   \* what the PCI bus may hold

AttachConstants == PlbUnits \in Nat /\ "plb" \notin PciBoards

ASSUME AttachAssumption == AttachConstants

Bars == 0 .. 9            \* VXB_MAXBARS
Null == [bar |-> -1, off |-> 0]
At(bar, off) == [bar |-> bar, off |-> off]

VARIABLES
  board,      \* the PCI board
  dev, bar,   \* where ns16550vxbInstInit is
  chains,     \* pDrvCtrl of each device: its channels, the newest first
  nextNo,     \* what sioNextChannelNumberAssign returns next
  failed,     \* devices given up half-way
  asked,      \* numbers connected so far
  connected,  \* channels whose interrupt was connected
  booted      \* all numbers were connected

attachVars == << board, dev, bar, chains, nextNo, failed, asked, connected, booted >>

(* The devices in the order VxBus offers them. *)
Devices == 1 .. PlbUnits + 1
Kind(d) == IF d <= PlbUnits THEN "plb" ELSE board
Unit(d) == d - 1

AttachInit ==
  /\ board \in PciBoards
  /\ dev = 1 /\ bar = 0
  /\ chains = [d \in Devices |-> << >>]
  /\ nextNo = 0 /\ failed = {} /\ asked = {} /\ connected = {}
  /\ booted = FALSE

(***************************************************************************)
(* ns16550vxbInstInit.                                                     *)
(***************************************************************************)
Without(bases, S) == [i \in Bars |-> IF i \in S THEN Null ELSE bases[i]]

(* The base addresses the bus knows. *)
RawBars(kind) == IF kind = "plb" THEN {0} ELSE 0 .. 5

(* pRegBase as the board needs it: which addresses are UARTs, and how many
   UARTs share a base address. *)
RegBase(kind) ==
  LET raw == [i \in Bars |-> IF i \in RawBars(kind) THEN At(i, 0) ELSE Null]
  IN  CASE kind = "ESD1001"  -> Without(raw, {0, 2, 3, 4, 5})
        [] kind = "ESD1002"  -> Without(raw, {0, 3, 4, 5})
        [] kind = "ESD1004"  -> Without(raw, 0 .. 5)
        [] kind = "IC0607KB" -> [raw EXCEPT ![1] = At(0, 8)]
        [] kind = "LF659KB"  -> Without(raw, {0, 2, 3, 4})
        [] kind = "LF653KB"  -> [Without(raw, {0, 2}) EXCEPT
                                     ![3] = At(1, 32), ![4] = At(1, 64), ![5] = At(1, 96)]
        [] kind = "LF662KB1" -> [Without(raw, {0, 2}) EXCEPT
                                     ![3] = At(1, 1024), ![4] = At(1, 2048), ![5] = At(1, 3072)]
        [] kind = "PR6120"   -> [Without(raw, 4 .. 9) EXCEPT
                                     ![1] = At(0, 8), ![2] = At(0, 16), ![3] = At(0, 24)]
        [] OTHER -> raw

Layout == [kind \in PciBoards \cup {"plb"} |-> RegBase(kind)]

RegDelta(d) == IF Kind(d) \in {"LF659KB", "LF653KB", "LF662KB1"} THEN 4 ELSE 1

(* ns16550vxbDevProbe takes the word of the bus, but for boards known to have
   two UARTs. *)
DevProbe(d, i) == Kind(d) \in {"CompUSA", "IC0607KB"} => i <= 1

IsUart(d, i) == Layout[Kind(d)][i] # Null /\ DevProbe(d, i)

Attaching == dev \in Devices

NextDevice == dev' = dev + 1 /\ bar' = 0
NextBar    == IF bar < 9 THEN bar' = bar + 1 /\ dev' = dev ELSE NextDevice

SkipBar ==
  /\ Attaching /\ ~IsUart(dev, bar)
  /\ NextBar
  /\ UNCHANGED << board, chains, nextNo, failed, asked, connected, booted >>

(* The structure cannot be allocated, or the hardware configuration of a PLB
   device has no entry or no clock: the device keeps the channels it has. *)
AttachFails ==
  /\ Attaching /\ IsUart(dev, bar)
  /\ failed' = failed \cup {dev}
  /\ NextDevice
  /\ UNCHANGED << board, chains, nextNo, asked, connected, booted >>

(* Mutant: a PLB channel, which has a number of its own, draws none. *)
MutDrawn(d, n) == IF Kind(d) = "plb" THEN n ELSE n + 1

(* sioNextChannelNumberAssign after channel n. *)
Drawn(d, n) == n + 1

(* A PLB channel is called after its unit; the number it drew is lost. *)
ChannelNo(d, n) == IF Kind(d) = "plb" THEN Unit(d) ELSE n

AttachChannel ==
  /\ Attaching /\ IsUart(dev, bar)
  /\ LET chan == [no |-> ChannelNo(dev, nextNo), dev |-> dev, regIndex |-> bar]
     IN  chains' = [chains EXCEPT ![dev] = << chan >> \o @]
  /\ nextNo' = Drawn(dev, nextNo)
  /\ NextBar
  /\ UNCHANGED << board, failed, asked, connected, booted >>

InstInit == SkipBar \/ AttachFails \/ AttachChannel

(***************************************************************************)
(* Numbers and channels.                                                   *)
(***************************************************************************)
Channels == UNION { ToSet(chains[d]) : d \in Devices }
Numbers  == { c.no : c \in Channels }

(* The channel of a device that has a number: the first of its chain. *)
Of(d, n)  ==
  LET chain == chains[d]
  IN  chain[CHOOSE i \in DOMAIN chain :
              chain[i].no = n /\ \A j \in 1 .. i - 1 : chain[j].no # n]
Owners(n) == { d \in Devices : n \in { c.no : c \in ToSet(chains[d]) } }

(* ns16550vxbSioChanGet is asked of every device, and the last answer stands. *)
SioChanGet(n) == Of(Max(Owners(n)), n)

(* ns16550vxbSioChanConnect is asked of every device, and the first that has
   the number connects it. *)
SioChanConnect(n) ==
  /\ asked' = asked \cup {n}
  /\ connected' = connected \cup {Of(Min(Owners(n)), n)}

ConnectAll ==
  /\ ~Attaching /\ ~booted
  /\ \E n \in Numbers \ asked :
        /\ \A m \in Numbers \ asked : n <= m
        /\ SioChanConnect(n)
  /\ booted' = (asked' = Numbers)
  /\ UNCHANGED << board, dev, bar, chains, nextNo, failed >>

AttachNext == InstInit \/ ConnectAll

(***************************************************************************)
(* Properties.                                                             *)
(***************************************************************************)
AttachTypeOK ==
  /\ board \in PciBoards
  /\ dev \in 1 .. PlbUnits + 2 /\ bar \in Bars
  /\ DOMAIN chains = Devices
  /\ \A c \in Channels : c.no \in Nat /\ Layout[Kind(c.dev)][c.regIndex] # Null
  /\ nextNo \in Nat
  /\ failed \subseteq Devices
  /\ asked \subseteq Numbers /\ connected \subseteq Channels
  /\ booted \in BOOLEAN

(* No two channels of a device share a register (a UART has eight). *)
RegistersApart ==
  \A d \in Devices : \A c1, c2 \in ToSet(chains[d]) :
     LET reg1 == Layout[Kind(d)][c1.regIndex]
         reg2 == Layout[Kind(d)][c2.regIndex]
         size == 8 * RegDelta(d)
     IN  c1 # c2 /\ reg1.bar = reg2.bar => reg1.off + size <= reg2.off
                                            \/ reg2.off + size <= reg1.off

(* Who asks for a channel by its number gets one whose interrupt is connected,
   unless a PLB device failed to attach: then the numbers after it are given
   twice, the first channel is connected and the last is returned. *)
GotIsConnected ==
  booted /\ (\A d \in failed : Kind(d) # "plb") =>
     \A c \in Channels : c \in connected /\ SioChanGet(c.no) = c

(* Every channel that was found has registers, a number and an interrupt of
   its own. *)
ChannelsFound == AttachTypeOK /\ RegistersApart /\ GotIsConnected
=============================================================================
