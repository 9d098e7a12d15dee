----------------------------- MODULE GeiFilter -----------------------------
(***************************************************************************)
(* What the PRO/1000 END driver lets through from the wire: the station    *)
(* address, promiscuous and all-multicast mode, and the multicast          *)
(* subscriptions, kept in perfect-match slots and, beyond those, in a hash *)
(* table.  VLAN tag stripping, set by the same commands, is here as well.  *)
(*                                                                         *)
(* geiDevSem serialises the commands, starting and stopping; frames arrive *)
(* between any two register writes.  A write to the low or high half of a  *)
(* multicast slot is one step: no address it could match is ever in use.   *)
(***************************************************************************)
EXTENDS Naturals, FiniteSets, Sequences, SequencesExt

CONSTANTS
  Stations,   \* station addresses, each a pair of what PARL and PARH hold
  Groups,     \* multicast addresses
  Hash,       \* the hash table register and bit of each group
  Bits,       \* the bits of a hash table register
  ParCnt,     \* GEI_PAR_CNT
  MarCnt,     \* GEI_MAR_CNT
  Chips,      \* whether the chip has the erratum of the 82544
  MaxRefs,    \* bound: subscriptions to each group at a time
  MaxMisled   \* bound: groups named in commands that do nothing

Regs == 0 .. MarCnt - 1
Slots == 1 .. ParCnt - 1
Nothing == "nothing"     \* an empty slot: no group's address

(* What is assumed of the constants. *)
FilterConstants ==
  /\ ParCnt \in Nat /\ ParCnt > 0
  /\ MarCnt \in Nat /\ MarCnt > 0
  /\ Stations # {} /\ \A a \in Stations : a = << a[1], a[2] >>
  /\ Nothing \notin Groups
  /\ Hash \in [Groups -> Regs \X Bits]
  /\ Chips \subseteq BOOLEAN
  /\ MaxRefs \in [Groups -> Nat] /\ MaxMisled \in Nat

ASSUME FilterAssumption == FilterConstants

VARIABLES
  up,         \* IFF_UP
  flags,      \* IFF_PROMISC and IFF_ALLMULTI
  geiAddr,    \* the station address
  multiList,  \* the subscribed groups in list order
  refs,       \* subscriptions to each group (ETHER_MULTI)
  nMulti,
  vlan,       \* cap_enabled has IFCAP_VLAN_HWTAGGING
  step,       \* the register written next under geiDevSem, or "idle"
  at,         \* its index
  tmp,        \* the even hash register saved by geiEndHashTblPopulate
  starting,   \* geiEndStart goes on after the filter is set
  \* the chip
  erratum,    \* a write to an odd hash register may corrupt the one before
  par,        \* the multicast slots: a group, or nothing
  par0,       \* PARL0 and PARH0
  mar,        \* the hash table
  rctl,       \* of RCTL: EN, BAM, UPE and MPE
  vme,        \* CTRL.VME
  \* histories
  asked,      \* subscriptions the clients hold, as they were answered
  misled      \* groups with a command answered OK that did nothing

softVars == << flags, geiAddr, multiList, refs, nMulti, vlan >>
chipVars == << erratum, par, par0, mar, rctl, vme >>
workVars == << step, at, tmp, starting >>
askVars  == << asked, misled >>
vars == << up, softVars, workVars, chipVars, askVars >>

Init ==
  /\ up = FALSE
  /\ flags = {} /\ geiAddr \in Stations
  /\ multiList = << >> /\ refs = [g \in Groups |-> 0] /\ nMulti = 0
  /\ vlan \in BOOLEAN
  /\ step = "idle" /\ at = 0 /\ tmp = {} /\ starting = FALSE
  /\ erratum \in Chips
  /\ par = [i \in Slots |-> Nothing] /\ par0 = geiAddr
  /\ mar = [r \in Regs |-> {}]
  /\ rctl = {} /\ vme = FALSE
  /\ asked = [g \in Groups |-> 0] /\ misled = {}

Idle == step = "idle"     \* geiDevSem is free

(***************************************************************************)
(* Starting and stopping.                                                  *)
(***************************************************************************)

(* geiReset puts RCTL and CTRL back; the filter memories may survive it. *)
ResetFilter ==
  /\ \/ UNCHANGED << par, mar >>
     \/ /\ par' = [i \in Slots |-> Nothing]
        /\ mar' = [r \in Regs |-> {}]
  /\ UNCHANGED << erratum, par0 >>

Start ==
  /\ Idle /\ ~up
  /\ ResetFilter
  /\ vme' = vlan
  /\ rctl' = {}
  /\ starting' = TRUE /\ step' = "low"
  /\ UNCHANGED << up, softVars, at, tmp, askVars >>

(* The pool has no buffer for the receive ring. *)
StartFails ==
  /\ Idle /\ ~up
  /\ ResetFilter
  /\ vme' = FALSE /\ rctl' = {}
  /\ UNCHANGED << up, softVars, workVars, askVars >>

StartEnable ==
  /\ step = "enable"
  /\ rctl' = rctl \cup {"EN"}
  /\ up' = TRUE
  /\ starting' = FALSE /\ step' = "idle"
  /\ UNCHANGED << softVars, at, tmp, erratum, par, par0, mar, vme, askVars >>

Stop ==
  /\ Idle /\ up
  /\ up' = FALSE
  /\ ResetFilter
  /\ rctl' = {} /\ vme' = FALSE
  /\ UNCHANGED << softVars, workVars, askVars >>

(***************************************************************************)
(* geiEndIoctl and the multicast entry points.                             *)
(***************************************************************************)

(* EIOCSADDR; without an address it fails and sets the filter all the same. *)
SetAddr ==
  /\ Idle
  /\ geiAddr' \in Stations
  /\ step' = "low"
  /\ UNCHANGED << up, flags, multiList, refs, nMulti, vlan, at, tmp, starting, chipVars,
                  askVars >>

(* EIOCSFLAGS sets some flags or clears some. *)
SetFlags ==
  /\ Idle
  /\ \E f \in SUBSET {"PROMISC", "ALLMULTI"} : flags' \in {flags \cup f, flags \ f}
  /\ step' = "low"
  /\ UNCHANGED << up, geiAddr, multiList, refs, nMulti, vlan, at, tmp, starting, chipVars,
                  askVars >>

(* EIOCSIFCAP. *)
SetIfCap ==
  /\ Idle
  /\ vlan' \in BOOLEAN
  /\ vme' = vlan'
  /\ UNCHANGED << up, flags, geiAddr, multiList, refs, nMulti, workVars, erratum, par,
                  par0, mar, rctl, askVars >>

(* A client counts on what was answered OK, until a command did nothing. *)
Asks(g) == asked' = IF g \in misled THEN asked ELSE [asked EXCEPT ![g] = @ + 1]
Resigns(g) ==
  /\ g \in misled \/ asked[g] > 0
  /\ asked' = IF g \in misled THEN asked ELSE [asked EXCEPT ![g] = @ - 1]

(* etherMultiAdd counts subscriptions and asks for a reset for the first. *)
McastAddrAdd(g) ==
  /\ Idle /\ up
  /\ refs[g] < MaxRefs[g]
  /\ Asks(g)
  /\ refs' = [refs EXCEPT ![g] = @ + 1]
  /\ IF refs[g] = 0
     THEN /\ multiList' = Append(multiList, g)
          /\ nMulti' = nMulti + 1
          /\ step' = "mpe"
     ELSE UNCHANGED << multiList, nMulti, step >>
  /\ UNCHANGED << up, flags, geiAddr, vlan, at, tmp, starting, chipVars, misled >>

Unlist(g) ==
  \E i \in DOMAIN multiList : multiList[i] = g /\ multiList' = RemoveAt(multiList, i)

(* Mutant: the first unsubscription ends them all. *)
MutMcastAddrDel(g) ==
  /\ Idle /\ up
  /\ Resigns(g)
  /\ refs' = [refs EXCEPT ![g] = 0]
  /\ IF refs[g] > 0
     THEN /\ Unlist(g)
          /\ nMulti' = nMulti - 1
          /\ step' = "mpe"
     ELSE UNCHANGED << multiList, nMulti, step >>
  /\ UNCHANGED << up, flags, geiAddr, vlan, at, tmp, starting, chipVars, misled >>

(* etherMultiDel asks for a reset for the last subscription; a group that is
   not in the list is answered OK, too. *)
McastAddrDel(g) ==
  /\ Idle /\ up
  /\ Resigns(g)
  /\ refs' = [refs EXCEPT ![g] = IF @ = 0 THEN 0 ELSE @ - 1]
  /\ IF refs[g] = 1
     THEN /\ Unlist(g)
          /\ nMulti' = nMulti - 1
          /\ step' = "mpe"
     ELSE UNCHANGED << multiList, nMulti, step >>
  /\ UNCHANGED << up, flags, geiAddr, vlan, at, tmp, starting, chipVars, misled >>

(* While the device is down both answer OK and do nothing. *)
McastDown(g) ==
  /\ Idle /\ ~up
  /\ Cardinality(misled) < MaxMisled
  /\ misled' = misled \cup {g}
  /\ asked' = [asked EXCEPT ![g] = 0]
  /\ UNCHANGED << up, softVars, workVars, chipVars >>

(***************************************************************************)
(* geiEndRxConfig.                                                         *)
(***************************************************************************)
ConfigLow ==
  /\ step = "low"
  /\ par0' = << geiAddr[1], par0[2] >>
  /\ step' = "high"
  /\ UNCHANGED << up, softVars, at, tmp, starting, erratum, par, mar, rctl, vme, askVars >>

ConfigHigh ==
  /\ step = "high"
  /\ par0' = << par0[1], geiAddr[2] >>
  /\ step' = "bam"
  /\ UNCHANGED << up, softVars, at, tmp, starting, erratum, par, mar, rctl, vme, askVars >>

ConfigBroadcast ==
  /\ step = "bam"
  /\ rctl' = rctl \cup {"BAM"}
  /\ step' = "upe"
  /\ UNCHANGED << up, softVars, at, tmp, starting, erratum, par, par0, mar, vme, askVars >>

ConfigPromisc ==
  /\ step = "upe"
  /\ rctl' = IF "PROMISC" \in flags THEN rctl \cup {"UPE"} ELSE rctl \ {"UPE"}
  /\ step' = "mpe"
  /\ UNCHANGED << up, softVars, at, tmp, starting, erratum, par, par0, mar, vme, askVars >>

(***************************************************************************)
(* geiEndHashTblPopulate.                                                  *)
(***************************************************************************)
Done == step' = (IF starting THEN "enable" ELSE "idle") /\ at' = 0

ClearMpe ==
  /\ step = "mpe"
  /\ rctl' = rctl \ {"MPE"}
  /\ step' = "pars" /\ at' = 1
  /\ UNCHANGED << up, softVars, tmp, starting, erratum, par, par0, mar, vme, askVars >>

(* Mutant: the loop begins at the station address. *)
MutClearPar ==
  /\ step = "pars"
  /\ IF at < ParCnt
     THEN /\ par' = [par EXCEPT ![at] = Nothing]
          /\ par0' = << Nothing, Nothing >>
          /\ at' = at + 1
          /\ UNCHANGED step
     ELSE /\ step' = "mars" /\ at' = 0
          /\ UNCHANGED << par, par0 >>
  /\ UNCHANGED << up, softVars, tmp, starting, erratum, mar, rctl, vme, askVars >>

ClearPar ==
  /\ step = "pars"
  /\ IF at < ParCnt
     THEN /\ par' = [par EXCEPT ![at] = Nothing]
          /\ at' = at + 1
          /\ UNCHANGED step
     ELSE /\ step' = "mars" /\ at' = 0
          /\ UNCHANGED par
  /\ UNCHANGED << up, softVars, tmp, starting, erratum, par0, mar, rctl, vme, askVars >>

Odd(r) == \E q \in Regs : r = 2 * q + 1

(* What the hash table holds after register r was given the bits b. *)
Written(r, b) ==
  IF erratum /\ Odd(r)
  THEN { [mar EXCEPT ![r] = b, ![r - 1] = c] : c \in SUBSET Bits }
  ELSE { [mar EXCEPT ![r] = b] }

ClearMar ==
  /\ step = "mars"
  /\ IF at < MarCnt
     THEN /\ mar' \in Written(at, {})
          /\ at' = at + 1
          /\ UNCHANGED step
     ELSE /\ step' = "mode"
          /\ UNCHANGED << mar, at >>
  /\ UNCHANGED << up, softVars, tmp, starting, erratum, par, par0, rctl, vme, askVars >>

Mode ==
  /\ step = "mode"
  /\ IF flags # {}
     THEN rctl' = rctl \cup {"MPE"} /\ Done
     ELSE UNCHANGED rctl /\ step' = "fill" /\ at' = 1
  /\ UNCHANGED << up, softVars, tmp, starting, erratum, par, par0, mar, vme, askVars >>

(* The first groups of the list get a slot. *)
FillPar ==
  /\ step = "fill"
  /\ at <= Len(multiList) /\ at < ParCnt
  /\ par' = [par EXCEPT ![at] = multiList[at]]
  /\ at' = at + 1
  /\ UNCHANGED << up, softVars, step, tmp, starting, erratum, par0, mar, rctl, vme, askVars >>

(* The others get a bit; an even register is saved before the write to the
   odd one after it ... *)
FillMar ==
  /\ step = "fill"
  /\ at <= Len(multiList) /\ at >= ParCnt
  /\ LET h == Hash[multiList[at]]
     IN  /\ mar' \in Written(h[1], mar[h[1]] \cup {h[2]})
         /\ IF Odd(h[1])
            THEN tmp' = mar[h[1] - 1] /\ step' = "restore" /\ UNCHANGED at
            ELSE at' = at + 1 /\ UNCHANGED << tmp, step >>
  /\ UNCHANGED << up, softVars, starting, erratum, par, par0, rctl, vme, askVars >>

(* Mutant: ... and not put back. *)
MutRestore ==
  /\ step = "restore"
  /\ step' = "fill" /\ at' = at + 1
  /\ tmp' = {}
  /\ UNCHANGED << up, softVars, starting, chipVars, askVars >>

(* ... and put back after it. *)
Restore ==
  /\ step = "restore"
  /\ mar' \in Written(Hash[multiList[at]][1] - 1, tmp)
  /\ step' = "fill" /\ at' = at + 1
  /\ tmp' = {}
  /\ UNCHANGED << up, softVars, starting, erratum, par, par0, rctl, vme, askVars >>

FillEnd ==
  /\ step = "fill"
  /\ at > Len(multiList)
  /\ Done
  /\ UNCHANGED << up, softVars, tmp, starting, chipVars, askVars >>

Life == Start \/ StartFails \/ StartEnable \/ Stop
Command ==
  \/ SetAddr \/ SetFlags \/ SetIfCap
  \/ \E g \in Groups : McastAddrAdd(g) \/ McastAddrDel(g) \/ McastDown(g)
RxConfig == ConfigLow \/ ConfigHigh \/ ConfigBroadcast \/ ConfigPromisc
Populate == ClearMpe \/ ClearPar \/ ClearMar \/ Mode \/ FillPar \/ FillMar \/ Restore \/ FillEnd

Next == Life \/ Command \/ RxConfig \/ Populate
Spec == Init /\ [][Next]_vars

(***************************************************************************)
(* What the chip takes from the wire.                                      *)
(***************************************************************************)
HearsStation(a) == "EN" \in rctl /\ ("UPE" \in rctl \/ par0 = a)

HearsGroup(g) ==
  /\ "EN" \in rctl
  /\ \/ "MPE" \in rctl
     \/ \E i \in Slots : par[i] = g
     \/ Hash[g][2] \in mar[Hash[g][1]]

Listed == ToSet(multiList)
Quiet  == up /\ Idle     \* up, and no command under way

(***************************************************************************)
(* Properties.                                                             *)
(***************************************************************************)

(* Every variable stays in its set. *)
TypeOK ==
  /\ up \in BOOLEAN /\ starting \in BOOLEAN /\ vlan \in BOOLEAN /\ vme \in BOOLEAN
  /\ flags \subseteq {"PROMISC", "ALLMULTI"}
  /\ geiAddr \in Stations
  /\ multiList \in Seq(Groups)
  /\ \A g \in Groups : refs[g] \in 0 .. MaxRefs[g]
  /\ nMulti \in Nat
  /\ step \in {"idle", "low", "high", "bam", "upe", "mpe", "pars", "mars", "mode", "fill",
               "restore", "enable"}
  /\ at \in Nat
  /\ tmp \subseteq Bits
  /\ erratum \in Chips
  /\ par \in [Slots -> Groups \cup {Nothing}]
  /\ mar \in [Regs -> SUBSET Bits]
  /\ rctl \subseteq {"EN", "BAM", "UPE", "MPE"}
  /\ \A g \in Groups : asked[g] \in 0 .. MaxRefs[g]
  /\ misled \subseteq Groups

(* The list names each group somebody subscribed to once. *)
ListAgrees ==
  /\ IsInjective(multiList)
  /\ nMulti = Len(multiList)
  /\ \A g \in Groups : refs[g] > 0 <=> g \in Listed

(* Once a command has ended the chip takes every frame the driver's state asks
   for, whatever slot or hash bit stands for it, and however an odd register
   of the 82544 disturbed its neighbour. *)
Listening ==
  Quiet =>
    /\ HearsStation(geiAddr)
    /\ "BAM" \in rctl
    /\ flags # {} => "MPE" \in rctl
    /\ "PROMISC" \in flags => "UPE" \in rctl
    /\ \A g \in Listed : HearsGroup(g)

(* It takes no others but those that share a hash bit with a group for which
   no slot was left.  On the 82544 clearing the table may leave bits. *)
NotMoreThanAsked ==
  Quiet /\ flags = {} =>
    /\ \A a \in Stations : HearsStation(a) => a = geiAddr
    /\ ~erratum =>
         \A g \in Groups : HearsGroup(g) =>
           \/ g \in Listed
           \/ \E i \in ParCnt .. Len(multiList) : Hash[multiList[i]] = Hash[g]

(* VLAN tags are stripped just when the stack was told so. *)
VlanAgrees == up => vme = vlan

(* The filter and the state it is computed from agree whenever no command is
   under way. *)
FilterAgrees == TypeOK /\ ListAgrees /\ Listening /\ NotMoreThanAsked /\ VlanAgrees

(* Frames to the station's own address are never missed while the device is
   up, even while another command rewrites the filter; only a change of the
   address passes through two halves that do not match. *)
StationHeard ==
  up /\ step \notin {"low", "high"} => HearsStation(geiAddr)

(* A client hears the groups it subscribed to and was told so, until as many
   commands gave them up; and nobody else's list entry stays behind.  Commands
   given while the device is down are answered OK and lost: the groups they
   named are excepted. *)
SubscribersHeard ==
  \A g \in Groups \ misled :
    /\ Quiet /\ asked[g] > 0 => HearsGroup(g)
    /\ asked[g] = 0 => g \notin Listed
=============================================================================
