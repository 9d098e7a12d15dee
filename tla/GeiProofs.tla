----------------------------- MODULE GeiProofs -----------------------------
(***************************************************************************)
(* Theorems about two parts of the PRO/1000 END driver that share no       *)
(* state: the receive filter and the transmit ring.                        *)
(*                                                                         *)
(* The filter lets through what the driver's state asks for, and nothing   *)
(* else but what shares a hash bit with it: for any addresses, hash        *)
(* function, table sizes and chip.  Three layers: IInv, what the chip must *)
(* hear; Subscribed, the list and the counts of subscriptions; Exact, what *)
(* the chip must not hear.                                                 *)
(*                                                                         *)
(* The ring loses no descriptor and sends what it was given: for any       *)
(* number of protocols and descriptors.  Two layers: RingInv, where chip   *)
(* and driver are and what is counted; Sound, what the chip has yet to     *)
(* take as one line, in which each packet finds its own offload request    *)
(* and comes after the packets of its protocol that left.                  *)
(***************************************************************************)
EXTENDS GeiFilter, GeiTx, TLAPS, SequenceTheorems

(***************************************************************************)
(* Lists without duplicates.                                               *)
(***************************************************************************)

(* What the operators on sequences say, by index. *)
LEMMA ListByIndex ==
  ASSUME NEW S, NEW s \in Seq(S)
  PROVE  /\ Len(s) \in Nat
         /\ IsInjective(s) <=> \A a, b \in 1 .. Len(s) : s[a] = s[b] => a = b
         /\ ToSet(s) = { s[a] : a \in 1 .. Len(s) }
<1>1. DOMAIN s = 1 .. Len(s) /\ Len(s) \in Nat
  BY LenProperties
<1>2. IsInjective(s) <=> \A a, b \in 1 .. Len(s) : s[a] = s[b] => a = b
  BY <1>1, Zenon DEF IsInjective
<1>3. ToSet(s) = { s[a] : a \in 1 .. Len(s) }
  BY <1>1, Zenon DEF ToSet
<1> QED
  BY <1>1, <1>2, <1>3

(* The empty list. *)
LEMMA EmptyList ==
  ASSUME NEW S, NEW s \in Seq(S)
  PROVE  Len(s) = 0 => IsInjective(s) /\ ToSet(s) = {}
<1>1. /\ IsInjective(s) <=> \A a, b \in 1 .. Len(s) : s[a] = s[b] => a = b
      /\ ToSet(s) = { s[a] : a \in 1 .. Len(s) }
  BY ListByIndex
<1>2. Len(s) = 0 => 1 .. Len(s) = {}
  OBVIOUS
<1> QED
  BY <1>1, <1>2

(* A new group at the end of a list without duplicates. *)
LEMMA ListAppend ==
  ASSUME NEW S, NEW s \in Seq(S), IsInjective(s), NEW g \in S, g \notin ToSet(s)
  PROVE  /\ IsInjective(Append(s, g))
         /\ ToSet(Append(s, g)) = ToSet(s) \cup {g}
         /\ Len(Append(s, g)) = Len(s) + 1
<1> DEFINE r == Append(s, g)
<1>1. /\ r \in Seq(S)
      /\ Len(r) = Len(s) + 1 /\ Len(s) \in Nat
      /\ \A i \in 1 .. Len(s) : r[i] = s[i]
      /\ r[Len(s) + 1] = g
  BY AppendProperties, LenProperties
<1> HIDE DEF r
<1>2. /\ \A a, b \in 1 .. Len(s) : s[a] = s[b] => a = b
      /\ ToSet(s) = { s[a] : a \in 1 .. Len(s) }
  BY ListByIndex
<1>3. \A a \in 1 .. Len(s) : s[a] # g
  BY <1>2
<1>4. 1 .. Len(r) = (1 .. Len(s)) \cup {Len(s) + 1}
  BY <1>1
<1>5. \A a, b \in 1 .. Len(r) : r[a] = r[b] => a = b
  BY <1>1, <1>2, <1>3, <1>4
<1>6. { r[a] : a \in 1 .. Len(r) } = ToSet(s) \cup {g}
  BY <1>1, <1>2, <1>4
<1> QED
  BY <1>1, <1>5, <1>6, ListByIndex DEF r

(* A group taken out of such a list. *)
LEMMA ListRemove ==
  ASSUME NEW S, NEW s \in Seq(S), IsInjective(s), NEW i \in 1 .. Len(s)
  PROVE  /\ IsInjective(RemoveAt(s, i))
         /\ ToSet(RemoveAt(s, i)) = ToSet(s) \ {s[i]}
         /\ Len(RemoveAt(s, i)) = Len(s) - 1
<1> DEFINE a == SubSeq(s, 1, i - 1)
           b == SubSeq(s, i + 1, Len(s))
           r == RemoveAt(s, i)
<1>1. Len(s) \in Nat /\ i \in Nat /\ \A k \in 1 .. Len(s) : s[k] \in S
  BY LenProperties, ElementOfSeq
<1>2. /\ a \in Seq(S) /\ Len(a) = i - 1
      /\ \A k \in 1 .. i - 1 : a[k] = s[k]
  <2>1. \A k \in 1 .. i - 1 : s[k] \in S
    BY <1>1
  <2>2. i - 1 \in Int /\ (i - 1) - 1 + 1 = i - 1
    BY <1>1
  <2> QED
    BY <1>1, <2>1, <2>2, SubSeqProperties
<1>3. /\ b \in Seq(S) /\ Len(b) = Len(s) - i
      /\ \A k \in 1 .. Len(s) - i : b[k] = s[i + k]
  <2>1. \A k \in i + 1 .. Len(s) : s[k] \in S
    BY <1>1
  <2>2. /\ i + 1 \in Int /\ Len(s) \in Int /\ Len(s) - (i + 1) + 1 = Len(s) - i
        /\ \A k \in 1 .. Len(s) - i : (i + 1) + k - 1 = i + k
    BY <1>1
  <2>3. /\ b \in Seq(S)
        /\ Len(b) = IF i + 1 <= Len(s) THEN Len(s) - (i + 1) + 1 ELSE 0
        /\ \A k \in 1 .. Len(s) - (i + 1) + 1 : b[k] = s[(i + 1) + k - 1]
    BY <2>1, <2>2, SubSeqProperties
  <2> HIDE DEF b
  <2>4. Len(b) = Len(s) - i
    BY <1>1, <2>3
  <2>5. \A k \in 1 .. Len(s) - i : b[k] = s[i + k]
    BY <2>2, <2>3
  <2> QED
    BY <2>3, <2>4, <2>5
<1> HIDE DEF a, b
<1>4. /\ r \in Seq(S) /\ Len(r) = Len(s) - 1
      /\ \A k \in 1 .. Len(s) - 1 : r[k] = IF k < i THEN s[k] ELSE s[k + 1]
  <2>1. r = a \o b
    BY DEF RemoveAt, a, b
  <2> HIDE DEF r
  <2>2. /\ r \in Seq(S) /\ Len(r) = Len(a) + Len(b)
        /\ \A k \in 1 .. Len(a) + Len(b) : r[k] = IF k <= Len(a) THEN a[k] ELSE b[k - Len(a)]
    BY <1>2, <1>3, <2>1, ConcatProperties
  <2>3. Len(a) + Len(b) = Len(s) - 1
    BY <1>1, <1>2, <1>3
  <2>4. ASSUME NEW k \in 1 .. Len(s) - 1
        PROVE  r[k] = IF k < i THEN s[k] ELSE s[k + 1]
    <3>1. r[k] = IF k <= i - 1 THEN a[k] ELSE b[k - (i - 1)]
      BY <1>2, <2>2, <2>3
    <3>2. CASE k < i
      BY <1>1, <1>2, <3>1, <3>2
    <3>3. CASE ~(k < i)
      <4>1. k - (i - 1) \in 1 .. Len(s) - i /\ i + (k - (i - 1)) = k + 1
        BY <1>1, <3>3
      <4> QED
        BY <1>1, <1>3, <3>1, <3>3, <4>1
    <3> QED
      BY <3>2, <3>3
  <2> QED
    BY <2>2, <2>3, <2>4
<1> HIDE DEF r
<1>5. /\ \A x, y \in 1 .. Len(s) : s[x] = s[y] => x = y
      /\ ToSet(s) = { s[x] : x \in 1 .. Len(s) }
  BY ListByIndex
<1>6. ASSUME NEW x \in 1 .. Len(r), NEW y \in 1 .. Len(r), r[x] = r[y]
      PROVE  x = y
  <2> DEFINE was(k) == IF k < i THEN k ELSE k + 1
  <2>1. x \in 1 .. Len(s) - 1 /\ y \in 1 .. Len(s) - 1
    BY <1>4
  <2>2. was(x) \in 1 .. Len(s) /\ was(y) \in 1 .. Len(s)
    BY <1>1, <2>1
  <2>3. r[x] = s[was(x)] /\ r[y] = s[was(y)]
    BY <1>4, <2>1
  <2>4. was(x) = was(y)
    <3> HIDE DEF was
    <3> QED
      BY <1>5, <1>6, <2>2, <2>3
  <2> QED
    BY <1>1, <2>1, <2>4
<1>7. ASSUME NEW k \in 1 .. Len(r)
      PROVE  r[k] \in ToSet(s) \ {s[i]}
  <2>1. PICK j \in 1 .. Len(s) : r[k] = s[j] /\ j # i
    BY <1>1, <1>4
  <2> QED
    BY <1>5, <2>1
<1>8. ASSUME NEW j \in 1 .. Len(s), s[j] # s[i]
      PROVE  \E k \in 1 .. Len(r) : r[k] = s[j]
  <2>1. CASE j < i
    <3>1. j \in 1 .. Len(r) /\ r[j] = s[j]
      BY <1>1, <1>4, <2>1
    <3> QED
      BY <3>1
  <2>2. CASE j > i
    <3>1. j - 1 \in 1 .. Len(r) /\ r[j - 1] = s[j]
      BY <1>1, <1>4, <2>2
    <3> QED
      BY <3>1
  <2> QED
    BY <1>1, <1>8, <2>1, <2>2
<1>9. { r[k] : k \in 1 .. Len(r) } = ToSet(s) \ {s[i]}
  BY <1>5, <1>7, <1>8
<1> QED
  BY <1>4, <1>6, <1>9, ListByIndex DEF r

(* The k-th group of the list is heard through its slot or, in the hash table
   m, through its bit. *)
Heard(k, m) ==
  IF k < ParCnt THEN par[k] = multiList[k]
                ELSE Hash[multiList[k]][2] \in m[Hash[multiList[k]][1]]

(* The table as it is after the register saved has been put back. *)
Restored(r) == [mar EXCEPT ![r - 1] = tmp]

Types ==
  /\ up \in BOOLEAN /\ starting \in BOOLEAN
  /\ flags \subseteq {"PROMISC", "ALLMULTI"}
  /\ geiAddr \in Stations
  /\ multiList \in Seq(Groups)
  /\ step \in {"idle", "low", "high", "bam", "upe", "mpe", "pars", "mars", "mode", "fill",
               "restore", "enable"}
  /\ at \in Nat
  /\ tmp \subseteq Bits
  /\ erratum \in BOOLEAN
  /\ par \in [Slots -> Groups \cup {Nothing}]
  /\ mar \in [Regs -> SUBSET Bits]
  /\ rctl \subseteq {"EN", "BAM", "UPE", "MPE"}

(* The receiver is on while the device is up; a command on a device that is
   down does not go on as a start. *)
Enabled ==
  /\ up => "EN" \in rctl /\ ~starting
  /\ step = "enable" => starting
  /\ starting => step # "idle"

(* The filter has been set since the device came up. *)
Set == up \/ starting

(* What geiEndRxConfig has written so far. *)
Configured ==
  /\ step = "high" => par0[1] = geiAddr[1]
  /\ step \notin {"low", "high"} => par0 = geiAddr
  /\ par0 = << par0[1], par0[2] >>
  /\ Set /\ step \notin {"low", "high", "bam"} => "BAM" \in rctl
  /\ Set /\ step \notin {"low", "high", "bam", "upe"} =>
       ("PROMISC" \in flags <=> "UPE" \in rctl)

(* What geiEndHashTblPopulate has written so far. *)
Populated ==
  /\ step = "pars" => at >= 1
  /\ step = "fill" =>
       /\ flags = {}
       /\ at >= 1 /\ at <= Len(multiList) + 1
       /\ \A k \in 1 .. at - 1 : Heard(k, mar)
  /\ step = "restore" =>
       /\ flags = {}
       /\ at >= 1 /\ at >= ParCnt /\ at <= Len(multiList)
       /\ Odd(Hash[multiList[at]][1])
       /\ \A k \in 1 .. at : Heard(k, Restored(Hash[multiList[at]][1]))
  /\ Set /\ step \in {"idle", "enable"} =>
       IF flags # {} THEN "MPE" \in rctl
                     ELSE \A k \in 1 .. Len(multiList) : Heard(k, mar)

IInv == Types /\ Enabled /\ Configured /\ Populated

USE FilterAssumption DEF FilterConstants, Slots, Regs, Nothing

(* It holds at attach ... *)
LEMMA InitOK == Init => IInv
<1> SUFFICES ASSUME Init PROVE IInv
  OBVIOUS
<1>1. Types
  <2>1. multiList \in Seq(Groups)
    BY EmptySeq DEF Init
  <2>2. par \in [Slots -> Groups \cup {Nothing}] /\ mar \in [Regs -> SUBSET Bits]
    BY DEF Init
  <2>3. erratum \in BOOLEAN
    BY DEF Init
  <2> QED
    BY <2>1, <2>2, <2>3 DEF Init, Types
<1>2. Configured
  BY DEF Init, Configured, Set
<1>3. Enabled /\ Populated
  BY DEF Init, Enabled, Populated, Set
<1> QED
  BY <1>1, <1>2, <1>3 DEF IInv

(* ... and every step keeps it: start and stop, ... *)
LEMMA LifeOK == ASSUME IInv, Life PROVE IInv'
<1> USE DEF IInv, Types, Enabled, Configured, Populated, Set, Idle, softVars, workVars,
            askVars, chipVars
<1>1. CASE Start
  BY <1>1 DEF Start, ResetFilter
<1>2. CASE StartFails
  BY <1>2 DEF StartFails, ResetFilter
<1>3. CASE StartEnable
  BY <1>3 DEF StartEnable, Heard
<1>4. CASE Stop
  BY <1>4 DEF Stop, ResetFilter
<1> QED
  BY <1>1, <1>2, <1>3, <1>4 DEF Life

(* A list without one of its groups is a list. *)
LEMMA UnlistType ==
  ASSUME multiList \in Seq(Groups), NEW g, Unlist(g)
  PROVE  multiList' \in Seq(Groups)
<1>1. PICK i \in DOMAIN multiList : multiList' = RemoveAt(multiList, i)
  BY DEF Unlist
<1>2. i \in 1 .. Len(multiList)
  BY <1>1
<1>3. SubSeq(multiList, 1, i - 1) \in Seq(Groups)
  BY <1>2, SubSeqProperties
<1>4. SubSeq(multiList, i + 1, Len(multiList)) \in Seq(Groups)
  BY <1>2, SubSeqProperties
<1> QED
  BY <1>1, <1>3, <1>4, ConcatProperties DEF RemoveAt

(* ... the commands of the stack, ... *)
LEMMA CommandOK == ASSUME IInv, Command PROVE IInv'
<1> USE DEF IInv, Types, Enabled, Configured, Populated, Set, Idle, softVars, workVars,
            askVars, chipVars
<1>1. CASE SetAddr
  BY <1>1 DEF SetAddr
<1>2. CASE SetFlags
  BY <1>2 DEF SetFlags
<1>3. CASE SetIfCap
  BY <1>3 DEF SetIfCap, Heard
<1>4. ASSUME NEW g \in Groups, McastAddrAdd(g) PROVE IInv'
  <2>1. multiList' \in Seq(Groups)
    <3>1. multiList \in Seq(Groups)
      OBVIOUS
    <3>2. Append(multiList, g) \in Seq(Groups)
      BY <3>1, AppendProperties
    <3> QED
      BY <1>4, <3>1, <3>2 DEF McastAddrAdd
  <2>2. CASE refs[g] = 0
    BY <1>4, <2>1, <2>2 DEF McastAddrAdd
  <2>3. CASE refs[g] # 0
    BY <1>4, <2>1, <2>3 DEF McastAddrAdd, Heard
  <2> QED
    BY <2>2, <2>3
<1>5. ASSUME NEW g \in Groups, McastAddrDel(g) PROVE IInv'
  <2>1. multiList' \in Seq(Groups)
    BY <1>5, UnlistType DEF McastAddrDel
  <2>2. CASE refs[g] = 1
    BY <1>5, <2>1, <2>2 DEF McastAddrDel
  <2>3. CASE refs[g] # 1
    BY <1>5, <2>1, <2>3 DEF McastAddrDel, Heard
  <2> QED
    BY <2>2, <2>3
<1>6. ASSUME NEW g \in Groups, McastDown(g) PROVE IInv'
  BY <1>6 DEF McastDown, Heard
<1> QED
  BY <1>1, <1>2, <1>3, <1>4, <1>5, <1>6 DEF Command

(* ... geiEndRxConfig, ... *)
LEMMA RxConfigOK == ASSUME IInv, RxConfig PROVE IInv'
<1> USE DEF IInv, Types, Enabled, Configured, Populated, Set, softVars, askVars
<1>1. CASE ConfigLow
  BY <1>1 DEF ConfigLow
<1>2. CASE ConfigHigh
  BY <1>2 DEF ConfigHigh
<1>3. CASE ConfigBroadcast
  BY <1>3 DEF ConfigBroadcast
<1>4. CASE ConfigPromisc
  BY <1>4 DEF ConfigPromisc
<1> QED
  BY <1>1, <1>2, <1>3, <1>4 DEF RxConfig

(* The register before an odd one is even. *)
LEMMA OddAfterEven ==
  ASSUME NEW r \in Regs, Odd(r)
  PROVE  r - 1 \in Regs /\ ~Odd(r - 1)
BY DEF Odd

(* What a write to a hash register leaves is a table. *)
LEMMA WrittenType ==
  ASSUME Types, NEW r \in Regs, NEW b \in SUBSET Bits, NEW m \in Written(r, b)
  PROVE  /\ m \in [Regs -> SUBSET Bits]
         /\ m[r] = b
         /\ \A s \in Regs : s # r /\ (~Odd(r) \/ s # r - 1) => m[s] = mar[s]
<1>1. mar \in [Regs -> SUBSET Bits]
  BY DEF Types
<1>2. CASE m = [mar EXCEPT ![r] = b]
  BY <1>1, <1>2
<1>3. CASE Odd(r) /\ \E c \in SUBSET Bits : m = [mar EXCEPT ![r] = b, ![r - 1] = c]
  <2>1. PICK c \in SUBSET Bits : m = [mar EXCEPT ![r] = b, ![r - 1] = c]
    BY <1>3
  <2>2. r \in Nat /\ r - 1 \in Regs /\ r - 1 # r
    BY <1>3, OddAfterEven
  <2>3. m \in [Regs -> SUBSET Bits]
    BY <1>1, <2>1, <2>2
  <2>4. m[r] = b
    BY <1>1, <2>1, <2>2
  <2>5. ASSUME NEW s \in Regs, s # r, ~Odd(r) \/ s # r - 1 PROVE m[s] = mar[s]
    BY <1>1, <1>3, <2>1, <2>2, <2>5
  <2> QED
    BY <2>3, <2>4, <2>5
<1> QED
  BY <1>2, <1>3 DEF Written

(* ... a slot, ... *)
LEMMA FillParOK == ASSUME IInv, FillPar PROVE IInv'
<1>1. /\ par' = [par EXCEPT ![at] = multiList[at]] /\ at \in Slots /\ at <= Len(multiList)
      /\ at' = at + 1 /\ step = "fill" /\ multiList[at] \in Groups
      /\ UNCHANGED << up, flags, geiAddr, multiList, step, tmp, starting, erratum, par0, mar,
                      rctl >>
  BY DEF FillPar, softVars, IInv, Types, Populated
<1>2. par \in [Slots -> Groups \cup {Nothing}]
  BY DEF IInv, Types
<1>3. par' \in [Slots -> Groups \cup {Nothing}]
  BY <1>1, <1>2
<1>4. Types'
  BY <1>1, <1>3 DEF IInv, Types
<1>5. Enabled' /\ Configured'
  BY <1>1 DEF IInv, Enabled, Configured, Set
<1>6. ASSUME NEW k \in 1 .. at PROVE Heard(k, mar)'
  <2>1. CASE k = at
    BY <1>1, <1>2, <2>1 DEF Heard
  <2>2. CASE k # at
    <3>1. k \in 1 .. at - 1
      BY <2>2, <1>1
    <3>2. Heard(k, mar) /\ k \in Slots
      BY <1>1, <3>1 DEF IInv, Populated
    <3> QED
      BY <1>1, <1>2, <2>2, <3>2 DEF Heard
  <2> QED
    BY <2>1, <2>2
<1>7. Populated'
  <2>1. flags = {} /\ at \in Nat /\ Len(multiList) \in Nat
    BY <1>1 DEF IInv, Types, Populated
  <2>2. at' \in Nat /\ at' >= 1 /\ at' <= Len(multiList) + 1 /\ at' - 1 = at
    BY <1>1, <2>1
  <2> QED
    BY <1>1, <1>6, <2>1, <2>2 DEF Populated
<1> QED
  BY <1>4, <1>5, <1>7 DEF IInv

(* ... a hash bit, ... *)
LEMMA FillMarOK == ASSUME IInv, FillMar PROVE IInv'
<1> DEFINE h == Hash[multiList[at]]
<1>1. /\ step = "fill" /\ at \in 1 .. Len(multiList) /\ at >= ParCnt /\ at \in Nat
      /\ Len(multiList) \in Nat /\ flags = {}
      /\ mar' \in Written(h[1], mar[h[1]] \cup {h[2]})
      /\ UNCHANGED << up, flags, geiAddr, multiList, starting, erratum, par, par0, rctl >>
      /\ IF Odd(h[1]) THEN tmp' = mar[h[1] - 1] /\ step' = "restore" /\ UNCHANGED at
                         ELSE at' = at + 1 /\ UNCHANGED << tmp, step >>
  BY SMTT(30) DEF FillMar, softVars, IInv, Types, Populated
<1>2. /\ \A k \in 1 .. Len(multiList) : Hash[multiList[k]] \in Regs \X Bits
      /\ mar \in [Regs -> SUBSET Bits]
  BY DEF IInv, Types
<1>3. h[1] \in Regs /\ h[2] \in Bits /\ h[1] \in Nat
  BY <1>1, <1>2
<1>4. mar[h[1]] \cup {h[2]} \in SUBSET Bits
  BY <1>2, <1>3
<1>5. /\ mar' \in [Regs -> SUBSET Bits]
      /\ mar'[h[1]] = mar[h[1]] \cup {h[2]}
      /\ \A s \in Regs : s # h[1] /\ (~Odd(h[1]) \/ s # h[1] - 1) => mar'[s] = mar[s]
  <2> HIDE DEF h
  <2> QED
    BY <1>1, <1>3, <1>4, WrittenType, SMTT(30) DEF IInv
<1>6. Configured' /\ Enabled'
  BY <1>1 DEF IInv, Enabled, Configured, Set
<1>7. \A k \in 1 .. at - 1 : Heard(k, mar)
  BY <1>1 DEF IInv, Populated
<1>8. ASSUME NEW m, \A s \in Regs : mar[s] \subseteq m[s], h[2] \in m[h[1]], NEW k \in 1 .. at
      PROVE  IF k < ParCnt THEN par[k] = multiList[k]
                           ELSE Hash[multiList[k]][2] \in m[Hash[multiList[k]][1]]
  <2>1. CASE k = at
    BY <1>1, <1>8, <2>1
  <2>2. CASE k # at
    <3>1. Heard(k, mar)
      BY <1>1, <1>7, <2>2
    <3>2. Hash[multiList[k]] \in Regs \X Bits
      BY <1>1, <1>2
    <3>3. Hash[multiList[k]][1] \in Regs
      BY <3>2
    <3> QED
      BY <1>8, <3>1, <3>3 DEF Heard
  <2> QED
    BY <2>1, <2>2
<1>9. CASE Odd(h[1])
  <2> DEFINE m == [mar' EXCEPT ![h[1] - 1] = tmp']
  <2>1. h[1] - 1 \in Regs /\ h[1] - 1 # h[1]
    BY <1>3, <1>9, OddAfterEven
  <2>2. tmp' = mar[h[1] - 1] /\ tmp' \subseteq Bits /\ step' = "restore" /\ at' = at
    BY <1>1, <1>2, <1>9, <2>1
  <2>3. Types'
    BY <1>1, <1>5, <2>2 DEF IInv, Types
  <2>4. ASSUME NEW s \in Regs PROVE mar[s] \subseteq m[s]
    <3>1. CASE s = h[1] - 1
      BY <1>5, <2>1, <2>2, <3>1
    <3>2. CASE s = h[1]
      BY <1>5, <2>1, <3>2
    <3>3. CASE s # h[1] - 1 /\ s # h[1]
      BY <1>5, <2>1, <3>3
    <3> QED
      BY <3>1, <3>2, <3>3
  <2>5. h[2] \in m[h[1]]
    BY <1>3, <1>5, <2>1
  <2>6. \A k \in 1 .. at : IF k < ParCnt THEN par[k] = multiList[k]
                           ELSE Hash[multiList[k]][2] \in m[Hash[multiList[k]][1]]
    <3> HIDE DEF m, h
    <3> QED
      BY <1>8, <2>4, <2>5
  <2>7. Populated'
    BY <1>1, <1>9, <2>2, <2>6 DEF Populated, Heard, Restored
  <2> QED
    BY <1>6, <2>3, <2>7 DEF IInv
<1>10. CASE ~Odd(h[1])
  <2>1. ~Odd(h[1]) /\ at' = at + 1 /\ UNCHANGED << tmp, step >>
    BY <1>1, <1>3, <1>10
  <2>2. Types'
    BY <1>1, <1>5, <2>1, SMTT(30) DEF IInv, Types
  <2>3. \A s \in Regs : mar[s] \subseteq mar'[s]
    BY <1>5, <2>1
  <2>4. h[2] \in mar'[h[1]]
    BY <1>5
  <2>5. \A k \in 1 .. at : IF k < ParCnt THEN par[k] = multiList[k]
                           ELSE Hash[multiList[k]][2] \in mar'[Hash[multiList[k]][1]]
    <3> HIDE DEF h
    <3> QED
      BY <1>8, <2>3, <2>4
  <2>6. at' \in Nat /\ at' >= 1 /\ at' <= Len(multiList) + 1 /\ at' - 1 = at
    BY <1>1, <2>1
  <2>7. Populated'
    BY <1>1, <2>1, <2>5, <2>6 DEF Populated, Heard
  <2> QED
    BY <1>6, <2>2, <2>7 DEF IInv
<1> QED
  BY <1>9, <1>10

(* ... the register the erratum disturbed, put back, ... *)
LEMMA RestoreOK == ASSUME IInv, Restore PROVE IInv'
<1> DEFINE r == Hash[multiList[at]][1]
<1>1. /\ step = "restore" /\ at \in 1 .. Len(multiList) /\ at \in Nat /\ flags = {}
      /\ Len(multiList) \in Nat
      /\ mar' \in Written(r - 1, tmp) /\ step' = "fill" /\ at' = at + 1 /\ tmp' = {}
      /\ Odd(r)
      /\ \A k \in 1 .. at : Heard(k, Restored(r))
      /\ UNCHANGED << up, flags, geiAddr, multiList, starting, erratum, par, par0, rctl >>
  BY DEF Restore, softVars, IInv, Types, Populated
<1>2. Hash[multiList[at]] \in Regs \X Bits
  BY <1>1 DEF IInv, Types
<1>3. r \in Regs /\ r - 1 \in Regs /\ ~Odd(r - 1)
  BY <1>1, <1>2, OddAfterEven
<1>4. mar' = Restored(r)
  BY <1>1, <1>3 DEF Written, Restored
<1>5. mar' \in [Regs -> SUBSET Bits]
  BY <1>1, <1>3, WrittenType DEF IInv, Types
<1>6. Types'
  BY <1>1, <1>5, SMTT(30) DEF IInv, Types
<1>7. Enabled' /\ Configured'
  BY <1>1 DEF IInv, Enabled, Configured, Set
<1>8. \A k \in 1 .. at : Heard(k, mar)'
  BY <1>1, <1>4 DEF Heard
<1>9. at' \in Nat /\ at' >= 1 /\ at' <= Len(multiList) + 1 /\ at' - 1 = at
  BY <1>1
<1>10. Populated'
  BY <1>1, <1>8, <1>9 DEF Populated
<1> QED
  BY <1>6, <1>7, <1>10 DEF IInv

(* ... an emptied slot, ... *)
LEMMA ClearParOK == ASSUME IInv, ClearPar PROVE IInv'
<1>1. /\ step = "pars" /\ step' \in {"pars", "mars"} /\ at \in Nat /\ at >= 1
      /\ UNCHANGED << up, flags, geiAddr, multiList, tmp, starting, erratum, par0, mar, rctl >>
  BY DEF ClearPar, softVars, IInv, Types, Populated
<1>2. par' \in [Slots -> Groups \cup {Nothing}]
  BY <1>1 DEF ClearPar, IInv, Types
<1>3. at' \in Nat /\ (step' = "pars" => at' >= 1)
  BY <1>1 DEF ClearPar
<1> QED
  BY <1>1, <1>2, <1>3 DEF IInv, Types, Enabled, Configured, Populated, Set

(* ... an emptied table, ... *)
LEMMA ClearMarOK == ASSUME IInv, ClearMar PROVE IInv'
<1>1. /\ step = "mars" /\ step' \in {"mars", "mode"} /\ at \in Nat /\ at' \in Nat
      /\ UNCHANGED << up, flags, geiAddr, multiList, tmp, starting, erratum, par, par0, rctl >>
  BY DEF ClearMar, softVars, IInv, Types
<1>2. mar' \in [Regs -> SUBSET Bits]
  <2>1. CASE at < MarCnt
    <3>1. at \in Regs /\ mar' \in Written(at, {})
      BY <1>1, <2>1 DEF ClearMar
    <3> QED
      BY <3>1, WrittenType DEF IInv
  <2>2. CASE ~(at < MarCnt)
    BY <2>2 DEF ClearMar, IInv, Types
  <2> QED
    BY <2>1, <2>2
<1> QED
  BY <1>1, <1>2 DEF IInv, Types, Enabled, Configured, Populated, Set

(* ... geiEndHashTblPopulate, ... *)
LEMMA PopulateOK == ASSUME IInv, Populate PROVE IInv'
<1>1. CASE ClearMpe
  BY <1>1 DEF ClearMpe, IInv, Types, Enabled, Configured, Populated, Set, softVars
<1>2. CASE Mode
  BY <1>2 DEF Mode, Done, IInv, Types, Enabled, Configured, Populated, Set, softVars
<1>3. CASE FillEnd
  BY <1>3 DEF FillEnd, Done, Heard, IInv, Types, Enabled, Configured, Populated, Set,
              softVars, chipVars
<1> QED
  BY <1>1, <1>2, <1>3, ClearParOK, ClearMarOK, FillParOK, FillMarOK, RestoreOK DEF Populate

(* ... and no step at all. *)
LEMMA StutterOK == ASSUME IInv, UNCHANGED vars PROVE IInv'
BY SMTT(30) DEF vars, IInv, Types, Enabled, Configured, Populated, Set, Heard, Restored, softVars,
       workVars, askVars, chipVars

(* IInv holds in every state. *)
THEOREM Invariance == Spec => []IInv
<1>1. IInv /\ [Next]_vars => IInv'
  BY LifeOK, CommandOK, RxConfigOK, PopulateOK, StutterOK DEF Next
<1> QED
  BY InitOK, <1>1, PTL DEF Spec

(* A frame to the station's own address is heard at any time the device is up
   and its address is not being changed, whatever command rewrites the rest of
   the filter (geiEndRxConfig, geiEndHashTblPopulate). *)
THEOREM StationAlwaysHeard == Spec => []StationHeard
<1>1. IInv => StationHeard
  BY DEF IInv, Enabled, Configured, StationHeard, HearsStation
<1> QED
  BY Invariance, <1>1, PTL

(* When no command is under way all that must be heard is heard. *)
LEMMA HeardAll == IInv => Listening
<1> SUFFICES ASSUME IInv, Quiet PROVE
      /\ HearsStation(geiAddr)
      /\ "BAM" \in rctl
      /\ flags # {} => "MPE" \in rctl
      /\ "PROMISC" \in flags => "UPE" \in rctl
      /\ \A g \in Listed : HearsGroup(g)
  BY DEF Listening
<1>1. "EN" \in rctl /\ step = "idle" /\ up
  BY DEF IInv, Enabled, Quiet, Idle
<1>2. ASSUME NEW g \in Listed PROVE HearsGroup(g)
  <2>1. PICK k \in 1 .. Len(multiList) : multiList[k] = g
    <3>1. multiList \in Seq(Groups)
      BY DEF IInv, Types
    <3>2. DOMAIN multiList = 1 .. Len(multiList)
      BY <3>1
    <3> QED
      BY <3>2, Zenon DEF Listed, ToSet
  <2>2. CASE flags # {}
    BY <1>1, <2>2 DEF IInv, Populated, Set, HearsGroup
  <2>3. CASE flags = {}
    <3>1. Heard(k, mar)
      BY <1>1, <2>3 DEF IInv, Populated, Set
    <3>2. Len(multiList) \in Nat
      BY DEF IInv, Types
    <3> QED
      BY <1>1, <2>1, <3>1, <3>2 DEF Heard, HearsGroup
  <2> QED
    BY <2>2, <2>3
<1> QED
  BY <1>1, <1>2 DEF IInv, Configured, Populated, Set, HearsStation

(* Whenever no command is under way the chip takes every frame the state of
   the driver asks for, through a slot, a hash bit or a mode bit, even if the
   writes to odd hash registers disturb the even ones (82544). *)
THEOREM NothingMissed == Spec => []Listening
BY Invariance, HeardAll, PTL

(***************************************************************************)
(* Subscriptions.                                                          *)
(***************************************************************************)

(* A group is listed while it has subscriptions, and the driver's count of
   them is its clients', unless a command about it did nothing. *)
Subscribed ==
  /\ refs \in [Groups -> Nat] /\ asked \in [Groups -> Nat] /\ misled \subseteq Groups
  /\ ListAgrees
  /\ \A g \in Groups : refs[g] <= MaxRefs[g]
  /\ \A g \in Groups : asked[g] = IF g \in misled THEN 0 ELSE refs[g]

(* Steps that leave subscriptions alone keep Subscribed; ... *)
LEMMA SubscribedKept ==
  ASSUME Subscribed, UNCHANGED << multiList, refs, nMulti, askVars >>
  PROVE  Subscribed'
BY DEF Subscribed, ListAgrees, Listed, askVars

(* ... it holds at attach, ... *)
LEMMA SubscribedInit == Init => Subscribed
<1> SUFFICES ASSUME Init
             PROVE  Subscribed
  OBVIOUS
<1>1. multiList \in Seq(Groups) /\ Len(multiList) = 0
  BY EmptySeq DEF Init
<1>2. IsInjective(multiList) /\ ToSet(multiList) = {}
  <2>1. \A q \in Seq(Groups) : Len(q) = 0 => IsInjective(q) /\ ToSet(q) = {}
    BY EmptyList
  <2> QED
    BY <1>1, <2>1
<1> QED
  BY <1>1, <1>2 DEF Init, Subscribed, ListAgrees, Listed

(* ... a subscription keeps it, ... *)
LEMMA McastAddOK ==
  ASSUME IInv, Subscribed, NEW g \in Groups, McastAddrAdd(g)
  PROVE  Subscribed'
<1> USE DEF McastAddrAdd
<1>1. /\ refs' = [refs EXCEPT ![g] = @ + 1] /\ refs[g] < MaxRefs[g]
      /\ misled' = misled
      /\ refs \in [Groups -> Nat] /\ asked \in [Groups -> Nat] /\ MaxRefs \in [Groups -> Nat]
      /\ asked' = IF g \in misled THEN asked ELSE [asked EXCEPT ![g] = @ + 1]
  BY DEF Subscribed, Asks
<1>2. /\ refs' \in [Groups -> Nat] /\ refs'[g] = refs[g] + 1
      /\ \A h \in Groups : h # g => refs'[h] = refs[h]
  BY <1>1
<1>3. \A h \in Groups : refs'[h] <= MaxRefs[h]
  BY <1>1, <1>2 DEF Subscribed
<1>4. /\ asked' \in [Groups -> Nat]
      /\ \A h \in Groups : asked'[h] = IF h \in misled THEN 0 ELSE refs'[h]
  BY <1>1, <1>2 DEF Subscribed
<1>5. multiList \in Seq(Groups)
  BY DEF IInv, Types
<1>6. ListAgrees'
  <2>1. CASE refs[g] = 0
    <3>1. g \notin ToSet(multiList)
      BY <1>1, <2>1 DEF Subscribed, ListAgrees, Listed
    <3>2. multiList' = Append(multiList, g) /\ nMulti' = nMulti + 1
      BY <2>1
    <3>3. /\ IsInjective(multiList') /\ Listed' = Listed \cup {g} /\ nMulti' = Len(multiList')
      BY <1>5, <3>1, <3>2, ListAppend DEF Subscribed, ListAgrees, Listed
    <3> QED
      BY <1>1, <1>2, <3>3 DEF Subscribed, ListAgrees
  <2>2. CASE refs[g] # 0
    <3>1. multiList' = multiList /\ nMulti' = nMulti
      BY <2>2
    <3>2. \A h \in Groups : refs'[h] > 0 <=> refs[h] > 0
      BY <1>1, <1>2, <2>2
    <3> QED
      BY <3>1, <3>2 DEF Subscribed, ListAgrees, Listed
  <2> QED
    BY <2>1, <2>2
<1> QED
  BY <1>1, <1>2, <1>3, <1>4, <1>6 DEF Subscribed

(* ... so does its end, ... *)
LEMMA McastDelOK ==
  ASSUME IInv, Subscribed, NEW g \in Groups, McastAddrDel(g)
  PROVE  Subscribed'
<1> USE DEF McastAddrDel
<1>1. /\ refs' = [refs EXCEPT ![g] = IF @ = 0 THEN 0 ELSE @ - 1]
      /\ misled' = misled
      /\ refs \in [Groups -> Nat] /\ asked \in [Groups -> Nat] /\ MaxRefs \in [Groups -> Nat]
      /\ g \in misled \/ asked[g] > 0
      /\ asked' = IF g \in misled THEN asked ELSE [asked EXCEPT ![g] = @ - 1]
  BY DEF Subscribed, Resigns
<1>2. /\ refs' \in [Groups -> Nat] /\ refs'[g] = IF refs[g] = 0 THEN 0 ELSE refs[g] - 1
      /\ \A h \in Groups : h # g => refs'[h] = refs[h]
  BY <1>1
<1>3. \A h \in Groups : refs'[h] <= MaxRefs[h]
  <2>1. \A h \in Groups : refs'[h] <= refs[h]
    BY <1>1, <1>2
  <2> QED
    BY <1>1, <1>2, <2>1 DEF Subscribed
<1>4. /\ asked' \in [Groups -> Nat]
      /\ \A h \in Groups : asked'[h] = IF h \in misled THEN 0 ELSE refs'[h]
  BY <1>1, <1>2 DEF Subscribed
<1>5. multiList \in Seq(Groups)
  BY DEF IInv, Types
<1>6. ListAgrees'
  <2>1. CASE refs[g] = 1
    <3>1. PICK i \in DOMAIN multiList : multiList[i] = g /\ multiList' = RemoveAt(multiList, i)
      BY <2>1 DEF Unlist
    <3>2. i \in 1 .. Len(multiList) /\ nMulti' = nMulti - 1
      BY <1>5, <2>1
    <3>3. IsInjective(multiList') /\ Listed' = Listed \ {g} /\ nMulti' = Len(multiList')
      BY <1>5, <3>1, <3>2, ListRemove DEF Subscribed, ListAgrees, Listed
    <3> QED
      BY <1>1, <1>2, <2>1, <3>3 DEF Subscribed, ListAgrees
  <2>2. CASE refs[g] # 1
    <3>1. multiList' = multiList /\ nMulti' = nMulti
      BY <2>2
    <3>2. \A h \in Groups : refs'[h] > 0 <=> refs[h] > 0
      BY <1>1, <1>2, <2>2
    <3> QED
      BY <3>1, <3>2 DEF Subscribed, ListAgrees, Listed
  <2> QED
    BY <2>1, <2>2
<1> QED
  BY <1>1, <1>2, <1>3, <1>4, <1>6 DEF Subscribed

(* ... so does a call that did nothing, ... *)
LEMMA McastDownOK ==
  ASSUME Subscribed, NEW g \in Groups, McastDown(g)
  PROVE  Subscribed'
<1>1. /\ UNCHANGED << multiList, refs, nMulti >>
      /\ misled' = misled \cup {g} /\ asked' = [asked EXCEPT ![g] = 0]
  BY DEF McastDown, softVars
<1>2. ListAgrees'
  BY <1>1 DEF Subscribed, ListAgrees, Listed
<1> QED
  BY <1>1, <1>2 DEF Subscribed

(* ... and so does every step. *)
LEMMA SubscribedNext ==
  ASSUME IInv, Subscribed, [Next]_vars
  PROVE  Subscribed'
<1> USE DEF softVars, chipVars
<1>1. CASE Life
  BY <1>1, SubscribedKept DEF Life, Start, StartFails, StartEnable, Stop
<1>2. CASE RxConfig
  BY <1>2, SubscribedKept DEF RxConfig, ConfigLow, ConfigHigh, ConfigBroadcast, ConfigPromisc
<1>3. CASE Populate
  BY <1>3, SubscribedKept
  DEF Populate, ClearMpe, ClearPar, ClearMar, Mode, FillPar, FillMar, Restore, FillEnd
<1>4. CASE Command
  BY <1>4, SubscribedKept, McastAddOK, McastDelOK, McastDownOK
  DEF Command, SetAddr, SetFlags, SetIfCap
<1>5. CASE UNCHANGED vars
  BY <1>5, SubscribedKept DEF vars
<1> QED
  BY <1>1, <1>2, <1>3, <1>4, <1>5 DEF Next

(***************************************************************************)
(* What the chip must not hear.                                            *)
(***************************************************************************)

(* Slots and bits stand for the first n groups of the list, at most. *)
OnlySlots(n) == \A i \in Slots : par[i] # Nothing => i <= n /\ par[i] = multiList[i]

OnlyBits(n) ==
  \A r \in Regs : \A b \in mar[r] : \E k \in ParCnt .. n : Hash[multiList[k]] = << r, b >>

(* How far geiEndHashTblPopulate is with clearing and filling.  Clearing an odd
   register of the 82544 may put bits into the even one before it. *)
Cleared ==
  /\ step = "pars" => \A i \in Slots : i < at => par[i] = Nothing
  /\ step \in {"mars", "mode"} => OnlySlots(0)
  /\ step = "mars" /\ ~erratum => \A r \in Regs : r < at => mar[r] = {}
  /\ step = "mode" /\ ~erratum => OnlyBits(0)

Filled ==
  /\ step = "fill" => OnlySlots(at - 1)
  /\ step = "restore" => OnlySlots(at)
  /\ step = "fill" /\ ~erratum => OnlyBits(at - 1)
  /\ step = "restore" /\ ~erratum =>
       OnlyBits(at) /\ tmp = mar[Hash[multiList[at]][1] - 1]

Ended ==
  Set /\ step \in {"idle", "enable"} /\ flags = {} =>
    /\ "MPE" \notin rctl
    /\ OnlySlots(Len(multiList))
    /\ ~erratum => OnlyBits(Len(multiList))

Modes ==
  /\ vlan \in BOOLEAN /\ vme \in BOOLEAN /\ erratum \in Chips
  /\ step \in {"pars", "mars", "mode", "fill", "restore"} => "MPE" \notin rctl
  /\ Set => vme = vlan

Exact == Cleared /\ Filled /\ Ended /\ Modes

(* Exact holds at attach ... *)
LEMMA ExactInit == Init => Exact
BY DEF Init, Exact, Cleared, Filled, Ended, Modes, Set

(* ... and is kept where a command ends ... *)
LEMMA EndedKept ==
  ASSUME Ended, UNCHANGED << flags, multiList, par, mar, erratum >>,
         "MPE" \in rctl' => "MPE" \in rctl,
         Set' /\ step' \in {"idle", "enable"} => Set /\ step \in {"idle", "enable"}
  PROVE  Ended'
BY DEF Ended, OnlySlots, OnlyBits

(* ... by start and stop, ... *)
LEMMA ExactLife ==
  ASSUME IInv, Exact, Life
  PROVE  Exact'
<1> USE DEF Exact, Cleared, Filled, Modes, Idle, softVars, workVars
<1>1. CASE Start
  BY <1>1 DEF Start, ResetFilter, Ended, Set
<1>2. CASE StartFails
  BY <1>2 DEF StartFails, ResetFilter, IInv, Enabled, Ended, Set
<1>3. CASE StartEnable
  <2>1. /\ step = "enable" /\ step' = "idle" /\ Set
        /\ UNCHANGED << vlan, vme, erratum >>
    BY <1>3 DEF StartEnable, IInv, Enabled, Set
  <2>2. Ended'
    <3>1. /\ UNCHANGED << flags, multiList, par, mar, erratum >>
          /\ rctl' = rctl \cup {"EN"}
      BY <1>3 DEF StartEnable
    <3> QED
      BY <2>1, <3>1, EndedKept
  <2> QED
    BY <2>1, <2>2
<1>4. CASE Stop
  BY <1>4 DEF Stop, ResetFilter, IInv, Enabled, Ended, Set
<1> QED
  BY <1>1, <1>2, <1>3, <1>4 DEF Life

(* ... the commands of the stack, ... *)
LEMMA ExactCommand ==
  ASSUME IInv, Exact, Command
  PROVE  Exact'
<1> USE DEF Exact, Cleared, Filled, Modes, Idle, softVars, workVars, chipVars
<1>1. CASE SetAddr
  BY <1>1 DEF SetAddr, Ended, Set
<1>2. CASE SetFlags
  BY <1>2 DEF SetFlags, Ended, Set
<1>3. CASE SetIfCap
  <2>1. /\ UNCHANGED << flags, multiList, par, mar, rctl, erratum, step, up, starting >>
        /\ step = "idle" /\ vlan' \in BOOLEAN /\ vme' = vlan'
    BY <1>3 DEF SetIfCap
  <2>2. Ended'
    BY <2>1, EndedKept DEF Set
  <2> QED
    BY <2>1, <2>2
<1>4. ASSUME NEW g \in Groups,
             McastAddrAdd(g) \/ McastAddrDel(g) \/ McastDown(g)
      PROVE  Exact'
  <2>1. /\ UNCHANGED << flags, par, mar, rctl, erratum, up, starting, vlan, vme >>
        /\ step = "idle" /\ step' \in {"idle", "mpe"}
        /\ (step' = "idle" => multiList' = multiList)
    BY <1>4 DEF McastAddrAdd, McastAddrDel, McastDown
  <2>2. Ended'
    <3>1. CASE step' = "mpe"
      BY <3>1 DEF Ended
    <3>2. CASE step' = "idle"
      BY <2>1, <3>2, EndedKept DEF Set
    <3> QED
      BY <2>1, <3>1, <3>2
  <2> QED
    BY <2>1, <2>2 DEF Set
<1> QED
  BY <1>1, <1>2, <1>3, <1>4 DEF Command

(* ... geiEndRxConfig, ... *)
LEMMA ExactConfig ==
  ASSUME IInv, Exact, RxConfig
  PROVE  Exact'
BY DEF Exact, Cleared, Filled, Ended, Modes, Set, softVars, RxConfig, ConfigLow, ConfigHigh,
       ConfigBroadcast, ConfigPromisc

(* ... an emptied slot, ... *)
LEMMA ExactClearPar ==
  ASSUME IInv, Exact, ClearPar
  PROVE  Exact'
<1>1. /\ step = "pars" /\ at \in Nat /\ at >= 1
      /\ UNCHANGED << vlan, vme, erratum, rctl, mar, up, starting, multiList >>
      /\ par \in [Slots -> Groups \cup {Nothing}]
      /\ \A i \in Slots : i < at => par[i] = Nothing
  BY DEF ClearPar, softVars, IInv, Types, Populated, Exact, Cleared
<1>2. CASE at < ParCnt
  <2>1. par' = [par EXCEPT ![at] = Nothing] /\ at \in Slots /\ at' = at + 1 /\ step' = "pars"
    BY <1>1, <1>2 DEF ClearPar
  <2>2. ASSUME NEW i \in Slots, i < at'
        PROVE  par'[i] = Nothing
    BY <1>1, <2>1, <2>2
  <2> QED
    BY <1>1, <2>1, <2>2 DEF Exact, Cleared, Filled, Ended, Modes, Set
<1>3. CASE ~(at < ParCnt)
  <2>1. par' = par /\ at' = 0 /\ step' = "mars"
    BY <1>3 DEF ClearPar
  <2>2. OnlySlots(0)'
    BY <1>1, <1>3, <2>1 DEF OnlySlots
  <2> QED
    BY <1>1, <2>1, <2>2 DEF Exact, Cleared, Filled, Ended, Modes, Set
<1> QED
  BY <1>2, <1>3

(* ... an emptied table, ... *)
LEMMA ExactClearMar ==
  ASSUME IInv, Exact, ClearMar
  PROVE  Exact'
<1>1. /\ step = "mars" /\ at \in Nat
      /\ UNCHANGED << vlan, vme, erratum, rctl, par, up, starting, multiList >>
      /\ mar \in [Regs -> SUBSET Bits]
      /\ OnlySlots(0)
      /\ ~erratum => \A r \in Regs : r < at => mar[r] = {}
  BY DEF ClearMar, softVars, IInv, Types, Exact, Cleared
<1>2. OnlySlots(0)'
  BY <1>1 DEF OnlySlots
<1>3. CASE at < MarCnt
  <2>1. mar' \in Written(at, {}) /\ at \in Regs /\ at' = at + 1 /\ step' = "mars"
    BY <1>1, <1>3 DEF ClearMar
  <2>2. ASSUME ~erratum, NEW r \in Regs, r < at'
        PROVE  mar'[r] = {}
    <3>1. mar' = [mar EXCEPT ![at] = {}]
      BY <2>1, <2>2 DEF Written
    <3>2. r < at \/ r = at
      BY <1>1, <2>1, <2>2
    <3> QED
      BY <1>1, <2>1, <2>2, <3>1, <3>2
  <2> QED
    BY <1>1, <1>2, <2>1, <2>2 DEF Exact, Cleared, Filled, Ended, Modes, Set
<1>4. CASE ~(at < MarCnt)
  <2>1. mar' = mar /\ step' = "mode"
    BY <1>4 DEF ClearMar
  <2>2. ~erratum => \A r \in Regs : mar'[r] = {}
    BY <1>1, <1>4, <2>1
  <2>3. ~erratum => OnlyBits(0)'
    BY <2>2 DEF OnlyBits
  <2> QED
    BY <1>1, <1>2, <2>1, <2>3 DEF Exact, Cleared, Filled, Ended, Modes, Set
<1> QED
  BY <1>3, <1>4

(* ... a slot, ... *)
LEMMA ExactFillPar ==
  ASSUME IInv, Exact, FillPar
  PROVE  Exact'
<1>1. /\ step = "fill" /\ at \in Nat /\ at >= 1 /\ at \in Slots
      /\ UNCHANGED << vlan, vme, erratum, rctl, mar, step, up, starting, multiList >>
      /\ par \in [Slots -> Groups \cup {Nothing}]
      /\ par' = [par EXCEPT ![at] = multiList[at]] /\ at' = at + 1
      /\ OnlySlots(at - 1) /\ (~erratum => OnlyBits(at - 1))
  BY DEF FillPar, softVars, IInv, Types, Populated, Exact, Filled
<1>2. OnlySlots(at - 1)'
  <2> SUFFICES ASSUME NEW i \in Slots, par'[i] # Nothing
               PROVE  i <= at' - 1 /\ par'[i] = multiList[i]
    BY <1>1 DEF OnlySlots
  <2>1. CASE i = at
    BY <1>1, <2>1
  <2>2. CASE i # at
    <3>1. par'[i] = par[i]
      BY <1>1, <2>2
    <3> QED
      BY <1>1, <3>1 DEF OnlySlots
  <2> QED
    BY <2>1, <2>2
<1>3. ~erratum => OnlyBits(at - 1)'
  <2>1. \A k \in ParCnt .. at - 1 : k \in ParCnt .. at' - 1
    BY <1>1
  <2> QED
    BY <1>1, <2>1 DEF OnlyBits
<1> QED
  BY <1>1, <1>2, <1>3 DEF Exact, Cleared, Filled, Ended, Modes, Set

(* ... a hash bit, ... *)
LEMMA ExactFillMar ==
  ASSUME IInv, Exact, FillMar
  PROVE  Exact'
<1> DEFINE h == Hash[multiList[at]]
<1>1. /\ step = "fill" /\ at \in 1 .. Len(multiList) /\ at >= ParCnt /\ at \in Nat
      /\ UNCHANGED << vlan, vme, erratum, rctl, par, up, starting, multiList >>
      /\ OnlySlots(at - 1) /\ (~erratum => OnlyBits(at - 1))
      /\ mar \in [Regs -> SUBSET Bits]
      /\ mar' \in Written(h[1], mar[h[1]] \cup {h[2]})
      /\ IF Odd(h[1]) THEN tmp' = mar[h[1] - 1] /\ step' = "restore" /\ UNCHANGED at
                         ELSE at' = at + 1 /\ UNCHANGED << tmp, step >>
  BY DEF FillMar, softVars, IInv, Types, Populated, Exact, Filled
<1>2. h \in Regs \X Bits /\ h[1] \in Regs /\ h = << h[1], h[2] >>
  BY <1>1, SMTT(30) DEF IInv, Types
<1>3. OnlySlots(at)'
  <2>1. at' = at \/ at' = at + 1
    BY <1>1
  <2> QED
    BY <1>1, <2>1 DEF OnlySlots
<1>4. (OnlySlots(at - 1))'
  BY <1>1, <1>3 DEF OnlySlots
<1> HIDE DEF h
<1>5. ASSUME ~erratum
      PROVE  /\ mar' = [mar EXCEPT ![h[1]] = mar[h[1]] \cup {h[2]}]
             /\ \A r \in Regs : \A b \in mar'[r] :
                  \E k \in ParCnt .. at : Hash[multiList[k]] = << r, b >>
  <2>1. mar' = [mar EXCEPT ![h[1]] = mar[h[1]] \cup {h[2]}]
    BY <1>1, <1>5 DEF Written
  <2>2. ASSUME NEW r \in Regs, NEW b \in mar'[r]
        PROVE  \E k \in ParCnt .. at : Hash[multiList[k]] = << r, b >>
    <3>1. b \in mar[r] \/ << r, b >> = h
      BY <1>1, <1>2, <2>1
    <3>2. CASE << r, b >> = h
      <4>1. Hash[multiList[at]] = << r, b >> /\ at \in ParCnt .. at
        BY <1>1, <3>2 DEF h
      <4> QED
        BY <4>1
    <3>3. CASE b \in mar[r]
      <4>1. PICK k \in ParCnt .. at - 1 : Hash[multiList[k]] = << r, b >>
        BY <1>1, <1>5, <3>3 DEF OnlyBits
      <4>2. k \in ParCnt .. at
        BY <1>1
      <4> QED
        BY <4>1, <4>2
    <3> QED
      BY <3>1, <3>2, <3>3
  <2> QED
    BY <2>1, <2>2
<1>6. CASE Odd(h[1])
  <2>1. /\ h[1] - 1 \in Regs /\ h[1] - 1 # h[1]
        /\ tmp' = mar[h[1] - 1] /\ step' = "restore" /\ at' = at
    BY <1>1, <1>2, <1>6, OddAfterEven
  <2>2. ASSUME ~erratum
        PROVE  OnlyBits(at)' /\ tmp' = mar'[Hash[multiList'[at']][1] - 1]
    <3>1. mar'[h[1] - 1] = mar[h[1] - 1]
      BY <1>1, <1>2, <1>5, <2>1, <2>2
    <3>2. multiList' = multiList /\ h[1] = Hash[multiList[at]][1]
      BY <1>1 DEF h
    <3>3. OnlyBits(at)'
      BY <1>5, <2>1, <2>2, <3>2 DEF OnlyBits
    <3> QED
      BY <2>1, <3>1, <3>2, <3>3
  <2> QED
    BY <1>1, <1>3, <2>1, <2>2 DEF Exact, Cleared, Filled, Ended, Modes, Set
<1>7. CASE ~Odd(h[1])
  <2>1. step' = "fill" /\ at' = at + 1
    BY <1>1, <1>7
  <2>2. ~erratum => OnlyBits(at - 1)'
    <3>1. at' - 1 = at /\ multiList' = multiList
      BY <1>1, <2>1
    <3> QED
      BY <1>5, <3>1 DEF OnlyBits
  <2> QED
    BY <1>1, <1>4, <2>1, <2>2 DEF Exact, Cleared, Filled, Ended, Modes, Set
<1> QED
  BY <1>6, <1>7

(* Without the erratum the register put back holds what it held before. *)
LEMMA ExactRestore ==
  ASSUME IInv, Exact, Restore
  PROVE  Exact'
<1> DEFINE r == Hash[multiList[at]][1]
<1>1. /\ step = "restore" /\ at \in 1 .. Len(multiList) /\ at \in Nat
      /\ UNCHANGED << vlan, vme, erratum, rctl, par, up, starting, multiList >>
      /\ mar' \in Written(r - 1, tmp) /\ step' = "fill" /\ at' = at + 1
      /\ Odd(r) /\ OnlySlots(at)
      /\ ~erratum => OnlyBits(at) /\ tmp = mar[r - 1]
      /\ mar \in [Regs -> SUBSET Bits]
  BY DEF Restore, softVars, IInv, Types, Populated, Exact, Filled
<1>2. r \in Regs
  BY <1>1 DEF IInv, Types
<1> HIDE DEF r
<1>3. at' - 1 = at /\ r - 1 \in Regs
  BY <1>1, <1>2, OddAfterEven
<1>4. OnlySlots(at - 1)'
  BY <1>1, <1>3 DEF OnlySlots
<1>5. ASSUME ~erratum
      PROVE  OnlyBits(at - 1)'
  <2>1. mar' = mar
    BY <1>1, <1>3, <1>5 DEF Written
  <2>2. \A q \in Regs : \A b \in mar[q] :
          \E k \in ParCnt .. at : Hash[multiList[k]] = << q, b >>
    BY <1>1, <1>5 DEF OnlyBits
  <2>3. multiList' = multiList
    BY <1>1
  <2> QED
    BY <1>3, <2>1, <2>2, <2>3, Zenon DEF OnlyBits
<1> QED
  BY <1>1, <1>4, <1>5 DEF Exact, Cleared, Filled, Ended, Modes, Set

(* ... geiEndHashTblPopulate, ... *)
LEMMA ExactPopulate ==
  ASSUME IInv, Exact, Populate
  PROVE  Exact'
<1>1. CASE ClearMpe
  BY <1>1 DEF ClearMpe, IInv, Types, Exact, Cleared, Filled, Ended, Modes, Set, softVars
<1>2. CASE Mode
  <2>1. /\ step = "mode" /\ UNCHANGED << vlan, vme, erratum, par, mar, up, starting, flags >>
        /\ OnlySlots(0) /\ (~erratum => OnlyBits(0)) /\ "MPE" \notin rctl
    BY <1>2 DEF Mode, softVars, Exact, Cleared, Modes
  <2>2. CASE flags # {}
    BY <1>2, <2>1, <2>2 DEF Mode, Done, Exact, Cleared, Filled, Ended, Modes, Set
  <2>3. CASE flags = {}
    <3>1. rctl' = rctl /\ step' = "fill" /\ at' = 1 /\ multiList' = multiList
      BY <1>2, <2>3 DEF Mode, softVars
    <3>2. at' - 1 = 0
      BY <3>1
    <3>3. OnlySlots(at - 1)' /\ (~erratum => OnlyBits(at - 1)')
      BY <2>1, <3>1, <3>2 DEF OnlySlots, OnlyBits
    <3> QED
      BY <2>1, <3>1, <3>3 DEF Exact, Cleared, Filled, Ended, Modes, Set
  <2> QED
    BY <2>2, <2>3
<1>3. CASE FillEnd
  <2>1. /\ step = "fill" /\ step' \in {"enable", "idle"}
        /\ UNCHANGED << vlan, vme, erratum, par, mar, up, starting, flags, multiList, rctl >>
    BY <1>3 DEF FillEnd, Done, softVars, chipVars
  <2>2. OnlySlots(at - 1) /\ (~erratum => OnlyBits(at - 1)) /\ "MPE" \notin rctl
    BY <2>1 DEF Exact, Filled, Modes
  <2>3. at - 1 = Len(multiList)
    <3>1. at \in Nat /\ Len(multiList) \in Nat /\ at <= Len(multiList) + 1
      BY <2>1 DEF IInv, Types, Populated
    <3>2. at > Len(multiList)
      BY <1>3 DEF FillEnd
    <3> QED
      BY <3>1, <3>2
  <2>4. Ended'
    <3>1. OnlySlots(Len(multiList)) /\ (~erratum => OnlyBits(Len(multiList)))
      BY <2>2, <2>3
    <3> QED
      BY <2>1, <2>2, <3>1, ZenonT(30) DEF Ended, OnlySlots, OnlyBits
  <2> QED
    BY <2>1, <2>2, <2>4 DEF Exact, Cleared, Filled, Modes, Set
<1> QED
  BY <1>1, <1>2, <1>3, ExactClearPar, ExactClearMar, ExactFillPar, ExactFillMar, ExactRestore
  DEF Populate

(* ... and no step at all. *)
LEMMA ExactStutter ==
  ASSUME Exact, UNCHANGED vars
  PROVE  Exact'
<1>1. /\ UNCHANGED << flags, multiList, par, mar, rctl, erratum, step, up, starting, at, tmp >>
      /\ UNCHANGED << vlan, vme >>
  BY DEF vars, softVars, workVars, chipVars
<1>2. Ended' /\ Modes'
  BY <1>1, EndedKept DEF Exact, Modes, Set
<1>3. Cleared'
  BY <1>1 DEF Exact, Cleared, OnlySlots, OnlyBits
<1>4. Filled'
  <2>1. /\ step' = step /\ at' = at /\ multiList' = multiList /\ erratum' = erratum
        /\ par' = par /\ mar' = mar /\ tmp' = tmp
    BY <1>1
  <2> QED
    BY <2>1, ZenonT(30) DEF Exact, Filled, OnlySlots, OnlyBits
<1> QED
  BY <1>2, <1>3, <1>4 DEF Exact

(* The three hold in every state. *)
LEMMA AllInvariance == Spec => [](IInv /\ Subscribed /\ Exact)
<1>1. IInv /\ Exact /\ [Next]_vars => Exact'
  BY ExactLife, ExactCommand, ExactConfig, ExactPopulate, ExactStutter DEF Next
<1>2. IInv /\ Subscribed /\ [Next]_vars => Subscribed'
  BY SubscribedNext
<1> QED
  BY Invariance, SubscribedInit, ExactInit, <1>1, <1>2, PTL DEF Spec

(* When no command is under way nothing is heard that was not asked for. *)
LEMMA NothingElse ==
  ASSUME IInv, Exact
  PROVE  NotMoreThanAsked
<1> SUFFICES ASSUME Quiet, flags = {}
             PROVE  /\ \A a \in Stations : HearsStation(a) => a = geiAddr
                    /\ ~erratum => \A g \in Groups : HearsGroup(g) =>
                         \/ g \in Listed
                         \/ \E i \in ParCnt .. Len(multiList) : Hash[multiList[i]] = Hash[g]
  BY DEF NotMoreThanAsked
<1>1. /\ step = "idle" /\ Set /\ par0 = geiAddr /\ "UPE" \notin rctl
      /\ "MPE" \notin rctl /\ OnlySlots(Len(multiList))
      /\ (~erratum => OnlyBits(Len(multiList)))
  BY DEF Quiet, Idle, Set, IInv, Configured, Exact, Ended
<1>2. \A a \in Stations : HearsStation(a) => a = geiAddr
  BY <1>1 DEF HearsStation
<1>3. ASSUME ~erratum, NEW g \in Groups, HearsGroup(g)
      PROVE  \/ g \in Listed
             \/ \E i \in ParCnt .. Len(multiList) : Hash[multiList[i]] = Hash[g]
  <2>1. (\E i \in Slots : par[i] = g) \/ Hash[g][2] \in mar[Hash[g][1]]
    BY <1>1, <1>3 DEF HearsGroup
  <2>2. ASSUME NEW i \in Slots, par[i] = g
        PROVE  g \in Listed
    <3>1. i \in 1 .. Len(multiList) /\ multiList[i] = g
      BY <1>1, <2>2 DEF OnlySlots, IInv, Types
    <3>2. multiList \in Seq(Groups)
      BY DEF IInv, Types
    <3>3. ToSet(multiList) = { multiList[a] : a \in 1 .. Len(multiList) }
      BY <3>2, ListByIndex
    <3> QED
      BY <3>1, <3>3 DEF Listed
  <2>3. ASSUME Hash[g][2] \in mar[Hash[g][1]]
        PROVE  \E i \in ParCnt .. Len(multiList) : Hash[multiList[i]] = Hash[g]
    <3>1. Hash[g][1] \in Regs /\ Hash[g] = << Hash[g][1], Hash[g][2] >>
      OBVIOUS
    <3>2. \A r \in Regs : \A b \in mar[r] :
            \E k \in ParCnt .. Len(multiList) : Hash[multiList[k]] = << r, b >>
      BY <1>1, <1>3 DEF OnlyBits
    <3>3. \E k \in ParCnt .. Len(multiList) : Hash[multiList[k]] = << Hash[g][1], Hash[g][2] >>
      BY <2>3, <3>1, <3>2, Zenon
    <3> QED
      BY <3>1, <3>3, Zenon
  <2> QED
    BY <2>1, <2>2, <2>3
<1> QED
  BY <1>2, <1>3

(* Whenever no command is under way the filter and the driver's state agree:
   the chip takes what is asked for and, but for groups that share a hash bit
   and the bits the 82544 leaves behind, nothing else; the list names every
   group subscribed to once; VLAN tags are stripped when the stack was told. *)
THEOREM FilterAlwaysAgrees == Spec => []FilterAgrees
<1>1. IInv /\ Subscribed /\ Exact => TypeOK
  <2> SUFFICES ASSUME IInv, Subscribed, Exact
               PROVE  TypeOK
    OBVIOUS
  <2>1. nMulti \in Nat
    BY DEF IInv, Types, Subscribed, ListAgrees
  <2>2. \A g \in Groups : refs[g] \in 0 .. MaxRefs[g] /\ asked[g] \in 0 .. MaxRefs[g]
    BY DEF Subscribed
  <2> QED
    BY <2>1, <2>2 DEF IInv, Types, Subscribed, Exact, Modes, TypeOK
<1>2. IInv => Listening
  BY HeardAll
<1>3. Exact => VlanAgrees
  BY DEF Exact, Modes, Set, VlanAgrees
<1> QED
  BY AllInvariance, <1>1, <1>2, <1>3, NothingElse, PTL DEF FilterAgrees, Subscribed

(* Who was told that it is subscribed hears its group, and no other group stays
   in the list, unless a command about it did nothing. *)
THEOREM SubscribersAlwaysHeard == Spec => []SubscribersHeard
<1>1. IInv /\ Subscribed /\ Listening => SubscribersHeard
  BY DEF Subscribed, ListAgrees, Listening, SubscribersHeard
<1> QED
  BY AllInvariance, NothingMissed, <1>1, PTL

(***************************************************************************)
(* The transmit ring.                                                      *)
(***************************************************************************)
HIDE DEF FilterConstants, Slots, Regs, Nothing

(* Where the chip is: never before what it was told of, never behind by more
   than it was left. *)
ChipPlace ==
  /\ 0 - DescCnt <= tdh /\ tdh <= tdt /\ tdt <= Len(ring)
  /\ Len(ghost) = IF tdh < 0 THEN 0 - tdh ELSE 0

PolledEmpty == polling = "yes" => ring = << >>

(* Polled mode and a lost link are mishaps. *)
LinkKept == mishaps = 0 => active /\ polling = "no"

(* m counts the descriptors after the last that hurries. *)
CountsTail(r, m) ==
  \A i \in 0 .. Len(r) : (\A j \in i + 1 .. Len(r) : ~Hurries(r[j])) => Len(r) - i <= m

MarkCounts ==
  /\ sinceMark <= MarkThresh + MaxFrags
  /\ devType = "legacy" /\ ~uncounted => CountsTail(ring, sinceMark)

(* TxTypeOK in two parts: what Publish writes, and the rest. *)
QueueTypes ==
  /\ ring \in Seq(Descriptor) /\ ghost \in Seq(Descriptor)
  /\ txFree \in 0 .. DescCnt
  /\ Len(ring) + txFree = DescCnt
  /\ tdh \in Int /\ tdt \in Int
  /\ lastCtx \in Contexts /\ chipCtx \in Contexts
  /\ sinceMark \in Nat
  /\ freed \subseteq Packet

IsFlag(x) == x = TRUE \/ x = FALSE

TaskTypes ==
  /\ devType \in {"legacy", "advanced"}
  /\ IsFlag(txStall) /\ IsFlag(active) /\ IsFlag(ir)
  /\ job \in {"idle", "tx", "restart"}
  /\ polling \in {"no", "draining", "yes"}
  /\ blocked \subseteq Senders
  /\ given \in [Senders -> Nat]
  /\ sent \in Seq(Packet)
  /\ mishaps \in 0 .. MaxMishaps
  /\ IsFlag(wrapped) /\ IsFlag(misread) /\ IsFlag(uncounted)

RingInv ==
  /\ TxTypeOK /\ ChipPlace /\ PolledEmpty /\ LinkKept /\ MarkCounts
  /\ StalledForAReason /\ MarkInvariant

(* A descriptor is new until the chip takes it, and no packet is behind the
   published tail. *)
Taken ==
  /\ Len(ring) - tdh < DescCnt
  /\ \A i \in 1 .. Len(ring) :
       /\ i > tdh => ring[i].st = "new"
       /\ i <= tdh /\ ring[i].kind = "eop" => ring[i].pkt \in SentPackets \cup {PollBuf}
       /\ i > tdt => ring[i].kind # "eop"

(* What the chip has yet to take, in its order. *)
Line(r, g, h) == [i \in 1 .. Len(r) - h |-> IF i <= Len(g) THEN g[i] ELSE r[i + h]]
Pending == Line(ring, ghost, tdh)

IsContext(d) == d.kind \in {"ctx", "advctx"}

(* The request the chip has when it comes to the descriptor at i. *)
InForce(p, chip, i, c) ==
  \/ \E j \in 1 .. i - 1 : /\ IsContext(p[j]) /\ p[j].ctx = c
                           /\ \A m \in j + 1 .. i - 1 : ~IsContext(p[m])
  \/ c = chip /\ \A m \in 1 .. i - 1 : ~IsContext(p[m])

(* Each packet of p finds its own request, and last is the one after p. *)
Owns(p, chip, last) ==
  /\ InForce(p, chip, Len(p) + 1, last)
  /\ \A i \in 1 .. Len(p) :
       p[i].kind = "eop" => p[i].ctx = NoContext \/ InForce(p, chip, i, p[i].ctx)

IsPacket(d) == d.kind = "eop" /\ d.pkt # PollBuf

InOrder(a, b) == a.s = b.s => a.n < b.n

(* The packets that left are in order, and those in p come after them in
   order. *)
Ordered(p, left, count) ==
  /\ \A i \in 1 .. Len(left) :
       /\ left[i].n <= count[left[i].s]
       /\ \A j \in 1 .. Len(left) : i < j => InOrder(left[i], left[j])
  /\ \A i \in 1 .. Len(p) : IsPacket(p[i]) =>
       /\ p[i].pkt.n <= count[p[i].pkt.s]
       /\ \A j \in 1 .. Len(left) : InOrder(left[j], p[i].pkt)
       /\ \A j \in i + 1 .. Len(p) : IsPacket(p[j]) => InOrder(p[i].pkt, p[j].pkt)

Sound ==
  /\ Taken
  /\ freed \subseteq SentPackets
  /\ ~misread /\ Owns(Pending, chipCtx, lastCtx)
  /\ Ordered(Pending, sent, given)

SentInv == RingInv /\ (~wrapped => Sound)

(***************************************************************************)
(* The ring a call works on.                                               *)
(***************************************************************************)
Queue == [ring : Seq(Descriptor), free : Nat, ctx : Contexts, mark : Nat]

(* What the assumptions say of the numbers. *)
LEMMA TxConstants ==
  /\ DescCnt \in Nat /\ MaxFrags \in Nat /\ MarkThresh \in Nat
  /\ MaxFrags >= 1 /\ MarkThresh >= 1 /\ DescCnt > MaxFrags + 1
  /\ NoContext \in Contexts /\ MaxMishaps \in Nat
BY TxRingAssumption DEF TxRingConstants

(* A function on 1 .. n is a sequence of length n. *)
LEMMA FunctionIsSeq ==
  ASSUME NEW S, NEW n \in Nat, NEW p \in [1 .. n -> S]
  PROVE  p \in Seq(S) /\ Len(p) = n
<1>1. p \in Seq(S)
  <2>1. [1 .. n -> S] \in { [1 .. m -> S] : m \in Nat }
    OBVIOUS
  <2> QED
    BY <2>1, SeqDef
<1>2. DOMAIN p = 1 .. Len(p) /\ Len(p) \in Nat
  BY <1>1, LenProperties
<1> QED
  BY <1>1, <1>2

(* A new descriptor. *)
LEMMA EntryIs ==
  ASSUME NEW kind \in {"ctx", "advctx", "data", "eop"}, NEW p \in Packet \cup {PollBuf},
         NEW c \in Contexts, NEW u \in BOOLEAN
  PROVE  /\ Entry(kind, p, c, u) \in Descriptor
         /\ Entry(kind, p, c, u).kind = kind
         /\ Entry(kind, p, c, u).pkt = p
         /\ Entry(kind, p, c, u).ctx = c
         /\ Entry(kind, p, c, u).urgent = u
         /\ Entry(kind, p, c, u).st = "new"
<1>1. "new" \in {"new", "sent", "done"}
  OBVIOUS
<1> QED
  BY <1>1, Zenon DEF Entry, Descriptor

(* What is left of a sequence without its first k. *)
LEMMA WithoutFirst ==
  ASSUME NEW S, NEW s \in Seq(S), NEW k \in 0 .. Len(s)
  PROVE  /\ SubSeq(s, k + 1, Len(s)) \in Seq(S)
         /\ Len(SubSeq(s, k + 1, Len(s))) = Len(s) - k
         /\ \A i \in 1 .. Len(s) - k : SubSeq(s, k + 1, Len(s))[i] = s[i + k]
<1>1. Len(s) \in Nat /\ \A i \in k + 1 .. Len(s) : s[i] \in S
  BY LenProperties, ElementOfSeq
<1> DEFINE r == SubSeq(s, k + 1, Len(s))
<1>2. /\ r \in Seq(S)
      /\ Len(r) = IF k + 1 <= Len(s) THEN Len(s) - (k + 1) + 1 ELSE 0
      /\ \A i \in 1 .. Len(s) - (k + 1) + 1 : r[i] = s[(k + 1) + i - 1]
  BY <1>1, SubSeqProperties
<1> HIDE DEF r
<1>3. \A i \in 1 .. Len(s) - k : r[i] = s[i + k]
  <2> TAKE i \in 1 .. Len(s) - k
  <2>1. i \in 1 .. Len(s) - (k + 1) + 1 /\ (k + 1) + i - 1 = i + k
    BY <1>1
  <2> QED
    BY <1>2, <2>1
<1>4. Len(r) = Len(s) - k
  BY <1>1, <1>2
<1> QED
  BY <1>2, <1>3, <1>4 DEF r

(* Reclaiming k descriptors takes them off the front. *)
LEMMA CleanedIs ==
  ASSUME TxTypeOK, NEW k \in 0 .. Len(ring)
  PROVE  /\ Cleaned(k) \in Queue
         /\ Len(Cleaned(k).ring) = Len(ring) - k
         /\ \A i \in 1 .. Len(ring) - k : Cleaned(k).ring[i] = ring[i + k]
         /\ Cleaned(k).free = txFree + k
         /\ Len(Cleaned(k).ring) + Cleaned(k).free = DescCnt
         /\ Cleaned(k).ctx = lastCtx
         /\ Cleaned(k).mark <= Len(ring) - k
         /\ \/ Cleaned(k).mark = sinceMark
            \/ Cleaned(k).mark = Len(ring) - k /\ Cleaned(k).mark <= sinceMark
<1> USE TxConstants
<1>1. /\ ring \in Seq(Descriptor) /\ txFree \in 0 .. DescCnt /\ lastCtx \in Contexts
      /\ sinceMark \in Nat /\ Len(ring) + txFree = DescCnt /\ Len(ring) \in Nat
  BY LenProperties DEF TxTypeOK
<1> DEFINE r == SubSeq(ring, k + 1, Len(ring))
           m == IF sinceMark > DescCnt - (txFree + k) THEN DescCnt - (txFree + k)
                ELSE sinceMark
<1>2. /\ r \in Seq(Descriptor) /\ Len(r) = Len(ring) - k
      /\ \A i \in 1 .. Len(ring) - k : r[i] = ring[i + k]
  BY <1>1, WithoutFirst
<1>3. /\ m \in Nat /\ m <= Len(ring) - k
      /\ m = sinceMark \/ (m = Len(ring) - k /\ m <= sinceMark)
  BY <1>1
<1>4. Cleaned(k) = [ring |-> r, free |-> txFree + k, ctx |-> lastCtx, mark |-> m]
  BY DEF Cleaned
<1> HIDE DEF r, m
<1>5. /\ Cleaned(k).ring = r /\ Cleaned(k).free = txFree + k
      /\ Cleaned(k).ctx = lastCtx /\ Cleaned(k).mark = m
  BY <1>4
<1>6. txFree + k \in Nat
  BY <1>1
<1>7. Cleaned(k) \in Queue
  BY <1>1, <1>2, <1>3, <1>4, <1>6 DEF Queue
<1>8. (Len(ring) - k) + (txFree + k) = DescCnt
  BY <1>1
<1> QED
  BY <1>2, <1>3, <1>5, <1>7, <1>8

(* A request the chip does not have takes a context descriptor. *)
LEMMA WithContextIs ==
  ASSUME NEW q \in Queue, q.free >= 1, NEW c \in Contexts,
         WithContext(q, c) # q
  PROVE  \E d \in Descriptor :
           /\ IsContext(d) /\ d.ctx = c /\ d.st = "new"
           /\ WithContext(q, c) \in Queue
           /\ WithContext(q, c).ring = Append(q.ring, d)
           /\ WithContext(q, c).free = q.free - 1
           /\ WithContext(q, c).ctx = c
           /\ WithContext(q, c).mark = q.mark
<1> DEFINE kind == IF devType = "advanced" THEN "advctx" ELSE "ctx"
           d == Entry(kind, PollBuf, c, FALSE)
<1>1. d \in Descriptor /\ IsContext(d) /\ d.ctx = c /\ d.st = "new"
  <2>1. kind \in {"ctx", "advctx"} /\ kind \in {"ctx", "advctx", "data", "eop"}
    OBVIOUS
  <2> HIDE DEF kind
  <2>2. PollBuf \in Packet \cup {PollBuf} /\ FALSE \in BOOLEAN
    OBVIOUS
  <2>3. d \in Descriptor /\ d.kind = kind /\ d.ctx = c /\ d.st = "new"
    <3>1. \A u \in BOOLEAN : LET e == Entry(kind, PollBuf, c, u) IN
            e \in Descriptor /\ e.kind = kind /\ e.ctx = c /\ e.st = "new"
      BY <2>1, <2>2, EntryIs
    <3> QED
      BY <2>2, <3>1, Zenon
  <2> QED
    BY <2>1, <2>3 DEF IsContext
<1>2. WithContext(q, c) = [q EXCEPT !.ring = Append(q.ring, d), !.free = q.free - 1, !.ctx = c]
  BY DEF WithContext, AdvContext, LegacyContext
<1> HIDE DEF d
<1>3. /\ q.ring \in Seq(Descriptor) /\ q.free \in Nat /\ q.mark \in Nat
      /\ q = [ring |-> q.ring, free |-> q.free, ctx |-> q.ctx, mark |-> q.mark]
  BY DEF Queue
<1>4. WithContext(q, c) = [ring |-> Append(q.ring, d), free |-> q.free - 1, ctx |-> c,
                           mark |-> q.mark]
  BY <1>2, <1>3
<1>5. Append(q.ring, d) \in Seq(Descriptor) /\ q.free - 1 \in Nat
  BY <1>1, <1>3, AppendProperties
<1>6. WithContext(q, c) \in Queue
  BY <1>3, <1>4, <1>5 DEF Queue
<1> QED
  BY <1>1, <1>4, <1>6

(* No descriptor is needed for a request the chip has. *)
LEMMA NoContextNeeded ==
  ASSUME NEW q \in Queue, NEW c \in Contexts, q.free >= 1, WithContext(q, c) = q
  PROVE  c \in {NoContext, q.ctx}
<1>1. CASE c \in {NoContext, q.ctx}
  BY <1>1
<1>2. CASE c \notin {NoContext, q.ctx}
  <2>1. WithContext(q, c).free = q.free - 1
    BY <1>2 DEF WithContext, AdvContext, LegacyContext, Queue
  <2>2. q.free \in Nat
    BY DEF Queue
  <2> QED
    BY <2>1, <2>2
<1> QED
  BY <1>1, <1>2

(* A packet of f pieces takes f descriptors, the last of which ends it. *)
IsPacketAt(r, n, f, p, c) ==
  /\ \A i \in n + 1 .. n + f : r[i].st = "new" /\ (i < n + f => r[i].kind = "data")
  /\ r[n + f].kind = "eop" /\ r[n + f].pkt = p /\ r[n + f].ctx = c

(* The descriptors of a packet behind the ring. *)
LEMMA DataIs ==
  ASSUME NEW q \in Queue, NEW p \in Packet \cup {PollBuf}, NEW c \in Contexts,
         NEW f \in Nat \ {0}, NEW u \in BOOLEAN
  PROVE  LET r == Data(q, p, c, f, u)
             n == Len(q.ring)
         IN /\ r \in Seq(Descriptor)
            /\ n \in Nat /\ Len(r) = n + f
            /\ \A i \in 1 .. n : r[i] = q.ring[i]
            /\ IsPacketAt(r, n, f, p, c)
            /\ r[n + f].urgent = u
<1> DEFINE last == Entry("eop", p, c, u)
           piece == Entry("data", p, NoContext, FALSE)
           new == [i \in 1 .. f |-> IF i = f THEN last ELSE piece]
           n == Len(q.ring)
           r == q.ring \o new
<1>1. /\ last \in Descriptor /\ last.kind = "eop" /\ last.pkt = p /\ last.ctx = c
      /\ last.urgent = u /\ last.st = "new"
  <2>1. "eop" \in {"ctx", "advctx", "data", "eop"} /\ "new" \in {"new", "sent", "done"}
    OBVIOUS
  <2> QED
    BY <2>1, Zenon DEF Entry, Descriptor
<1>2. piece \in Descriptor /\ piece.kind = "data" /\ piece.st = "new"
  <2>1. /\ "data" \in {"ctx", "advctx", "data", "eop"} /\ "new" \in {"new", "sent", "done"}
        /\ FALSE \in BOOLEAN /\ NoContext \in Contexts
    BY TxConstants
  <2> QED
    BY <2>1, Zenon DEF Entry, Descriptor
<1> HIDE DEF last, piece
<1>3. new \in [1 .. f -> Descriptor]
  BY <1>1, <1>2
<1>4. new \in Seq(Descriptor) /\ Len(new) = f
  BY <1>3, FunctionIsSeq
<1>5. new[f] = last /\ \A i \in 1 .. f : i # f => new[i] = piece
  BY DEF new
<1> HIDE DEF new
<1>6. q.ring \in Seq(Descriptor) /\ n \in Nat
  BY LenProperties DEF Queue
<1>7. /\ r \in Seq(Descriptor) /\ Len(r) = n + f
      /\ \A i \in 1 .. n + f : r[i] = IF i <= n THEN q.ring[i] ELSE new[i - n]
  BY <1>4, <1>6, ConcatProperties
<1> HIDE DEF r
<1>8. \A i \in 1 .. n : r[i] = q.ring[i]
  BY <1>6, <1>7
<1>9. r[n + f] = last
  <2>1. n + f \in 1 .. n + f /\ ~(n + f <= n) /\ (n + f) - n = f
    BY <1>6
  <2> QED
    BY <1>5, <1>7, <2>1
<1>10. ASSUME NEW i \in n + 1 .. n + f, i < n + f
       PROVE  r[i] = piece
  <2>1. i \in 1 .. n + f /\ ~(i <= n) /\ i - n \in 1 .. f /\ i - n # f
    BY <1>6, <1>10
  <2> QED
    BY <1>5, <1>7, <2>1
<1>11. IsPacketAt(r, n, f, p, c)
  <2>1. ASSUME NEW i \in n + 1 .. n + f
        PROVE  r[i].st = "new" /\ (i < n + f => r[i].kind = "data")
    <3>1. CASE i < n + f
      BY <1>2, <1>10, <3>1
    <3>2. CASE ~(i < n + f)
      <4>1. i = n + f
        BY <1>6, <3>2
      <4> QED
        BY <1>1, <1>9, <3>2, <4>1
    <3> QED
      BY <3>1, <3>2
  <2> QED
    BY <1>1, <1>9, <2>1 DEF IsPacketAt
<1>12. r = Data(q, p, c, f, u)
  BY DEF r, Data, new, last, piece
<1>13. r[n + f].urgent = u
  BY <1>1, <1>9, Zenon
<1>14. r \in Seq(Descriptor) /\ n \in Nat /\ Len(r) = n + f
  BY <1>6, <1>7
<1> QED
  BY <1>8, <1>11, <1>12, <1>13, <1>14, Zenon

(* What geiEndEncap and geiEndAdvEncap add to the ring and to geiTxSinceMark. *)
LEMMA WithDataIs ==
  ASSUME NEW q \in Queue, NEW p \in Packet \cup {PollBuf}, NEW c \in Contexts,
         NEW f \in Nat \ {0}, f <= q.free, NEW used \in Nat,
         NEW q2, q2 = WithData(q, p, c, f, used)
  PROVE  /\ q2 \in Queue
         /\ Len(q.ring) \in Nat /\ Len(q2.ring) = Len(q.ring) + f
         /\ \A i \in 1 .. Len(q.ring) : q2.ring[i] = q.ring[i]
         /\ IsPacketAt(q2.ring, Len(q.ring), f, p, c)
         /\ q2.free = q.free - f
         /\ q2.ctx = q.ctx
         /\ q2.mark = q.mark \/ q2.mark = 0 \/ (q.mark < MarkThresh /\ q2.mark = q.mark + used)
         /\ devType # "advanced" =>
              Hurries(q2.ring[Len(q.ring) + f]) \/ q2.mark = q.mark + used
<1> DEFINE n == Len(q.ring)
           u == IF devType = "advanced" THEN TRUE ELSE Urgent(q)
           r == Data(q, p, c, f, u)
           m == IF devType = "advanced" THEN q.mark
                ELSE IF Urgent(q) THEN 0 ELSE q.mark + used
<1>1. /\ r \in Seq(Descriptor)
      /\ n \in Nat /\ Len(r) = n + f
      /\ \A i \in 1 .. n : r[i] = q.ring[i]
      /\ IsPacketAt(r, n, f, p, c)
      /\ r[n + f].urgent = u
  <2>1. u \in BOOLEAN
    <3>1. Urgent(q) \in BOOLEAN
      BY DEF Urgent
    <3> QED
      BY <3>1, Zenon
  <2>2. ASSUME NEW v \in BOOLEAN
        PROVE  LET d == Data(q, p, c, f, v) IN
               /\ d \in Seq(Descriptor)
               /\ n \in Nat /\ Len(d) = n + f
               /\ \A i \in 1 .. n : d[i] = q.ring[i]
               /\ IsPacketAt(d, n, f, p, c)
               /\ d[n + f].urgent = v
    BY DataIs
  <2> HIDE DEF u
  <2> QED
    BY <2>1, <2>2, Zenon
<1>2. q.free \in Nat /\ q.ctx \in Contexts /\ q.mark \in Nat
      /\ q = [ring |-> q.ring, free |-> q.free, ctx |-> q.ctx, mark |-> q.mark]
  BY DEF Queue
<1>3. WithData(q, p, c, f, used) = [ring |-> r, free |-> q.free - f, ctx |-> q.ctx, mark |-> m]
  <2>1. CASE devType = "advanced"
    <3>1. u = TRUE /\ m = q.mark
      BY <2>1, Zenon
    <3>2. WithData(q, p, c, f, used) =
            [q EXCEPT !.ring = Data(q, p, c, f, TRUE), !.free = q.free - f]
      BY <2>1 DEF WithData, AdvData
    <3>3. r = Data(q, p, c, f, TRUE)
      BY <3>1, Zenon
    <3> HIDE DEF r, u, m
    <3> QED
      BY <1>2, <3>1, <3>2, <3>3
  <2>2. CASE devType # "advanced"
    <3>1. u = Urgent(q) /\ m = IF Urgent(q) THEN 0 ELSE q.mark + used
      BY <2>2, Zenon
    <3>2. WithData(q, p, c, f, used) =
            [q EXCEPT !.ring = Data(q, p, c, f, Urgent(q)), !.free = q.free - f,
                      !.mark = IF Urgent(q) THEN 0 ELSE q.mark + used]
      BY <2>2, Zenon DEF WithData, LegacyData
    <3>3. r = Data(q, p, c, f, Urgent(q))
      BY <3>1, Zenon
    <3> HIDE DEF r, u, m
    <3>4. WithData(q, p, c, f, used) = [q EXCEPT !.ring = r, !.free = q.free - f, !.mark = m]
      BY <3>1, <3>2, <3>3, Zenon
    <3> QED
      BY <1>2, <3>4
  <2> QED
    BY <2>1, <2>2
<1>4. m \in Nat /\ (m = q.mark \/ m = 0 \/ (q.mark < MarkThresh /\ m = q.mark + used))
  BY <1>2, TxConstants DEF Urgent
<1>5. devType # "advanced" => Hurries(r[n + f]) \/ m = q.mark + used
  <2> SUFFICES ASSUME devType # "advanced"
               PROVE  Hurries(r[n + f]) \/ m = q.mark + used
    OBVIOUS
  <2>1. CASE Urgent(q)
    <3>1. r[n + f].urgent = u /\ u
      BY <1>1, <2>1, Zenon
    <3>2. r[n + f].urgent
      BY <3>1, Zenon
    <3>3. r[n + f].kind = "eop"
      BY <1>1, Zenon DEF IsPacketAt
    <3> QED
      BY <3>2, <3>3, Zenon DEF Hurries
  <2>2. CASE ~Urgent(q)
    BY <2>2
  <2> QED
    BY <2>1, <2>2
<1> HIDE DEF r, m, u
<1>6. q2.ring = r /\ q2.free = q.free - f /\ q2.ctx = q.ctx /\ q2.mark = m
  BY <1>3
<1>7. q2 \in Queue
  <2>1. q.free - f \in Nat
    BY <1>2
  <2> QED
    BY <1>1, <1>2, <1>3, <1>4, <2>1 DEF Queue
<1> HIDE DEF n
<1> QED
  BY <1>1, <1>4, <1>5, <1>6, <1>7, Zenon DEF n

(* Reclaiming keeps the count. *)
LEMMA CountsCleaned ==
  ASSUME TxTypeOK, NEW k \in 0 .. Len(ring), CountsTail(ring, sinceMark)
  PROVE  CountsTail(Cleaned(k).ring, Cleaned(k).mark)
<1> DEFINE r == Cleaned(k).ring
           m == Cleaned(k).mark
<1>1. /\ Len(r) = Len(ring) - k
      /\ \A i \in 1 .. Len(ring) - k : r[i] = ring[i + k]
      /\ m = sinceMark \/ m = Len(ring) - k
      /\ Len(ring) \in Nat
  <2>1. ring \in Seq(Descriptor)
    BY DEF TxTypeOK
  <2> QED
    BY <2>1, CleanedIs, LenProperties
<1> HIDE DEF r, m
<1> SUFFICES ASSUME NEW i \in 0 .. Len(r), \A j \in i + 1 .. Len(r) : ~Hurries(r[j])
             PROVE  Len(r) - i <= m
  BY DEF CountsTail, r, m
<1>2. i + k \in 0 .. Len(ring)
  BY <1>1
<1>3. ASSUME NEW j \in (i + k) + 1 .. Len(ring)
      PROVE  ~Hurries(ring[j])
  <2>1. j - k \in i + 1 .. Len(r) /\ j - k \in 1 .. Len(ring) - k /\ (j - k) + k = j
    BY <1>1
  <2> QED
    BY <1>1, <2>1
<1>4. Len(ring) - (i + k) <= sinceMark
  BY <1>2, <1>3 DEF CountsTail
<1> QED
  BY <1>1, <1>4

(* So does a packet that is counted or hurries. *)
LEMMA CountsGrown ==
  ASSUME NEW r \in Seq(Descriptor), NEW r2 \in Seq(Descriptor), NEW m \in Nat, NEW m2 \in Nat,
         CountsTail(r, m), Len(r2) > Len(r), \A i \in 1 .. Len(r) : r2[i] = r[i],
         Hurries(r2[Len(r2)]) \/ m2 = m + (Len(r2) - Len(r))
  PROVE  CountsTail(r2, m2)
<1>1. Len(r) \in Nat /\ Len(r2) \in Nat
  BY LenProperties
<1> SUFFICES ASSUME NEW i \in 0 .. Len(r2), \A j \in i + 1 .. Len(r2) : ~Hurries(r2[j])
             PROVE  Len(r2) - i <= m2
  BY DEF CountsTail
<1>2. CASE i = Len(r2)
  BY <1>1, <1>2
<1>3. CASE i # Len(r2)
  <2>1. Len(r2) \in i + 1 .. Len(r2)
    BY <1>1, <1>3
  <2>2. m2 = m + (Len(r2) - Len(r))
    BY <2>1
  <2>3. CASE i <= Len(r)
    <3>1. i \in 0 .. Len(r)
      BY <1>1, <2>3
    <3>2. \A j \in i + 1 .. Len(r) : ~Hurries(r[j])
      <4> TAKE j \in i + 1 .. Len(r)
      <4>1. j \in i + 1 .. Len(r2) /\ j \in 1 .. Len(r)
        BY <1>1, <3>1
      <4> QED
        BY <4>1
    <3>3. Len(r) - i <= m
      BY <3>1, <3>2 DEF CountsTail
    <3> QED
      BY <1>1, <2>2, <3>3
  <2>4. CASE ~(i <= Len(r))
    BY <1>1, <2>2, <2>4
  <2> QED
    BY <2>3, <2>4
<1> QED
  BY <1>2, <1>3

(* The ring after the clean-up and the context descriptor of a first
   attempt. *)
LEMMA FirstAttempt ==
  ASSUME TxTypeOK, NEW k \in 0 .. Len(ring), NEW c \in Contexts, txFree # 0
  PROVE  LET q  == Cleaned(k)
             q1 == WithContext(q, c)
         IN /\ q1 \in Queue
            /\ Len(q1.ring) + q1.free = DescCnt
            /\ Len(q1.ring) - Len(q.ring) \in {0, 1}
            /\ Used(q, q1) = Len(q1.ring) - Len(q.ring)
            /\ \A i \in 1 .. Len(q.ring) : q1.ring[i] = q.ring[i]
            /\ q1.mark = q.mark
<1> DEFINE q  == Cleaned(k)
           q1 == WithContext(q, c)
<1>1. /\ q \in Queue /\ q.free = txFree + k /\ Len(q.ring) + q.free = DescCnt
  BY CleanedIs
<1>2. q.ring \in Seq(Descriptor) /\ q.free >= 1 /\ q.free \in Nat /\ Len(q.ring) \in Nat
      /\ DescCnt \in Nat
  <2>1. txFree \in Nat
    BY TxConstants DEF TxTypeOK
  <2> QED
    BY <1>1, <2>1, LenProperties, TxConstants DEF Queue
<1> HIDE DEF q
<1>3. CASE q1 = q
  <2>1. Used(q, q1) = 0
    BY <1>2, <1>3 DEF Used
  <2> QED
    BY <1>1, <1>2, <1>3, <2>1 DEF q
<1>4. CASE q1 # q
  <2>1. PICK d \in Descriptor : /\ q1 \in Queue
                                /\ q1.ring = Append(q.ring, d)
                                /\ q1.free = q.free - 1
                                /\ q1.mark = q.mark
    BY <1>1, <1>2, <1>4, WithContextIs
  <2>2. /\ Len(q1.ring) = Len(q.ring) + 1
        /\ \A i \in 1 .. Len(q.ring) : q1.ring[i] = q.ring[i]
    BY <1>2, <2>1, AppendProperties
  <2>3. Used(q, q1) = 1
    BY <1>2, <2>1 DEF Used
  <2> HIDE DEF q1
  <2>4. Len(q1.ring) + q1.free = DescCnt /\ Len(q1.ring) - Len(q.ring) = 1
    BY <1>1, <1>2, <2>1, <2>2
  <2> QED
    BY <2>1, <2>2, <2>3, <2>4 DEF q, q1
<1> QED
  BY <1>3, <1>4

(* The ring after a packet went in behind it. *)
LEMMA PacketAdded ==
  ASSUME TxTypeOK, MarkCounts, NEW k \in 0 .. Len(ring), NEW c \in Contexts, txFree # 0,
         NEW p \in Packet \cup {PollBuf}, NEW f \in 1 .. MaxFrags, NEW used \in Nat,
         Fits(WithContext(Cleaned(k), c), f),
         used <= Used(Cleaned(k), WithContext(Cleaned(k), c)) + f
  PROVE  LET q  == Cleaned(k)
             q1 == WithContext(q, c)
             q2 == WithData(q1, p, c, f, used)
         IN /\ q2 \in Queue
            /\ Len(q2.ring) + q2.free = DescCnt
            /\ Len(q2.ring) = Len(q1.ring) + f
            /\ Len(q2.ring) > Len(q.ring)
            /\ q2.mark <= MarkThresh + MaxFrags
            /\ q2.mark <= Len(q2.ring)
            /\ /\ devType = "legacy" /\ CountsTail(ring, sinceMark)
               /\ used = Len(q2.ring) - Len(q.ring)
               => CountsTail(q2.ring, q2.mark)
<1> DEFINE q  == Cleaned(k)
           q1 == WithContext(q, c)
           q2 == WithData(q1, p, c, f, used)
<1>1. /\ q \in Queue /\ q.mark <= Len(q.ring) /\ q.mark <= sinceMark
      /\ sinceMark \in Nat
  <2>1. sinceMark \in Nat
    BY DEF TxTypeOK
  <2>2. /\ q \in Queue /\ Len(q.ring) = Len(ring) - k /\ q.mark <= Len(ring) - k
        /\ q.mark = sinceMark \/ q.mark <= sinceMark
    BY CleanedIs
  <2> HIDE DEF q
  <2> QED
    BY <2>1, <2>2
<1>2. /\ q1 \in Queue /\ Len(q1.ring) + q1.free = DescCnt
      /\ Len(q1.ring) - Len(q.ring) \in {0, 1}
      /\ Used(q, q1) = Len(q1.ring) - Len(q.ring)
      /\ \A i \in 1 .. Len(q.ring) : q1.ring[i] = q.ring[i]
      /\ q1.mark = q.mark
  BY FirstAttempt
<1>3. f \in Nat \ {0} /\ f <= q1.free /\ f <= MaxFrags
  BY TxConstants DEF Fits
<1> HIDE DEF q, q1
<1>4. /\ q2 \in Queue
      /\ Len(q2.ring) = Len(q1.ring) + f
      /\ \A i \in 1 .. Len(q1.ring) : q2.ring[i] = q1.ring[i]
      /\ q2.free = q1.free - f
      /\ q2.mark = q1.mark \/ q2.mark = 0 \/ (q1.mark < MarkThresh /\ q2.mark = q1.mark + used)
      /\ devType # "advanced" =>
           Hurries(q2.ring[Len(q1.ring) + f]) \/ q2.mark = q1.mark + used
  <2> HIDE DEF q2
  <2>1. q2 = WithData(q1, p, c, f, used)
    BY DEF q2
  <2>2. q1 \in Queue
    BY <1>2
  <2> QED
    BY <1>3, <2>1, <2>2, WithDataIs, SMTT(30)
<1> HIDE DEF q2
<1>5. /\ Len(q.ring) \in Nat /\ Len(q1.ring) \in Nat /\ Len(q2.ring) \in Nat
      /\ q.mark \in Nat /\ q1.free \in Nat /\ q2.mark \in Nat
      /\ q.ring \in Seq(Descriptor) /\ q2.ring \in Seq(Descriptor)
  BY <1>1, <1>2, <1>4, LenProperties DEF Queue
<1>6. /\ Len(q2.ring) + q2.free = DescCnt
      /\ Len(q2.ring) > Len(q.ring)
  <2>1. /\ Len(q1.ring) + q1.free = DescCnt /\ Len(q1.ring) - Len(q.ring) \in {0, 1}
        /\ Len(q2.ring) = Len(q1.ring) + f /\ q2.free = q1.free - f
    BY <1>2, <1>4
  <2> DEFINE n0 == Len(q.ring)
             n1 == Len(q1.ring)
             n2 == Len(q2.ring)
  <2>2. /\ n1 + q1.free = DescCnt /\ n1 - n0 \in {0, 1} /\ n2 = n1 + f
        /\ q2.free = q1.free - f /\ f \in Nat \ {0} /\ q1.free \in Nat
        /\ n0 \in Nat /\ n1 \in Nat
    BY <1>3, <1>5, <2>1
  <2> HIDE DEF n0, n1, n2
  <2>3. n2 + q2.free = DescCnt /\ n2 > n0
    BY <2>2
  <2> QED
    BY <2>3 DEF n0, n2
<1>7. used <= Len(q2.ring) - Len(q.ring) /\ used <= MaxFrags + 1
  <2>1. used <= Used(q, q1) + f
    BY DEF q, q1
  <2>2. Used(q, q1) = Len(q1.ring) - Len(q.ring) /\ Len(q1.ring) - Len(q.ring) \in {0, 1}
    BY <1>2
  <2>3. Len(q2.ring) = Len(q1.ring) + f
    BY <1>4
  <2> DEFINE n0 == Len(q.ring)
             n1 == Len(q1.ring)
             n2 == Len(q2.ring)
  <2>4. /\ used <= (n1 - n0) + f /\ n1 - n0 \in {0, 1} /\ n2 = n1 + f
        /\ f \in Nat /\ f <= MaxFrags /\ MaxFrags \in Nat
        /\ n0 \in Nat /\ n1 \in Nat /\ used \in Nat
    BY <1>3, <1>5, <2>1, <2>2, <2>3, TxConstants
  <2> HIDE DEF n0, n1, n2
  <2>5. used <= n2 - n0 /\ used <= MaxFrags + 1
    BY <2>4
  <2> QED
    BY <2>5 DEF n0, n2
<1>8. q2.mark <= MarkThresh + MaxFrags
  <2>1. sinceMark <= MarkThresh + MaxFrags /\ q.mark <= sinceMark /\ q1.mark = q.mark
    BY <1>1, <1>2 DEF MarkCounts
  <2>2. \/ q2.mark = q1.mark \/ q2.mark = 0
        \/ q1.mark < MarkThresh /\ q2.mark = q1.mark + used
    BY <1>4
  <2>3. q.mark \in Nat /\ sinceMark \in Nat
    BY <1>1, <1>5
  <2>4. CASE q1.mark < MarkThresh /\ q2.mark = q1.mark + used
    <3>1. q.mark + 1 <= MarkThresh /\ q2.mark = q.mark + used
      BY <2>1, <2>3, <2>4, TxConstants
    <3> QED
      BY <1>7, <2>3, <3>1, TxConstants
  <2>5. CASE q2.mark = q1.mark \/ q2.mark = 0
    BY <2>1, <2>3, <2>5, TxConstants
  <2> QED
    BY <2>2, <2>4, <2>5
<1>9. q2.mark <= Len(q2.ring)
  <2>1. q.mark <= Len(q.ring) /\ q1.mark = q.mark /\ used <= Len(q2.ring) - Len(q.ring)
    BY <1>1, <1>2, <1>7
  <2>2. q2.mark = q.mark \/ q2.mark = 0 \/ q2.mark = q.mark + used
    BY <1>4, <2>1
  <2> QED
    BY <1>5, <1>6, <2>1, <2>2
<1>10. ASSUME devType = "legacy", CountsTail(ring, sinceMark),
              used = Len(q2.ring) - Len(q.ring)
       PROVE  CountsTail(q2.ring, q2.mark)
  <2>1. CountsTail(q.ring, q.mark)
    BY <1>10, CountsCleaned DEF q
  <2>2. Hurries(q2.ring[Len(q2.ring)]) \/ q2.mark = q.mark + (Len(q2.ring) - Len(q.ring))
    BY <1>2, <1>4, <1>10
  <2>3. \A i \in 1 .. Len(q.ring) : q2.ring[i] = q.ring[i]
    <3> TAKE i \in 1 .. Len(q.ring)
    <3>1. i \in 1 .. Len(q1.ring)
      BY <1>2, <1>5
    <3> QED
      BY <1>2, <1>4, <3>1
  <2> QED
    BY <1>5, <1>6, <2>1, <2>2, <2>3, CountsGrown
<1> QED
  BY <1>4, <1>6, <1>8, <1>9, <1>10 DEF q, q1, q2

(* The two parts together are TxTypeOK, ... *)
LEMMA TypesSplit == TxTypeOK <=> QueueTypes /\ TaskTypes
BY Zenon DEF TxTypeOK, QueueTypes, TaskTypes, IsFlag

(* ... after a step too. *)
LEMMA TypesAfter == QueueTypes' /\ TaskTypes' => TxTypeOK'
BY Zenon DEF TxTypeOK, QueueTypes, TaskTypes, IsFlag

(* What a ring holds are packets and poll buffers. *)
LEMMA PacketsInRing ==
  ASSUME NEW q \in Seq(Descriptor)
  PROVE  PacketsIn(q) \ {PollBuf} \subseteq Packet
<1> SUFFICES ASSUME NEW i \in 1 .. Len(q)
             PROVE  q[i].pkt \in Packet \cup {PollBuf}
  BY DEF PacketsIn
<1>1. q[i] \in Descriptor
  BY ElementOfSeq
<1> QED
  BY <1>1 DEF Descriptor

(* What the chip has yet to take of the old ring goes behind the ghosts. *)
GhostGrows ==
  \A i \in 1 .. Len(ghost') :
    ghost'[i] = IF i <= Len(ghost) THEN ghost[i] ELSE ring[i + tdh]

(* What of the k reclaimed descriptors the chip has yet to take goes behind
   geiTxCons. *)
LEMMA GhostsGrow ==
  ASSUME QueueTypes, ChipPlace, NEW k \in 0 .. Len(ring),
         ghost' = ghost \o Untaken(k), tdh' = tdh - k
  PROVE  /\ ghost' \in Seq(Descriptor)
         /\ Len(ghost') = IF tdh' < 0 THEN 0 - tdh' ELSE 0
         /\ GhostGrows
<1>1. /\ ring \in Seq(Descriptor) /\ ghost \in Seq(Descriptor) /\ tdh \in Int /\ tdt \in Int
      /\ Len(ring) \in Nat /\ tdh <= Len(ring)
      /\ Len(ghost) = (IF tdh < 0 THEN 0 - tdh ELSE 0)
  BY LenProperties DEF QueueTypes, ChipPlace
<1> DEFINE h == IF tdh > 0 THEN tdh ELSE 0
           n == IF h + 1 <= k THEN k - h ELSE 0
           u == SubSeq(ring, h + 1, k)
<1>2. /\ u \in Seq(Descriptor) /\ Len(u) = n
      /\ \A i \in 1 .. n : u[i] = ring[i + h]
  <2>1. \A i \in h + 1 .. k : ring[i] \in Descriptor
    BY <1>1, ElementOfSeq
  <2>2. h + 1 \in Int /\ k \in Int
    BY <1>1
  <2>3. /\ u \in Seq(Descriptor)
        /\ Len(u) = IF h + 1 <= k THEN k - (h + 1) + 1 ELSE 0
        /\ \A i \in 1 .. k - (h + 1) + 1 : u[i] = ring[(h + 1) + i - 1]
    <3> HIDE DEF h
    <3> QED
      BY <2>1, <2>2, SubSeqProperties
  <2> HIDE DEF u
  <2>4. Len(u) = n
    BY <1>1, <2>3
  <2>5. \A i \in 1 .. n : u[i] = ring[i + h]
    <3> TAKE i \in 1 .. n
    <3>1. i \in 1 .. k - (h + 1) + 1 /\ (h + 1) + i - 1 = i + h
      BY <1>1
    <3> QED
      BY <2>3, <3>1
  <2> QED
    BY <2>3, <2>4, <2>5
<1>3. u = Untaken(k)
  BY DEF Untaken
<1> HIDE DEF u
<1>4. ghost' = ghost \o u /\ tdh' = tdh - k
  BY <1>3
<1>5. /\ ghost' \in Seq(Descriptor) /\ Len(ghost') = Len(ghost) + n
      /\ \A i \in 1 .. Len(ghost) + n :
           ghost'[i] = IF i <= Len(ghost) THEN ghost[i] ELSE u[i - Len(ghost)]
  <2> HIDE DEF n, h
  <2>1. /\ ghost \o u \in Seq(Descriptor) /\ Len(ghost \o u) = Len(ghost) + Len(u)
        /\ \A i \in 1 .. Len(ghost) + Len(u) :
             (ghost \o u)[i] = IF i <= Len(ghost) THEN ghost[i] ELSE u[i - Len(ghost)]
    BY <1>1, <1>2, ConcatProperties
  <2> QED
    BY <1>2, <1>4, <2>1
<1>6. Len(ghost') = IF tdh' < 0 THEN 0 - tdh' ELSE 0
  <2>1. Len(ghost') = Len(ghost) + n
    BY <1>5
  <2>2. k \in Nat /\ tdh' = tdh - k
    BY <1>1, <1>4
  <2> QED
    BY <1>1, <2>1, <2>2
<1>7. GhostGrows
  <2> SUFFICES ASSUME NEW i \in 1 .. Len(ghost')
               PROVE  ghost'[i] = IF i <= Len(ghost) THEN ghost[i] ELSE ring[i + tdh]
    BY DEF GhostGrows
  <2>1. CASE i <= Len(ghost)
    BY <1>1, <1>5, <2>1
  <2>2. CASE ~(i <= Len(ghost))
    <3>1. i - Len(ghost) \in 1 .. n /\ (i - Len(ghost)) + h = i + tdh
      BY <1>1, <1>5, <2>2
    <3>2. u[i - Len(ghost)] = ring[i + tdh]
      BY <1>2, <3>1
    <3> QED
      BY <1>5, <2>2, <3>2
  <2> QED
    BY <2>1, <2>2
<1> QED
  BY <1>5, <1>6, <1>7

(* The write-back of a ring that was cleaned of k descriptors and added to. *)
LEMMA PublishIs ==
  ASSUME QueueTypes, ChipPlace, NEW k \in 0 .. Len(ring), NEW q \in Queue,
         Len(q.ring) + q.free = DescCnt, Len(q.ring) >= Len(ring) - k,
         NEW tail \in Int, tdh - k <= tail, tail <= Len(q.ring),
         Publish(k, q, tail)
  PROVE  QueueTypes' /\ ChipPlace'
<1>1. /\ ring \in Seq(Descriptor) /\ tdh \in Int /\ tdt \in Int
      /\ Len(ring) \in Nat /\ tdh <= Len(ring)
  BY LenProperties DEF QueueTypes, ChipPlace
<1>2. /\ ring' = q.ring /\ ghost' = ghost \o Untaken(k) /\ txFree' = q.free
      /\ lastCtx' = q.ctx
      /\ sinceMark' = q.mark /\ tdh' = tdh - k /\ tdt' = tail
      /\ freed' = freed \cup FreedBy(k) /\ chipCtx' = chipCtx
  BY DEF Publish
<1>3. /\ ghost' \in Seq(Descriptor)
      /\ Len(ghost') = IF tdh' < 0 THEN 0 - tdh' ELSE 0
  BY <1>2, GhostsGrow
<1>4. ChipPlace'
  <2>1. k - tdh <= DescCnt
    BY DEF Publish, LapBound
  <2>2. 0 - DescCnt <= tdh'
    BY <1>1, <1>2, <2>1, TxConstants
  <2> QED
    BY <1>2, <1>3, <2>2 DEF ChipPlace
<1>5. freed' \subseteq Packet
  <2>1. SubSeq(ring, 1, k) \in Seq(Descriptor)
    <3>1. \A i \in 1 .. k : ring[i] \in Descriptor
      BY <1>1, ElementOfSeq
    <3> QED
      BY <3>1, SubSeqProperties
  <2>2. FreedBy(k) \subseteq Packet
    BY <2>1, PacketsInRing DEF FreedBy
  <2> QED
    BY <1>2, <2>2 DEF QueueTypes
<1>6. /\ ring' \in Seq(Descriptor) /\ txFree' \in 0 .. DescCnt
       /\ Len(ring') + txFree' = DescCnt
       /\ lastCtx' \in Contexts /\ sinceMark' \in Nat
  <2>1. /\ q.ring \in Seq(Descriptor) /\ q.free \in Nat /\ q.ctx \in Contexts /\ q.mark \in Nat
    BY DEF Queue
  <2>2. Len(q.ring) \in Nat
    BY <2>1, LenProperties
  <2>3. q.free \in 0 .. DescCnt
    BY <2>1, <2>2, TxConstants
  <2> QED
    BY <1>2, <2>1, <2>3
<1>7. QueueTypes'
  BY <1>1, <1>2, <1>3, <1>5, <1>6 DEF QueueTypes
<1> QED
  BY <1>4, <1>7

(* What the write-back keeps. *)
LEMMA PublishKeeps ==
  ASSUME TxTypeOK, ChipPlace, NEW k \in 0 .. Len(ring), NEW q \in Queue,
         Len(q.ring) + q.free = DescCnt, Len(q.ring) >= Len(ring) - k,
         NEW tail \in Int, tdh - k <= tail, tail <= Len(q.ring),
         Publish(k, q, tail),
         q.mark <= MarkThresh + MaxFrags, q.mark <= Len(q.ring),
         devType' = devType, devType = "legacy" /\ ~uncounted' => CountsTail(q.ring, q.mark)
  PROVE  /\ QueueTypes' /\ ChipPlace' /\ MarkCounts' /\ MarkInvariant'
         /\ IsFlag(wrapped') /\ misread' = misread
         /\ ring' = q.ring
<1>1. QueueTypes /\ TaskTypes
  BY TypesSplit
<1>2. QueueTypes' /\ ChipPlace'
  BY <1>1, PublishIs
<1>3. ring' = q.ring /\ sinceMark' = q.mark /\ txFree' = q.free
  BY DEF Publish
<1>4. IsFlag(wrapped') /\ misread' = misread
  BY DEF Publish, IsFlag
<1>5. MarkCounts'
  BY <1>3 DEF MarkCounts
<1>6. Len(q.ring) = DescCnt - q.free
  <2>1. Len(q.ring) \in Nat /\ q.free \in Nat
    BY LenProperties DEF Queue
  <2> QED
    BY <2>1, TxConstants
<1>7. MarkInvariant'
  BY <1>3, <1>6 DEF MarkInvariant
<1> QED
  BY <1>2, <1>3, <1>4, <1>5, <1>7

(* The clean-up does so. *)
LEMMA CleanPublishes ==
  ASSUME RingInv, NEW k \in 0 .. Len(ring), Publish(k, Cleaned(k), tdt - k),
         devType' = devType, uncounted' = uncounted
  PROVE  /\ QueueTypes' /\ ChipPlace' /\ MarkCounts' /\ MarkInvariant'
         /\ IsFlag(wrapped') /\ misread' = misread
         /\ ring' = Cleaned(k).ring
<1> DEFINE q == Cleaned(k)
<1>1. TxTypeOK /\ ChipPlace /\ MarkCounts /\ tdh \in Int /\ tdt \in Int
      /\ Len(ring) \in Nat /\ sinceMark \in Nat
  <2>1. ring \in Seq(Descriptor)
    BY DEF RingInv, TxTypeOK
  <2> QED
    BY <2>1, LenProperties DEF RingInv, TxTypeOK
<1>2. /\ q \in Queue /\ Len(q.ring) + q.free = DescCnt /\ Len(q.ring) = Len(ring) - k
      /\ q.mark <= Len(ring) - k /\ (q.mark = sinceMark \/ q.mark <= sinceMark)
  BY <1>1, CleanedIs
<1>3. devType = "legacy" /\ ~uncounted' => CountsTail(q.ring, q.mark)
  BY <1>1, CountsCleaned DEF MarkCounts
<1> HIDE DEF q
<1>4. q.mark <= MarkThresh + MaxFrags
  <2>1. q.mark \in Nat
    BY <1>2 DEF Queue
  <2> QED
    BY <1>1, <1>2, <2>1, TxConstants DEF MarkCounts
<1>5. tdh - k <= tdt - k /\ tdt - k <= Len(q.ring) /\ tdt - k \in Int
  BY <1>1, <1>2 DEF ChipPlace
<1>6. Publish(k, q, tdt - k)
  BY DEF q
<1>7. Len(q.ring) >= Len(ring) - k /\ q.mark <= Len(q.ring)
  BY <1>1, <1>2
<1>8. /\ QueueTypes' /\ ChipPlace' /\ MarkCounts' /\ MarkInvariant'
      /\ IsFlag(wrapped') /\ misread' = misread
      /\ ring' = q.ring
  BY <1>1, <1>2, <1>3, <1>4, <1>5, <1>6, <1>7, PublishKeeps
<1> QED
  BY <1>8 DEF q

(* So does a first attempt that leaves a context descriptor. *)
LEMMA AttemptPublishes ==
  ASSUME RingInv, NEW k \in 0 .. Len(ring), NEW c \in Contexts, txFree # 0,
         NEW q1, q1 = WithContext(Cleaned(k), c),
         NEW tail \in {Len(q1.ring), tdt - k},
         Publish(k, q1, tail), devType' = devType, LeavesContext(Cleaned(k), q1)
  PROVE  /\ QueueTypes' /\ ChipPlace' /\ MarkCounts' /\ MarkInvariant'
         /\ IsFlag(wrapped') /\ misread' = misread
         /\ ring' = q1.ring
<1> DEFINE q == Cleaned(k)
<1>1. TxTypeOK /\ ChipPlace /\ MarkCounts /\ tdh \in Int /\ tdt \in Int
      /\ Len(ring) \in Nat /\ sinceMark \in Nat
  <2>1. ring \in Seq(Descriptor)
    BY DEF RingInv, TxTypeOK
  <2> QED
    BY <2>1, LenProperties DEF RingInv, TxTypeOK
<1>2. /\ q \in Queue /\ Len(q.ring) = Len(ring) - k
      /\ q.mark <= Len(ring) - k /\ (q.mark = sinceMark \/ q.mark <= sinceMark)
  BY <1>1, CleanedIs
<1>3. /\ q1 \in Queue /\ Len(q1.ring) + q1.free = DescCnt
      /\ Len(q1.ring) - Len(q.ring) \in {0, 1}
      /\ q1.mark = q.mark
  BY <1>1, FirstAttempt
<1>4. devType = "legacy" /\ ~uncounted' => CountsTail(q1.ring, q1.mark)
  <2>1. ~uncounted' => ~uncounted /\ q1 = q
    BY DEF LeavesContext
  <2>2. devType = "legacy" /\ ~uncounted => CountsTail(q.ring, q.mark)
    BY <1>1, CountsCleaned DEF MarkCounts
  <2> QED
    BY <2>1, <2>2
<1> HIDE DEF q
<1>5. q1.mark \in Nat /\ Len(q1.ring) \in Nat /\ Len(q.ring) \in Nat
  <2>1. q1.ring \in Seq(Descriptor) /\ q.ring \in Seq(Descriptor) /\ q1.mark \in Nat
    BY <1>2, <1>3 DEF Queue
  <2> QED
    BY <2>1, LenProperties
<1>6. q1.mark <= MarkThresh + MaxFrags /\ q1.mark <= Len(q1.ring)
      /\ Len(q1.ring) >= Len(ring) - k
  BY <1>1, <1>2, <1>3, <1>5, TxConstants DEF MarkCounts
<1>7. tdh - k <= tail /\ tail <= Len(q1.ring) /\ tail \in Int
  BY <1>1, <1>5, <1>6 DEF ChipPlace
<1> QED
  BY <1>1, <1>3, <1>4, <1>6, <1>7, PublishKeeps

(* So does a packet that went in. *)
LEMMA PacketPublishes ==
  ASSUME RingInv, NEW k \in 0 .. Len(ring), NEW c \in Contexts, txFree # 0,
         NEW p \in Packet \cup {PollBuf}, NEW f \in 1 .. MaxFrags, NEW used \in Nat,
         NEW q1, q1 = WithContext(Cleaned(k), c),
         NEW q2, q2 = WithData(q1, p, c, f, used),
         Fits(q1, f), used <= Used(Cleaned(k), q1) + f,
         ~uncounted' => ~uncounted /\ used = Used(Cleaned(k), q1) + f,
         Publish(k, q2, Len(q2.ring)), devType' = devType
  PROVE  /\ QueueTypes' /\ ChipPlace' /\ MarkCounts' /\ MarkInvariant'
         /\ IsFlag(wrapped') /\ misread' = misread
         /\ ring' = q2.ring /\ ring' # << >>
<1> DEFINE q == Cleaned(k)
<1>1. TxTypeOK /\ ChipPlace /\ MarkCounts /\ tdh \in Int /\ tdt \in Int
      /\ Len(ring) \in Nat
  <2>1. ring \in Seq(Descriptor)
    BY DEF RingInv, TxTypeOK
  <2> QED
    BY <2>1, LenProperties DEF RingInv, TxTypeOK
<1>2. q \in Queue /\ Len(q.ring) = Len(ring) - k
  BY <1>1, CleanedIs
<1>3. Used(q, q1) = Len(q1.ring) - Len(q.ring)
  BY <1>1, FirstAttempt
<1>4. /\ q2 \in Queue
      /\ Len(q2.ring) + q2.free = DescCnt
      /\ Len(q2.ring) = Len(q1.ring) + f
      /\ Len(q2.ring) > Len(q.ring)
      /\ q2.mark <= MarkThresh + MaxFrags
      /\ q2.mark <= Len(q2.ring)
      /\ /\ devType = "legacy" /\ CountsTail(ring, sinceMark)
         /\ used = Len(q2.ring) - Len(q.ring)
         => CountsTail(q2.ring, q2.mark)
  BY <1>1, PacketAdded
<1> HIDE DEF q
<1>5. Len(q2.ring) \in Nat /\ Len(q.ring) \in Nat
  <2>1. q2.ring \in Seq(Descriptor) /\ q.ring \in Seq(Descriptor)
    BY <1>2, <1>4 DEF Queue
  <2> QED
    BY <2>1, LenProperties
<1>6. devType = "legacy" /\ ~uncounted' => CountsTail(q2.ring, q2.mark)
  <2> SUFFICES ASSUME devType = "legacy", ~uncounted'
               PROVE  CountsTail(q2.ring, q2.mark)
    OBVIOUS
  <2>1. CountsTail(ring, sinceMark) /\ used = Used(q, q1) + f
    BY <1>1 DEF MarkCounts, q
  <2>2. used = Len(q2.ring) - Len(q.ring)
    BY <1>3, <1>4, <1>5, <2>1
  <2> QED
    BY <1>4, <2>1, <2>2
<1>7. tdh - k <= Len(q2.ring) /\ Len(q2.ring) \in Int /\ Len(q2.ring) >= Len(ring) - k
  BY <1>1, <1>2, <1>4, <1>5 DEF ChipPlace
<1>8. /\ QueueTypes' /\ ChipPlace' /\ MarkCounts' /\ MarkInvariant'
      /\ IsFlag(wrapped') /\ misread' = misread
      /\ ring' = q2.ring
  BY <1>1, <1>4, <1>5, <1>6, <1>7, PublishKeeps, SMTT(30)
<1>9. q2.ring # << >>
  BY <1>4, <1>5, EmptySeq, <1>2, <1>1
<1> QED
  BY <1>8, <1>9

(***************************************************************************)
(* RingInOrder.                                                            *)
(***************************************************************************)

(* At the start the ring is empty. *)
LEMMA RingInvInit == TxInit => RingInv
<1> SUFFICES ASSUME TxInit
             PROVE  RingInv
  OBVIOUS
<1> USE TxConstants
<1>1. ring \in Seq(Descriptor) /\ ghost \in Seq(Descriptor) /\ sent \in Seq(Packet)
      /\ Len(ring) = 0 /\ Len(ghost) = 0
  BY EmptySeq DEF TxInit
<1>2. QueueTypes
  BY <1>1 DEF TxInit, QueueTypes
<1>3. devType \in {"legacy", "advanced"}
  BY TxRingAssumption DEF TxRingConstants, TxInit
<1>4. TaskTypes
  BY <1>1, <1>3 DEF TxInit, TaskTypes, IsFlag
<1>5. ChipPlace /\ PolledEmpty /\ LinkKept
  BY <1>1, TxConstants DEF TxInit, ChipPlace, PolledEmpty, LinkKept
<1>6. MarkCounts
  BY <1>1 DEF TxInit, MarkCounts, CountsTail
<1>7. StalledForAReason /\ MarkInvariant
  BY <1>1 DEF TxInit, StalledForAReason, MarkInvariant
<1> QED
  BY <1>2, <1>4, <1>5, <1>6, <1>7, TypesSplit DEF RingInv

(* A packet has a name. *)
LEMMA NextPacketIs ==
  ASSUME TxTypeOK, NEW s \in Senders
  PROVE  NextPacket(s) \in Packet /\ [given EXCEPT ![s] = @ + 1] \in [Senders -> Nat]
<1>1. given \in [Senders -> Nat]
  BY DEF TxTypeOK
<1>2. given[s] + 1 \in Nat \ {0}
  BY <1>1
<1> QED
  BY <1>1, <1>2 DEF NextPacket, Packet

(* A send that is refused without a look at the ring. *)
LEMMA RefusedKeepsRing ==
  ASSUME RingInv, NEW s \in Senders, SendRefused(s)
  PROVE  RingInv'
<1> USE TxConstants
<1>1. QueueTypes /\ TaskTypes
  BY TypesSplit DEF RingInv
<1>2. QueueTypes'
  BY <1>1 DEF SendRefused, ringVars, QueueTypes
<1>3. TaskTypes'
  BY <1>1 DEF SendRefused, Refuse, TaskTypes, IsFlag
<1>4. ChipPlace' /\ PolledEmpty' /\ LinkKept' /\ MarkCounts' /\ MarkInvariant'
  BY DEF RingInv, SendRefused, ringVars, ChipPlace, PolledEmpty, LinkKept, MarkCounts,
         CountsTail, MarkInvariant
<1>5. StalledForAReason'
  <2>1. CASE txFree = 0
    <3>1. Len(ring) = DescCnt /\ DescCnt > 0
      BY <1>1, <2>1 DEF QueueTypes
    <3>2. ring # << >>
      BY <3>1, EmptySeq
    <3> QED
      BY <3>2 DEF SendRefused, Refuse, ringVars, StalledForAReason
  <2>2. CASE ~active
    BY <2>2 DEF RingInv, LinkKept, SendRefused, StalledForAReason
  <2> QED
    BY <2>1, <2>2 DEF SendRefused
<1> QED
  BY <1>2, <1>3, <1>4, <1>5, TypesAfter DEF RingInv

(* The ring of packets in one piece or several. *)
LEMMA DirectKeepsRing ==
  ASSUME RingInv, NEW s \in Senders, SendDirect(s)
  PROVE  RingInv'
<1>1. TxTypeOK /\ QueueTypes /\ TaskTypes
  BY TypesSplit DEF RingInv
<1>2. PICK k \in 0 .. Len(ring), c \in Contexts, f \in 1 .. MaxFrags :
        LET q1 == WithContext(Cleaned(k), c)
            q2 == WithData(q1, NextPacket(s), c, f, Used(Cleaned(k), q1) + f)
        IN Fits(q1, f) /\ Publish(k, q2, Len(q2.ring))
  BY DEF SendDirect
<1> DEFINE q1 == WithContext(Cleaned(k), c)
           used == Used(Cleaned(k), q1) + f
           q2 == WithData(q1, NextPacket(s), c, f, used)
<1>3. txFree # 0 /\ devType' = devType /\ uncounted' = uncounted
  BY DEF SendDirect
<1>4. Used(Cleaned(k), q1) \in {0, 1}
  BY <1>1, <1>3, FirstAttempt
<1>5. used \in Nat /\ used <= Used(Cleaned(k), q1) + f
  BY <1>4, TxConstants
<1>6. Fits(q1, f) /\ Publish(k, q2, Len(q2.ring))
  BY <1>2
<1>7. NextPacket(s) \in Packet \cup {PollBuf} /\ [given EXCEPT ![s] = @ + 1] \in [Senders -> Nat]
  BY <1>1, NextPacketIs
<1>8. q1 = WithContext(Cleaned(k), c) /\ q2 = WithData(q1, NextPacket(s), c, f, used)
      /\ used = Used(Cleaned(k), q1) + f
  OBVIOUS
<1> HIDE DEF q1, q2, used
<1>9. /\ QueueTypes' /\ ChipPlace' /\ MarkCounts' /\ MarkInvariant'
      /\ IsFlag(wrapped') /\ misread' = misread
      /\ ring' # << >>
  BY <1>3, <1>5, <1>6, <1>7, <1>8, PacketPublishes
<1>10. TaskTypes'
  BY <1>1, <1>3, <1>7, <1>9 DEF SendDirect, TaskTypes
<1>11. PolledEmpty' /\ LinkKept' /\ StalledForAReason'
  BY <1>9 DEF RingInv, SendDirect, MaySend, TasksRun, PolledEmpty, LinkKept, StalledForAReason
<1> QED
  BY <1>9, <1>10, <1>11, TypesAfter DEF RingInv

(* The ring of packets that are coalesced, or do not fit. *)
LEMMA CoalescedKeepsRing ==
  ASSUME RingInv, NEW s \in Senders, SendCoalesced(s)
  PROVE  RingInv'
<1>1. TxTypeOK /\ QueueTypes /\ TaskTypes
  BY TypesSplit DEF RingInv
<1>2. PICK k \in 0 .. Len(ring), c \in Contexts :
        LET q1 == WithContext(Cleaned(k), c)
            q2 == WithData(q1, NextPacket(s), c, 1, 1)
        IN /\ LeavesContext(Cleaned(k), q1)
           /\ \/ /\ Fits(q1, 1) /\ Publish(k, q2, Len(q2.ring))
                 /\ given' = [given EXCEPT ![s] = @ + 1]
                 /\ UNCHANGED << txStall, blocked >>
              \/ ~Fits(q1, 1) /\ Publish(k, q1, Len(q1.ring)) /\ Refuse(s)
  BY DEF SendCoalesced
<1> DEFINE q1 == WithContext(Cleaned(k), c)
           q2 == WithData(q1, NextPacket(s), c, 1, 1)
<1>3. /\ txFree # 0 /\ polling = "no" /\ job' = job /\ mishaps' = mishaps
      /\ UNCHANGED << devType, active, ir, polling, sent >>
  BY DEF SendCoalesced, MaySend, TasksRun
<1>4. /\ q1 \in Queue /\ Len(q1.ring) + q1.free = DescCnt
      /\ Used(Cleaned(k), q1) \in {0, 1}
      /\ Used(Cleaned(k), q1) = Len(q1.ring) - Len(Cleaned(k).ring)
  BY <1>1, <1>3, FirstAttempt
<1>5. NextPacket(s) \in Packet \cup {PollBuf} /\ [given EXCEPT ![s] = @ + 1] \in [Senders -> Nat]
  BY <1>1, NextPacketIs
<1>6. /\ LeavesContext(Cleaned(k), q1)
      /\ \/ /\ Fits(q1, 1) /\ Publish(k, q2, Len(q2.ring))
            /\ given' = [given EXCEPT ![s] = @ + 1]
            /\ UNCHANGED << txStall, blocked >>
         \/ ~Fits(q1, 1) /\ Publish(k, q1, Len(q1.ring)) /\ Refuse(s)
  BY <1>2
<1>7. q1 = WithContext(Cleaned(k), c) /\ q2 = WithData(q1, NextPacket(s), c, 1, 1)
  OBVIOUS
<1> HIDE DEF q1, q2
<1>8. IsFlag(uncounted') /\ (~uncounted' => ~uncounted /\ q1 = Cleaned(k))
  BY <1>6 DEF LeavesContext, IsFlag
<1>9. PolledEmpty' /\ LinkKept'
  BY <1>3 DEF RingInv, PolledEmpty, LinkKept
<1>10. CASE Fits(q1, 1)
  <2>1. /\ Publish(k, q2, Len(q2.ring)) /\ given' = [given EXCEPT ![s] = @ + 1]
        /\ UNCHANGED << txStall, blocked >>
    BY <1>6, <1>10
  <2>2. 1 <= Used(Cleaned(k), q1) + 1 /\ 1 \in 1 .. MaxFrags /\ 1 \in Nat
    BY <1>4, TxConstants
  <2>3. ~uncounted' => ~uncounted /\ 1 = Used(Cleaned(k), q1) + 1
    <3>1. ring \in Seq(Descriptor)
      BY <1>1 DEF QueueTypes
    <3>2. Cleaned(k).ring \in Seq(Descriptor)
      BY <1>1, CleanedIs DEF Queue
    <3>3. Len(Cleaned(k).ring) \in Nat
      BY <3>2, LenProperties
    <3> QED
      BY <1>4, <1>8, <3>3
  <2>4. /\ QueueTypes' /\ ChipPlace' /\ MarkCounts' /\ MarkInvariant'
        /\ IsFlag(wrapped') /\ misread' = misread
        /\ ring' # << >>
    BY <1>3, <1>5, <1>7, <1>10, <2>1, <2>2, <2>3, PacketPublishes
  <2>5. TaskTypes'
    BY <1>1, <1>3, <1>5, <1>8, <2>1, <2>4 DEF TaskTypes
  <2>6. StalledForAReason'
    BY <1>3, <2>1, <2>4 DEF RingInv, StalledForAReason
  <2> QED
    BY <1>9, <2>4, <2>5, <2>6, TypesAfter DEF RingInv
<1>11. CASE ~Fits(q1, 1)
  <2>1. Publish(k, q1, Len(q1.ring)) /\ Refuse(s)
    BY <1>6, <1>11
  <2>2. /\ QueueTypes' /\ ChipPlace' /\ MarkCounts' /\ MarkInvariant'
        /\ IsFlag(wrapped') /\ misread' = misread
        /\ ring' = q1.ring
    BY <1>3, <1>6, <1>7, <2>1, AttemptPublishes
  <2>3. TaskTypes'
    BY <1>1, <1>3, <1>8, <2>1, <2>2 DEF TaskTypes, Refuse, IsFlag
  <2>4. ring' # << >>
    <3>1. q1.free \in Nat /\ ~(1 <= q1.free)
      BY <1>4, <1>11, TxConstants DEF Fits, Queue
    <3>2. Len(q1.ring) = DescCnt /\ DescCnt > 0
      <4>1. Len(q1.ring) \in Nat
        BY <1>4, LenProperties DEF Queue
      <4> QED
        BY <1>4, <3>1, <4>1, TxConstants
    <3> QED
      BY <2>2, <3>2, EmptySeq
  <2>5. StalledForAReason'
    BY <2>1, <2>4 DEF StalledForAReason, Refuse
  <2> QED
    BY <1>9, <2>2, <2>3, <2>5, TypesAfter DEF RingInv
<1> QED
  BY <1>10, <1>11

(* The ring when the pool is empty. *)
LEMMA NoBufKeepsRing ==
  ASSUME RingInv, NEW s \in Senders, SendNoBuf(s)
  PROVE  RingInv'
<1>1. TxTypeOK /\ QueueTypes /\ TaskTypes
  BY TypesSplit DEF RingInv
<1>2. PICK k \in 0 .. Len(ring), c \in Contexts :
        LET q1 == WithContext(Cleaned(k), c)
        IN LeavesContext(Cleaned(k), q1) /\ Publish(k, q1, tdt - k)
  BY DEF SendNoBuf
<1> DEFINE q1 == WithContext(Cleaned(k), c)
<1>3. /\ txFree # 0 /\ polling = "no" /\ job' = job
      /\ UNCHANGED << devType, active, ir, polling, sent >>
      /\ Refuse(s)
      /\ mishaps < MaxMishaps /\ mishaps' = mishaps + 1
  BY DEF SendNoBuf, MaySend, TasksRun, Mishap
<1>4. LeavesContext(Cleaned(k), q1) /\ Publish(k, q1, tdt - k)
  BY <1>2
<1>5. q1 = WithContext(Cleaned(k), c) /\ tdt - k \in {Len(q1.ring), tdt - k}
  OBVIOUS
<1> HIDE DEF q1
<1>6. /\ QueueTypes' /\ ChipPlace' /\ MarkCounts' /\ MarkInvariant'
      /\ IsFlag(wrapped') /\ misread' = misread
  BY <1>3, <1>4, <1>5, AttemptPublishes
<1>7. IsFlag(uncounted')
  BY <1>4 DEF LeavesContext, IsFlag
<1>8. mishaps' \in 0 .. MaxMishaps /\ mishaps' # 0
  BY <1>1, <1>3, TxConstants DEF TaskTypes
<1>9. TaskTypes'
  BY <1>1, <1>3, <1>6, <1>7, <1>8 DEF TaskTypes, Refuse, IsFlag
<1>10. PolledEmpty' /\ LinkKept' /\ StalledForAReason'
  BY <1>3, <1>8 DEF PolledEmpty, LinkKept, StalledForAReason
<1> QED
  BY <1>6, <1>9, <1>10, TypesAfter DEF RingInv

(* Every outcome of geiEndSend. *)
LEMMA SendKeepsRing ==
  ASSUME RingInv, NEW s \in Senders, Send(s)
  PROVE  RingInv'
BY RefusedKeepsRing, DirectKeepsRing, CoalescedKeepsRing, NoBufKeepsRing DEF Send

(* A change of status changes nothing else. *)
LEMMA StatusIs ==
  ASSUME NEW d \in Descriptor, NEW x \in {"new", "sent", "done"}
  PROVE  LET e == [d EXCEPT !.st = x] IN
         /\ e \in Descriptor /\ e.st = x
         /\ e.kind = d.kind /\ e.pkt = d.pkt /\ e.ctx = d.ctx /\ e.urgent = d.urgent
BY DEF Descriptor

(* r is q but for the status of its descriptors. *)
SameButStatus(r, q) ==
  /\ r \in Seq(Descriptor) /\ Len(r) = Len(q)
  /\ \A i \in 1 .. Len(q) : /\ r[i].kind = q[i].kind /\ r[i].pkt = q[i].pkt
                            /\ r[i].ctx = q[i].ctx /\ r[i].urgent = q[i].urgent

(* It keeps what MarkCounts says. *)
LEMMA SameCounts ==
  ASSUME NEW r, NEW q \in Seq(Descriptor), SameButStatus(r, q), NEW m, CountsTail(q, m)
  PROVE  CountsTail(r, m)
<1>1. Len(r) = Len(q) /\ Len(q) \in Nat
  BY LenProperties DEF SameButStatus
<1> SUFFICES ASSUME NEW i \in 0 .. Len(q), \A j \in i + 1 .. Len(q) : ~Hurries(r[j])
             PROVE  Len(q) - i <= m
  BY <1>1 DEF CountsTail
<1>2. ASSUME NEW j \in i + 1 .. Len(q)
      PROVE  ~Hurries(q[j])
  <2>1. j \in 1 .. Len(q)
    BY <1>1
  <2>2. ~Hurries(r[j]) /\ r[j].kind = q[j].kind /\ r[j].urgent = q[j].urgent
    BY <2>1 DEF SameButStatus
  <2> QED
    BY <2>2 DEF Hurries
<1> QED
  BY <1>2 DEF CountsTail

(* Such a change keeps the ring in order. *)
LEMMA StatusKeepsRing ==
  ASSUME RingInv, SameButStatus(ring', ring), TaskTypes',
         ghost' \in Seq(Descriptor), Len(ghost') = (IF tdh' < 0 THEN 0 - tdh' ELSE 0),
         tdh' \in Int, 0 - DescCnt <= tdh', tdh' <= tdt, chipCtx' \in Contexts,
         UNCHANGED << devType, txFree, tdt, lastCtx, sinceMark, txStall, active, job,
                      polling, blocked, freed, mishaps, uncounted >>
  PROVE  RingInv'
<1>1. QueueTypes /\ ring \in Seq(Descriptor)
  BY TypesSplit DEF RingInv, QueueTypes
<1>2. ring' \in Seq(Descriptor) /\ Len(ring') = Len(ring)
  BY DEF SameButStatus
<1>3. QueueTypes'
  BY <1>1, <1>2 DEF QueueTypes
<1>4. ChipPlace'
  BY <1>2 DEF RingInv, ChipPlace
<1>5. ring = << >> => ring' = << >>
  BY <1>1, <1>2, EmptySeq
<1>6. ring # << >> => ring' # << >>
  BY <1>1, <1>2, EmptySeq
<1>7. PolledEmpty' /\ LinkKept' /\ StalledForAReason' /\ MarkInvariant'
  BY <1>5, <1>6 DEF RingInv, PolledEmpty, LinkKept, StalledForAReason, MarkInvariant
<1>8. MarkCounts'
  <2>1. CountsTail(ring, sinceMark) => CountsTail(ring', sinceMark)
    BY <1>1, SameCounts
  <2> QED
    BY <2>1 DEF RingInv, MarkCounts
<1> QED
  BY <1>3, <1>4, <1>7, <1>8, TypesAfter DEF RingInv

(* The chip takes a descriptor. *)
LEMMA ChipTakes ==
  ASSUME QueueTypes, ChipPlace, ChipTransmit
  PROVE  /\ tdh < tdt /\ tdh' = tdh + 1
         /\ AtHead \in Descriptor
         /\ SameButStatus(ring', ring)
         /\ \A i \in 1 .. Len(ring) : i # (tdh % DescCnt) + 1 => ring'[i] = ring[i]
         /\ ghost' \in Seq(Descriptor)
         /\ Len(ghost') = IF tdh' < 0 THEN 0 - tdh' ELSE 0
         /\ \A i \in 1 .. Len(ghost') : ghost'[i] = ghost[i + 1]
<1>1. /\ ring \in Seq(Descriptor) /\ ghost \in Seq(Descriptor) /\ tdh \in Int /\ tdt \in Int
      /\ Len(ring) \in Nat /\ Len(ghost) = (IF tdh < 0 THEN 0 - tdh ELSE 0)
      /\ tdh <= tdt /\ tdt <= Len(ring) /\ 0 - DescCnt <= tdh
      /\ Len(ring) <= DescCnt
  <2>1. Len(ring) \in Nat /\ Len(ring) + txFree = DescCnt /\ txFree \in 0 .. DescCnt
    BY LenProperties DEF QueueTypes
  <2> QED
    BY <2>1, TxConstants DEF QueueTypes, ChipPlace
<1>2. tdh < tdt
  <2>1. CASE tdh = tdt
    <3>1. (tdt - tdh) % DescCnt = 0
      BY <1>1, <2>1, TxConstants
    <3> QED
      BY <3>1 DEF ChipTransmit, ToDo
  <2> QED
    BY <1>1, <2>1
<1>3. tdh < 0 => ghost # << >>
  BY <1>1, EmptySeq
<1>4. AtHead \in Descriptor
  <2>1. CASE tdh >= 0
    <3>1. tdh + 1 \in 1 .. Len(ring)
      BY <1>1, <1>2, <2>1
    <3> QED
      BY <1>1, <2>1, <3>1, ElementOfSeq DEF AtHead
  <2>2. CASE ~(tdh >= 0) /\ tdh + DescCnt < Len(ring)
    <3>1. tdh + DescCnt + 1 \in 1 .. Len(ring)
      BY <1>1, <2>2, TxConstants
    <3> QED
      BY <1>1, <2>2, <3>1, ElementOfSeq DEF AtHead
  <2>3. CASE ~(tdh >= 0) /\ ~(tdh + DescCnt < Len(ring))
    <3>1. Head(ghost) \in Descriptor
      BY <1>1, <1>3, <2>3, HeadTailProperties
    <3> QED
      BY <2>3, <3>1 DEF AtHead
  <2> QED
    BY <2>1, <2>2, <2>3
<1>5. /\ tdh' = tdh + 1
      /\ ghost' = IF tdh < 0 THEN Tail(ghost) ELSE ghost
      /\ ring' = [i \in 1 .. Len(ring) |->
                    IF i = (tdh % DescCnt) + 1 THEN [ring[i] EXCEPT !.st = "sent"] ELSE ring[i]]
  BY DEF ChipTransmit
<1>6. /\ ghost' \in Seq(Descriptor)
      /\ Len(ghost') = IF tdh' < 0 THEN 0 - tdh' ELSE 0
      /\ \A i \in 1 .. Len(ghost') : ghost'[i] = ghost[i + 1]
  <2>1. CASE tdh < 0
    <3>1. /\ ghost' \in Seq(Descriptor) /\ Len(ghost') = Len(ghost) - 1
          /\ \A i \in 1 .. Len(ghost') : ghost'[i] = ghost[i + 1]
      BY <1>1, <1>3, <1>5, <2>1, HeadTailProperties
    <3> QED
      BY <1>1, <1>5, <2>1, <3>1
  <2>2. CASE ~(tdh < 0)
    BY <1>1, <1>5, <2>2
  <2> QED
    BY <2>1, <2>2
<1>7. ASSUME NEW i \in 1 .. Len(ring)
      PROVE  LET e == IF i = (tdh % DescCnt) + 1 THEN [ring[i] EXCEPT !.st = "sent"]
                      ELSE ring[i]
             IN /\ e \in Descriptor
                /\ e.kind = ring[i].kind /\ e.pkt = ring[i].pkt
                /\ e.ctx = ring[i].ctx /\ e.urgent = ring[i].urgent
  <2>1. ring[i] \in Descriptor
    BY <1>1, ElementOfSeq
  <2>2. "sent" \in {"new", "sent", "done"}
    OBVIOUS
  <2>3. CASE i = (tdh % DescCnt) + 1
    BY <2>1, <2>2, <2>3, StatusIs, Zenon
  <2>4. CASE i # (tdh % DescCnt) + 1
    BY <2>1, <2>4, Zenon
  <2> QED
    BY <2>3, <2>4
<1>8. ring' \in [1 .. Len(ring) -> Descriptor]
  BY <1>5, <1>7, Zenon
<1>9. ring' \in Seq(Descriptor) /\ Len(ring') = Len(ring)
  BY <1>1, <1>8, FunctionIsSeq
<1>10. \A i \in 1 .. Len(ring) :
         ring'[i] = IF i = (tdh % DescCnt) + 1 THEN [ring[i] EXCEPT !.st = "sent"] ELSE ring[i]
  BY <1>5, Zenon
<1>11. SameButStatus(ring', ring)
  BY <1>7, <1>9, <1>10, Zenon DEF SameButStatus
<1> QED
  BY <1>2, <1>4, <1>5, <1>6, <1>10, <1>11

(* The ring when the chip takes a descriptor ... *)
LEMMA TransmitKeepsRing ==
  ASSUME RingInv, ChipTransmit
  PROVE  RingInv'
<1>1. QueueTypes /\ TaskTypes /\ ChipPlace
  BY TypesSplit DEF RingInv
<1>2. /\ tdh < tdt /\ tdh' = tdh + 1 /\ AtHead \in Descriptor
      /\ SameButStatus(ring', ring)
      /\ ghost' \in Seq(Descriptor)
      /\ Len(ghost') = IF tdh' < 0 THEN 0 - tdh' ELSE 0
  BY <1>1, ChipTakes
<1>3. tdh' \in Int /\ 0 - DescCnt <= tdh' /\ tdh' <= tdt
  BY <1>1, <1>2, TxConstants DEF QueueTypes, ChipPlace
<1>4. AtHead.ctx \in Contexts /\ AtHead.pkt \in Packet \cup {PollBuf}
  BY <1>2 DEF Descriptor
<1>5. chipCtx' \in Contexts
  BY <1>1, <1>4 DEF ChipTransmit, QueueTypes
<1>6. sent' \in Seq(Packet)
  <2>1. CASE AtHead.kind = "eop" /\ AtHead.pkt # PollBuf
    BY <1>1, <1>4, <2>1, AppendProperties DEF ChipTransmit, TaskTypes
  <2>2. CASE ~(AtHead.kind = "eop" /\ AtHead.pkt # PollBuf)
    BY <1>1, <2>2 DEF ChipTransmit, TaskTypes
  <2> QED
    BY <2>1, <2>2
<1>7. IsFlag(misread')
  BY DEF ChipTransmit, IsFlag
<1>8. /\ UNCHANGED << devType, txFree, tdt, lastCtx, sinceMark, txStall, active, job,
                      polling, blocked, freed, mishaps, uncounted >>
      /\ UNCHANGED << ir, given, wrapped >>
  BY DEF ChipTransmit
<1>9. TaskTypes'
  BY <1>1, <1>6, <1>7, <1>8 DEF TaskTypes, IsFlag
<1> QED
  BY <1>2, <1>3, <1>5, <1>8, <1>9, StatusKeepsRing

(* ... and when it writes one back. *)
LEMMA WriteBackIs ==
  ASSUME QueueTypes, ChipWriteBack
  PROVE  \E i \in 1 .. Len(ring) :
           /\ ring[i].st = "sent" /\ ring'[i].st = "done"
           /\ \A j \in 1 .. Len(ring) : j # i => ring'[j] = ring[j]
           /\ SameButStatus(ring', ring)
<1>1. ring \in Seq(Descriptor)
  BY DEF QueueTypes
<1>2. PICK i \in 1 .. Len(ring) : ring[i].st = "sent" /\ ring' = [ring EXCEPT ![i].st = "done"]
  BY DEF ChipWriteBack
<1> DEFINE e == [ring[i] EXCEPT !.st = "done"]
<1>3. /\ e \in Descriptor /\ e.st = "done"
      /\ e.kind = ring[i].kind /\ e.pkt = ring[i].pkt
      /\ e.ctx = ring[i].ctx /\ e.urgent = ring[i].urgent
  <2>1. ring[i] \in Descriptor /\ "done" \in {"new", "sent", "done"}
    BY <1>1, ElementOfSeq
  <2> QED
    BY <2>1, StatusIs, Zenon
<1>4. ring' = [ring EXCEPT ![i] = e]
  BY <1>2
<1> HIDE DEF e
<1>5. /\ ring' \in Seq(Descriptor) /\ Len(ring') = Len(ring)
      /\ \A j \in 1 .. Len(ring) : ring'[j] = IF j = i THEN e ELSE ring[j]
  BY <1>1, <1>3, <1>4, ExceptSeq
<1>6. SameButStatus(ring', ring)
  BY <1>3, <1>5, Zenon DEF SameButStatus
<1> QED
  BY <1>2, <1>3, <1>5, <1>6

(* It keeps the ring in order. *)
LEMMA WriteBackKeepsRing ==
  ASSUME RingInv, ChipWriteBack
  PROVE  RingInv'
<1>1. QueueTypes /\ TaskTypes /\ ChipPlace
  BY TypesSplit DEF RingInv
<1>2. SameButStatus(ring', ring)
  BY <1>1, WriteBackIs
<1>3. /\ UNCHANGED << devType, txFree, tdt, lastCtx, sinceMark, txStall, active, job,
                      polling, blocked, freed, mishaps, uncounted >>
      /\ UNCHANGED << ghost, tdh, chipCtx, given, sent, wrapped, misread >>
      /\ ir' = TRUE
  BY DEF ChipWriteBack, history
<1>4. TaskTypes'
  BY <1>1, <1>3 DEF TaskTypes, IsFlag
<1> QED
  BY <1>1, <1>2, <1>3, <1>4, StatusKeepsRing DEF QueueTypes, ChipPlace

(* Steps that leave the ring alone. *)
LEMMA RestKeepsRing ==
  ASSUME RingInv, LinkChange \/ JobStart \/ TxRestart \/ PollStart \/ PollStop
  PROVE  RingInv'
<1>1. QueueTypes /\ TaskTypes
  BY TypesSplit DEF RingInv
<1>2. UNCHANGED << ringVars, devType, freed, chipCtx, uncounted >>
  BY DEF LinkChange, JobStart, TxRestart, PollStart, PollStop, history
<1>3. QueueTypes'
  BY <1>1, <1>2 DEF QueueTypes, ringVars
<1>4. ChipPlace' /\ MarkCounts'
  BY <1>2 DEF RingInv, ChipPlace, MarkCounts, CountsTail, ringVars
<1>5. mishaps' = mishaps \/ (mishaps < MaxMishaps /\ mishaps' = mishaps + 1)
  BY DEF LinkChange, JobStart, TxRestart, PollStart, PollStop, history, Mishap
<1>6. mishaps' \in 0 .. MaxMishaps /\ (mishaps' = 0 => mishaps = 0)
  BY <1>1, <1>5, TxConstants DEF TaskTypes
<1>7. MarkInvariant'
  BY <1>2, <1>6 DEF RingInv, MarkInvariant, ringVars
<1>8. CASE LinkChange
  <2>1. mishaps' # 0
    BY <1>1, <1>8, TxConstants DEF LinkChange, Mishap, RingInv, LinkKept, TaskTypes
  <2>2. IsFlag(active')
    BY <1>1, <1>8 DEF LinkChange, TaskTypes, IsFlag
  <2>3. TaskTypes'
    BY <1>1, <1>6, <1>8, <2>2 DEF LinkChange, TaskTypes
  <2>4. PolledEmpty' /\ LinkKept' /\ StalledForAReason'
    BY <1>2, <1>8, <2>1 DEF LinkChange, RingInv, PolledEmpty, LinkKept, StalledForAReason, ringVars
  <2> QED
    BY <1>3, <1>4, <1>7, <2>3, <2>4, TypesAfter DEF RingInv
<1>9. CASE JobStart
  <2>1. TaskTypes'
    BY <1>1, <1>9 DEF JobStart, TaskTypes, history, IsFlag
  <2>2. PolledEmpty' /\ LinkKept' /\ StalledForAReason'
    BY <1>9 DEF JobStart, RingInv, PolledEmpty, LinkKept, StalledForAReason, ringVars, history
  <2> QED
    BY <1>3, <1>4, <1>7, <2>1, <2>2, TypesAfter DEF RingInv
<1>10. CASE TxRestart
  <2>1. TaskTypes'
    BY <1>1, <1>10 DEF TxRestart, TaskTypes, history
  <2>2. PolledEmpty' /\ LinkKept' /\ StalledForAReason'
    BY <1>10 DEF TxRestart, RingInv, PolledEmpty, LinkKept, StalledForAReason, ringVars, history
  <2> QED
    BY <1>3, <1>4, <1>7, <2>1, <2>2, TypesAfter DEF RingInv
<1>11. CASE PollStart
  <2>1. mishaps' # 0
    BY <1>1, <1>11, TxConstants DEF PollStart, Mishap, TaskTypes
  <2>2. TaskTypes'
    BY <1>1, <1>6, <1>11 DEF PollStart, TaskTypes
  <2>3. PolledEmpty' /\ LinkKept' /\ StalledForAReason'
    BY <1>11, <2>1 DEF PollStart, PolledEmpty, LinkKept, StalledForAReason
  <2> QED
    BY <1>3, <1>4, <1>7, <2>2, <2>3, TypesAfter DEF RingInv
<1>12. CASE PollStop
  <2>1. TaskTypes'
    BY <1>1, <1>12 DEF PollStop, TaskTypes, history
  <2>2. PolledEmpty' /\ LinkKept' /\ StalledForAReason'
    BY <1>12 DEF PollStop, RingInv, PolledEmpty, LinkKept, StalledForAReason, ringVars, history
  <2> QED
    BY <1>3, <1>4, <1>7, <2>1, <2>2, TypesAfter DEF RingInv
<1> QED
  BY <1>8, <1>9, <1>10, <1>11, <1>12

(* The clean-up job: a stall ends with a restart, or nothing was reclaimed. *)
LEMMA TxHandleKeepsRing ==
  ASSUME RingInv, TxHandle
  PROVE  RingInv'
<1>1. TxTypeOK /\ QueueTypes /\ TaskTypes
  BY TypesSplit DEF RingInv
<1>2. PICK k \in 0 .. Len(ring) :
        /\ Publish(k, Cleaned(k), tdt - k)
        /\ txStall' = (txStall /\ k = 0)
        /\ job' = IF txStall /\ k # 0 THEN "restart" ELSE "idle"
  BY DEF TxHandle
<1>3. /\ job = "tx"
      /\ UNCHANGED << devType, active, ir, polling, blocked, given, sent, mishaps, uncounted >>
      /\ polling = "no"
  BY DEF TxHandle, TasksRun
<1>4. /\ QueueTypes' /\ ChipPlace' /\ MarkCounts' /\ MarkInvariant'
      /\ IsFlag(wrapped') /\ misread' = misread /\ ring' = Cleaned(k).ring
  BY <1>2, <1>3, CleanPublishes
<1>5. IsFlag(txStall') /\ job' \in {"idle", "tx", "restart"}
  BY <1>1, <1>2 DEF TaskTypes, IsFlag
<1>6. TaskTypes'
  BY <1>1, <1>3, <1>4, <1>5 DEF TaskTypes
<1>7. k = 0 /\ ring # << >> => ring' # << >>
  <2>1. ring \in Seq(Descriptor) /\ ring' \in Seq(Descriptor)
    BY <1>1, <1>4 DEF QueueTypes
  <2>2. Len(ring') = Len(ring) - k
    BY <1>1, <1>4, CleanedIs
  <2> QED
    BY <2>1, <2>2, EmptySeq
<1>8. PolledEmpty' /\ LinkKept'
  BY <1>3 DEF RingInv, PolledEmpty, LinkKept
<1>9. StalledForAReason'
  BY <1>2, <1>3, <1>7 DEF RingInv, StalledForAReason
<1> QED
  BY <1>4, <1>6, <1>8, <1>9, TypesAfter DEF RingInv

(* Polled mode takes the whole ring. *)
LEMMA PollDrainKeepsRing ==
  ASSUME RingInv, PollDrain
  PROVE  RingInv'
<1> DEFINE k == Len(ring)
           q == [Cleaned(k) EXCEPT !.mark = 0]
<1>1. TxTypeOK /\ QueueTypes /\ TaskTypes /\ ChipPlace
  BY TypesSplit DEF RingInv
<1>2. ring \in Seq(Descriptor) /\ k \in Nat /\ k \in 0 .. Len(ring) /\ tdh \in Int /\ tdt \in Int
  BY <1>1, LenProperties DEF QueueTypes
<1>3. /\ Cleaned(k) \in Queue /\ Len(Cleaned(k).ring) = 0
      /\ Len(Cleaned(k).ring) + Cleaned(k).free = DescCnt
  BY <1>1, <1>2, CleanedIs
<1>4. /\ q \in Queue /\ q.ring = Cleaned(k).ring /\ q.free = Cleaned(k).free /\ q.mark = 0
  <2> DEFINE d == Cleaned(k)
  <2>1. d \in Queue
    BY <1>3
  <2> HIDE DEF d
  <2>2. LET e == [d EXCEPT !.mark = 0] IN
          e \in Queue /\ e.ring = d.ring /\ e.free = d.free /\ e.mark = 0
    BY <2>1 DEF Queue
  <2> QED
    BY <2>2 DEF d
<1>5. /\ Publish(k, q, tdt - k)
      /\ polling = "draining" /\ polling' = "yes"
      /\ UNCHANGED << devType, txStall, active, ir, job, blocked, given, sent, mishaps, uncounted >>
  BY DEF PollDrain
<1> HIDE DEF q
<1>6. Len(q.ring) = 0 /\ Len(q.ring) + q.free = DescCnt /\ Len(q.ring) >= Len(ring) - k
      /\ q.mark <= MarkThresh + MaxFrags /\ q.mark <= Len(q.ring)
  BY <1>2, <1>3, <1>4, TxConstants
<1>7. tdt - k \in Int /\ tdh - k <= tdt - k /\ tdt - k <= Len(q.ring)
  BY <1>1, <1>2, <1>6 DEF ChipPlace
<1>8. CountsTail(q.ring, q.mark)
  BY <1>4, <1>6 DEF CountsTail
<1>9. /\ QueueTypes' /\ ChipPlace' /\ MarkCounts' /\ MarkInvariant'
      /\ IsFlag(wrapped') /\ misread' = misread /\ ring' = q.ring
  <2> HIDE DEF k
  <2> QED
    BY <1>1, <1>2, <1>4, <1>5, <1>6, <1>7, <1>8, PublishKeeps
<1>10. TaskTypes'
  BY <1>1, <1>5, <1>9 DEF TaskTypes
<1>11. mishaps' # 0
  BY <1>5 DEF RingInv, LinkKept
<1>12. ring' = << >>
  <2>1. ring' \in Seq(Descriptor) /\ Len(ring') = 0
    BY <1>6, <1>9 DEF QueueTypes
  <2> QED
    BY <2>1, EmptySeq
<1>13. PolledEmpty' /\ LinkKept' /\ StalledForAReason'
  BY <1>11, <1>12 DEF PolledEmpty, LinkKept, StalledForAReason
<1> QED
  BY <1>9, <1>10, <1>13, TypesAfter DEF RingInv

(* What a polled send puts into the empty ring. *)
LEMMA PollSendIs ==
  ASSUME RingInv, PollSend
  PROVE  \E c \in Contexts : \E q1 \in Queue, q2 \in Queue :
           /\ q1 = WithContext(Cleaned(0), c)
           /\ q2 = WithData(q1, PollBuf, c, 1, Used(Cleaned(0), q1) + 1)
           /\ Cleaned(0) \in Queue /\ Len(Cleaned(0).ring) = 0
           /\ Cleaned(0).ctx = lastCtx /\ Cleaned(0).free >= 1
           /\ Fits(q1, 1)
           /\ q2.mark <= MarkThresh + MaxFrags
           /\ lastCtx' = q2.ctx /\ sinceMark' = q2.mark
           /\ \/ active /\ tdh' = 0 /\ ghost' = << >> /\ chipCtx' = q2.ctx
              \/ /\ ~active /\ Len(q2.ring) - tdh < DescCnt
                 /\ tdh' = tdh - Len(q2.ring)
                 /\ ghost' = ghost \o q2.ring
                 /\ chipCtx' = chipCtx
<1>1. TxTypeOK /\ QueueTypes /\ MarkCounts
  BY TypesSplit DEF RingInv
<1>2. ring = << >> /\ Len(ring) = 0 /\ txFree = DescCnt
  <2>1. ring = << >>
    BY DEF RingInv, PolledEmpty, PollSend
  <2>2. Len(ring) = 0
    BY <2>1
  <2> QED
    BY <1>1, <2>1, <2>2, TxConstants DEF QueueTypes
<1>3. 0 \in 0 .. Len(ring) /\ txFree # 0 /\ 1 \in 1 .. MaxFrags
  BY <1>2, TxConstants
<1> DEFINE q == Cleaned(0)
<1>4. PICK c \in Contexts :
        LET q1 == WithContext(q, c)
            q2 == WithData(q1, PollBuf, c, 1, Used(q, q1) + 1)
        IN /\ lastCtx' = q2.ctx
           /\ sinceMark' = q2.mark
           /\ \/ active /\ tdh' = 0 /\ ghost' = << >> /\ chipCtx' = q2.ctx
              \/ /\ ~active /\ PollTimeoutBound(Used(q, q2))
                 /\ tdh' = tdh - Used(q, q2)
                 /\ ghost' = ghost \o q2.ring
                 /\ chipCtx' = chipCtx
  BY DEF PollSend
<1> DEFINE q1 == WithContext(q, c)
           used == Used(q, q1) + 1
           q2 == WithData(q1, PollBuf, c, 1, used)
<1>5. q \in Queue /\ Len(q.ring) = 0 /\ q.free = DescCnt /\ q.ctx = lastCtx
  <2>1. q \in Queue /\ Len(q.ring) = Len(ring) - 0 /\ q.free = txFree + 0 /\ q.ctx = lastCtx
    BY <1>1, <1>3, CleanedIs
  <2> HIDE DEF q
  <2> QED
    BY <1>2, <2>1, TxConstants
<1>6. /\ q1 \in Queue /\ Len(q1.ring) + q1.free = DescCnt
      /\ Len(q1.ring) - Len(q.ring) \in {0, 1}
      /\ Used(q, q1) = Len(q1.ring) - Len(q.ring)
  BY <1>1, <1>3, FirstAttempt
<1>7. Fits(q1, 1) /\ used \in Nat /\ used <= Used(q, q1) + 1
  <2> HIDE DEF q, q1
  <2>1. Len(q1.ring) \in Nat /\ q1.free \in Nat
    BY <1>6, LenProperties DEF Queue
  <2>2. Len(q1.ring) <= 1 /\ Used(q, q1) \in {0, 1}
    <3>1. Used(q, q1) \in {0, 1} /\ Used(q, q1) = Len(q1.ring) - 0
      BY <1>5, <1>6
    <3> HIDE DEF q, q1
    <3>2. \A n \in Nat, u \in {0, 1} : u = n - 0 => n <= 1
      OBVIOUS
    <3> QED
      BY <2>1, <3>1, <3>2
  <2>3. 1 <= MaxFrags /\ 1 <= q1.free
    BY <1>6, <2>1, <2>2, TxConstants
  <2> QED
    BY <2>2, <2>3 DEF Fits
<1>8. PollBuf \in Packet \cup {PollBuf}
  OBVIOUS
<1>9. /\ q2 \in Queue /\ Len(q2.ring) + q2.free = DescCnt
      /\ q2.mark <= MarkThresh + MaxFrags
  <2> HIDE DEF used
  <2>1. Fits(WithContext(Cleaned(0), c), 1)
    BY <1>7
  <2>2. used <= Used(Cleaned(0), WithContext(Cleaned(0), c)) + 1
    BY <1>7
  <2> QED
    BY <1>1, <1>3, <1>7, <1>8, <2>1, <2>2, PacketAdded
<1>10. /\ q1 = WithContext(Cleaned(0), c)
       /\ q2 = WithData(q1, PollBuf, c, 1, Used(Cleaned(0), q1) + 1)
  OBVIOUS
<1>11. /\ lastCtx' = q2.ctx
       /\ sinceMark' = q2.mark
       /\ \/ active /\ tdh' = 0 /\ ghost' = << >> /\ chipCtx' = q2.ctx
          \/ /\ ~active /\ PollTimeoutBound(Used(q, q2))
             /\ tdh' = tdh - Used(q, q2)
             /\ ghost' = ghost \o q2.ring
             /\ chipCtx' = chipCtx
  BY <1>4
<1> HIDE DEF q1, used, q2
<1>12. Used(q, q2) = Len(q2.ring)
  <2> HIDE DEF q
  <2>1. Len(q2.ring) \in Nat /\ q2.free \in Nat
    BY <1>9, LenProperties DEF Queue
  <2> QED
    BY <1>5, <1>9, <2>1, TxConstants DEF Used
<1>13. /\ Cleaned(0) \in Queue /\ Len(Cleaned(0).ring) = 0
       /\ Cleaned(0).ctx = lastCtx /\ Cleaned(0).free >= 1
  <2>1. DescCnt >= 1
    BY TxConstants
  <2> QED
    BY <1>5, <2>1
<1> QED
  BY <1>6, <1>7, <1>9, <1>10, <1>11, <1>12, <1>13 DEF PollTimeoutBound

(* It leaves the ring empty and the chip less than a ring behind. *)
LEMMA PollSendKeepsRing ==
  ASSUME RingInv, PollSend
  PROVE  RingInv'
<1>1. QueueTypes /\ TaskTypes /\ ChipPlace
  BY TypesSplit DEF RingInv
<1>2. PICK q2 \in Queue :
        /\ q2.mark <= MarkThresh + MaxFrags
        /\ lastCtx' = q2.ctx /\ sinceMark' = q2.mark
        /\ \/ active /\ tdh' = 0 /\ ghost' = << >> /\ chipCtx' = q2.ctx
           \/ /\ ~active /\ Len(q2.ring) - tdh < DescCnt
              /\ tdh' = tdh - Len(q2.ring)
              /\ ghost' = ghost \o q2.ring
              /\ chipCtx' = chipCtx
  BY PollSendIs
<1>3. q2.ring \in Seq(Descriptor) /\ Len(q2.ring) \in Nat /\ q2.ctx \in Contexts /\ q2.mark \in Nat
  BY LenProperties DEF Queue
<1>4. /\ polling = "yes" /\ ring = << >> /\ tdt' = 0 /\ ir' = FALSE
      /\ UNCHANGED << devType, ring, txFree, txStall, active, job, polling, blocked, history >>
  BY DEF PollSend, RingInv, PolledEmpty
<1>5. ring \in Seq(Descriptor) /\ Len(ring) = 0 /\ tdh \in Int /\ tdh <= 0
      /\ ghost \in Seq(Descriptor) /\ Len(ghost) = 0 - tdh
  <2>1. Len(ring) = 0
    BY <1>4
  <2>2. tdh \in Int /\ tdt \in Int /\ tdh <= tdt /\ tdt <= Len(ring)
    BY <1>1 DEF QueueTypes, ChipPlace
  <2>3. tdh <= 0
    BY <2>1, <2>2
  <2>4. Len(ghost) = 0 - tdh
    BY <1>1, <2>2, <2>3 DEF ChipPlace
  <2> QED
    BY <1>1, <2>1, <2>2, <2>3, <2>4 DEF QueueTypes
<1>6. /\ ghost' \in Seq(Descriptor) /\ tdh' \in Int /\ 0 - DescCnt <= tdh' /\ tdh' <= 0
      /\ Len(ghost') = 0 - tdh' /\ chipCtx' \in Contexts
  <2>1. CASE tdh' = 0 /\ ghost' = << >> /\ chipCtx' = q2.ctx
    <3>1. ghost' \in Seq(Descriptor) /\ Len(ghost') = 0
      BY <2>1, EmptySeq
    <3>2. tdh' = 0 /\ chipCtx' \in Contexts
      BY <1>3, <2>1
    <3>3. 0 - DescCnt <= 0 /\ 0 - 0 = 0
      BY TxConstants
    <3> QED
      BY <3>1, <3>2, <3>3
  <2>2. CASE /\ Len(q2.ring) - tdh < DescCnt
             /\ tdh' = tdh - Len(q2.ring)
             /\ ghost' = ghost \o q2.ring
             /\ chipCtx' = chipCtx
    <3>1. ghost' \in Seq(Descriptor) /\ Len(ghost') = Len(ghost) + Len(q2.ring)
      BY <1>3, <1>5, <2>2, ConcatProperties
    <3> QED
      <4> DEFINE n == Len(q2.ring)
                 g == Len(ghost')
      <4>a. n \in Nat /\ tdh \in Int /\ tdh <= 0 /\ n - tdh < DescCnt /\ DescCnt \in Nat
            /\ tdh' = tdh - n /\ g = (0 - tdh) + n
        BY <1>3, <1>5, <2>2, <3>1, TxConstants
      <4> HIDE DEF n, g
      <4>b. 0 - DescCnt <= tdh' /\ tdh' <= 0 /\ tdh' \in Int /\ g = 0 - tdh'
        BY <4>a
      <4>1. 0 - DescCnt <= tdh' /\ tdh' <= 0 /\ tdh' \in Int /\ Len(ghost') = 0 - tdh'
        BY <4>b DEF g
      <4>2. chipCtx' \in Contexts
        BY <1>1, <2>2 DEF QueueTypes
      <4> QED
        BY <3>1, <4>1, <4>2
  <2> QED
    BY <1>2, <2>1, <2>2
<1>7. QueueTypes'
  BY <1>1, <1>2, <1>3, <1>4, <1>6 DEF QueueTypes, history
<1>8. ChipPlace'
  <2> DEFINE g == Len(ghost')
             h == tdh'
  <2>1. h \in Int /\ 0 - DescCnt <= h /\ h <= 0 /\ g = 0 - h
    BY <1>6
  <2>2. tdt' = 0 /\ Len(ring') = 0
    BY <1>4, <1>5
  <2>3. g = IF h < 0 THEN 0 - h ELSE 0
    <3> HIDE DEF g, h
    <3>1. CASE h < 0
      BY <2>1, <3>1
    <3>2. CASE h = 0
      BY <2>1, <3>2
    <3> QED
      BY <2>1, <3>1, <3>2
  <2>4. Len(ghost') = IF tdh' < 0 THEN 0 - tdh' ELSE 0
    BY <2>3
  <2>5. 0 - DescCnt <= tdh' /\ tdh' <= tdt' /\ tdt' <= Len(ring')
    BY <2>1, <2>2
  <2> QED
    BY <2>4, <2>5 DEF ChipPlace
<1>9. MarkCounts'
  <2>1. CountsTail(ring', sinceMark')
    BY <1>2, <1>3, <1>4, <1>5 DEF CountsTail
  <2> QED
    BY <1>2, <2>1 DEF MarkCounts
<1>10. TaskTypes'
  BY <1>1, <1>4 DEF TaskTypes, history, IsFlag
<1>11. mishaps' # 0
  BY <1>4 DEF RingInv, LinkKept, history
<1>12. PolledEmpty' /\ LinkKept' /\ StalledForAReason' /\ MarkInvariant'
  BY <1>4, <1>11 DEF PolledEmpty, LinkKept, StalledForAReason, MarkInvariant
<1> QED
  BY <1>7, <1>8, <1>9, <1>10, <1>12, TypesAfter DEF RingInv

(* Every step keeps RingInv. *)
LEMMA RingInvStep == RingInv /\ [TxNext]_txVars => RingInv'
<1> SUFFICES ASSUME RingInv, [TxNext]_txVars
             PROVE  RingInv'
  OBVIOUS
<1>1. CASE ChipTransmit
  BY <1>1, TransmitKeepsRing
<1>2. CASE ChipWriteBack
  BY <1>2, WriteBackKeepsRing
<1>3. CASE LinkChange \/ JobStart \/ TxRestart \/ PollStart \/ PollStop
  BY <1>3, RestKeepsRing
<1>4. CASE TxHandle
  BY <1>4, TxHandleKeepsRing
<1>5. CASE PollDrain
  BY <1>5, PollDrainKeepsRing
<1>6. CASE PollSend
  BY <1>6, PollSendKeepsRing
<1>7. ASSUME NEW s \in Senders, Send(s)
      PROVE  RingInv'
  BY <1>7, SendKeepsRing
<1>8. CASE UNCHANGED txVars
  <2>1. QueueTypes' /\ TaskTypes'
    BY <1>8, TypesSplit DEF RingInv, txVars, ringVars, history, QueueTypes, TaskTypes, IsFlag
  <2>2. ChipPlace' /\ PolledEmpty' /\ LinkKept'
    BY <1>8 DEF RingInv, txVars, ringVars, history, ChipPlace, PolledEmpty, LinkKept
  <2>3. MarkCounts' /\ StalledForAReason' /\ MarkInvariant'
    BY <1>8 DEF RingInv, txVars, ringVars, history, MarkCounts, CountsTail, StalledForAReason,
                MarkInvariant
  <2> QED
    BY <2>1, <2>2, <2>3, TypesAfter DEF RingInv
<1> QED
  BY <1>1, <1>2, <1>3, <1>4, <1>5, <1>6, <1>7, <1>8 DEF TxNext, Job, Polled

(* A ring that is full and long enough has one that hurries. *)
LEMMA FullRingHurries == RingInv => FullRingInterruptsSoon
<1> SUFFICES ASSUME RingInv, txFree = 0, devType = "legacy", ~uncounted,
                    MarkThresh + MaxFrags < DescCnt,
                    \A j \in 1 .. Len(ring) : ~Hurries(ring[j])
             PROVE  FALSE
  BY DEF FullRingInterruptsSoon
<1>1. Len(ring) = DescCnt /\ sinceMark \in Nat
  <2>1. QueueTypes
    BY TypesSplit DEF RingInv
  <2>2. Len(ring) \in Nat
    BY <2>1, LenProperties DEF QueueTypes
  <2> QED
    BY <2>1, <2>2, TxConstants DEF QueueTypes
<1>2. 0 \in 0 .. Len(ring) /\ \A j \in 0 + 1 .. Len(ring) : ~Hurries(ring[j])
  BY <1>1, TxConstants
<1>3. Len(ring) - 0 <= sinceMark
  BY <1>2 DEF RingInv, MarkCounts, CountsTail
<1> QED
  BY <1>1, <1>3, TxConstants DEF RingInv, MarkCounts

(* Descriptors are accounted for between the ring and geiTxFree,
   geiTxSinceMark never exceeds what is in use, a legacy ring that fills holds
   a descriptor that interrupts undelayed, and a protocol that geiEndSend
   refused has a stall noted with descriptors in flight, or its restart under
   way. *)
THEOREM RingAlwaysInOrder == TxSpec => []RingInOrder
<1>1. RingInv => RingInOrder
  BY FullRingHurries DEF RingInv, RingInOrder
<1> QED
  BY <1>1, RingInvInit, RingInvStep, PTL DEF TxSpec

(***************************************************************************)
(* What the chip has yet to take, as a sequence.                           *)
(***************************************************************************)

(* p2 is p with more behind it. *)
Extends(p2, p) ==
  /\ p \in Seq(Descriptor) /\ p2 \in Seq(Descriptor)
  /\ Len(p) <= Len(p2)
  /\ \A i \in 1 .. Len(p) : p2[i] = p[i]

(* g is what the chip at h has yet to take behind geiTxCons. *)
Behind(g, h, r) ==
  /\ g \in Seq(Descriptor) /\ h \in Int /\ h <= Len(r)
  /\ Len(g) = IF h < 0 THEN 0 - h ELSE 0

(* The line by index: behind geiTxCons first, then the ring. *)
LEMMA LineIs ==
  ASSUME NEW r \in Seq(Descriptor), NEW g \in Seq(Descriptor), NEW h \in Int,
         h <= Len(r), Len(g) = IF h < 0 THEN 0 - h ELSE 0
  PROVE  /\ Line(r, g, h) \in Seq(Descriptor)
         /\ Len(Line(r, g, h)) = Len(r) - h
         /\ Len(g) \in Nat /\ Len(r) \in Nat
         /\ Len(r) - h \in Nat /\ Len(g) <= Len(r) - h
         /\ \A i \in 1 .. Len(r) - h :
              /\ Line(r, g, h)[i] = IF i <= Len(g) THEN g[i] ELSE r[i + h]
              /\ ~(i <= Len(g)) => i + h \in 1 .. Len(r)
<1>1. Len(r) \in Nat /\ Len(g) \in Nat
  BY LenProperties
<1>2. Len(r) - h \in Nat /\ Len(g) <= Len(r) - h
  BY <1>1
<1>3. ASSUME NEW i \in 1 .. Len(r) - h, ~(i <= Len(g))
      PROVE  i + h \in 1 .. Len(r)
  BY <1>1, <1>3
<1>4. ASSUME NEW i \in 1 .. Len(r) - h
      PROVE  (IF i <= Len(g) THEN g[i] ELSE r[i + h]) \in Descriptor
  <2>1. CASE i <= Len(g)
    <3>1. i \in 1 .. Len(g)
      BY <1>1, <2>1
    <3> QED
      BY <2>1, <3>1, ElementOfSeq
  <2>2. CASE ~(i <= Len(g))
    <3>1. r[i + h] \in Descriptor
      BY <1>3, <2>2, ElementOfSeq
    <3> QED
      BY <2>2, <3>1
  <2> QED
    BY <2>1, <2>2
<1>5. Line(r, g, h) \in [1 .. Len(r) - h -> Descriptor]
  BY <1>4, Zenon DEF Line
<1>6. Line(r, g, h) \in Seq(Descriptor) /\ Len(Line(r, g, h)) = Len(r) - h
  BY <1>2, <1>5, FunctionIsSeq
<1>7. \A i \in 1 .. Len(r) - h :
        Line(r, g, h)[i] = IF i <= Len(g) THEN g[i] ELSE r[i + h]
  BY Zenon DEF Line
<1> QED
  BY <1>1, <1>2, <1>3, <1>6, <1>7

(* More behind the ring is more behind the line. *)
LEMMA LineGrows ==
  ASSUME NEW r, NEW g, NEW h, Behind(g, h, r), NEW r2, Extends(r2, r)
  PROVE  /\ Extends(Line(r2, g, h), Line(r, g, h))
         /\ Len(r) \in Nat /\ Len(r2) \in Nat
         /\ Len(Line(r, g, h)) = Len(r) - h /\ Len(Line(r2, g, h)) = Len(r2) - h
         /\ \A i \in Len(r) + 1 .. Len(r2) : Line(r2, g, h)[i - h] = r2[i]
<1>1. /\ r2 \in Seq(Descriptor) /\ Len(r) <= Len(r2) /\ \A i \in 1 .. Len(r) : r2[i] = r[i]
      /\ r \in Seq(Descriptor) /\ g \in Seq(Descriptor) /\ h \in Int /\ h <= Len(r)
      /\ Len(g) = IF h < 0 THEN 0 - h ELSE 0
  BY DEF Extends, Behind
<1>2. Len(r) \in Nat /\ Len(r2) \in Nat /\ Len(g) \in Nat /\ h <= Len(r2)
  BY <1>1, LenProperties
<1> DEFINE p == Line(r, g, h)
           p2 == Line(r2, g, h)
<1>3. /\ p \in Seq(Descriptor) /\ Len(p) = Len(r) - h /\ Len(g) <= Len(r) - h
      /\ \A i \in 1 .. Len(r) - h : /\ p[i] = IF i <= Len(g) THEN g[i] ELSE r[i + h]
                                    /\ ~(i <= Len(g)) => i + h \in 1 .. Len(r)
  BY <1>1, LineIs
<1>4. /\ p2 \in Seq(Descriptor) /\ Len(p2) = Len(r2) - h
      /\ \A i \in 1 .. Len(r2) - h : p2[i] = IF i <= Len(g) THEN g[i] ELSE r2[i + h]
  <2>1. /\ r2 \in Seq(Descriptor) /\ g \in Seq(Descriptor) /\ h \in Int /\ h <= Len(r2)
        /\ Len(g) = IF h < 0 THEN 0 - h ELSE 0
    BY <1>1, <1>2
  <2>2. p2 \in Seq(Descriptor) /\ Len(p2) = Len(r2) - h
    BY <2>1, LineIs
  <2>3. \A i \in 1 .. Len(r2) - h : p2[i] = IF i <= Len(g) THEN g[i] ELSE r2[i + h]
    BY <2>1, LineIs
  <2> QED
    BY <2>2, <2>3
<1> HIDE DEF p, p2
<1>5. Extends(p2, p)
  <2>1. ASSUME NEW i \in 1 .. Len(p)
        PROVE  p2[i] = p[i]
    <3>1. i \in 1 .. Len(r) - h /\ i \in 1 .. Len(r2) - h
      BY <1>1, <1>2, <1>3
    <3>2. CASE i <= Len(g)
      BY <1>3, <1>4, <3>1, <3>2
    <3>3. CASE ~(i <= Len(g))
      <4>1. i + h \in 1 .. Len(r)
        BY <1>3, <3>1, <3>3
      <4>2. r2[i + h] = r[i + h]
        BY <1>1, <4>1
      <4> QED
        BY <1>3, <1>4, <3>1, <3>3, <4>2
    <3> QED
      BY <3>2, <3>3
  <2>2. Len(p) <= Len(p2)
    BY <1>1, <1>2, <1>3, <1>4
  <2> QED
    BY <1>3, <1>4, <2>1, <2>2 DEF Extends
<1>6. ASSUME NEW i \in Len(r) + 1 .. Len(r2)
      PROVE  p2[i - h] = r2[i]
  <2>1. i - h \in 1 .. Len(r2) - h /\ ~(i - h <= Len(g)) /\ (i - h) + h = i
    BY <1>1, <1>2, <1>3
  <2> QED
    BY <1>4, <2>1
<1> QED
  BY <1>2, <1>3, <1>4, <1>5, <1>6 DEF p, p2

(***************************************************************************)
(* The requests.                                                           *)
(***************************************************************************)

(* What comes behind changes nothing for what is before it ... *)
LEMMA InForceSame ==
  ASSUME NEW p, NEW p2, Extends(p2, p), NEW chip, NEW c, NEW i \in 1 .. Len(p),
         InForce(p, chip, i, c)
  PROVE  InForce(p2, chip, i, c)
<1>1. Len(p) \in Nat /\ \A m \in 1 .. Len(p) : p2[m] = p[m]
  BY LenProperties DEF Extends
<1>2. \A m \in 1 .. i - 1 : p2[m] = p[m]
  BY <1>1
<1>3. CASE \E j \in 1 .. i - 1 : /\ IsContext(p[j]) /\ p[j].ctx = c
                                 /\ \A m \in j + 1 .. i - 1 : ~IsContext(p[m])
  <2>1. PICK j \in 1 .. i - 1 : /\ IsContext(p[j]) /\ p[j].ctx = c
                                /\ \A m \in j + 1 .. i - 1 : ~IsContext(p[m])
    BY <1>3
  <2>2. \A m \in j + 1 .. i - 1 : m \in 1 .. i - 1
    BY <1>1
  <2> QED
    BY <1>2, <2>1, <2>2 DEF InForce
<1>4. CASE c = chip /\ \A m \in 1 .. i - 1 : ~IsContext(p[m])
  BY <1>2, <1>4 DEF InForce
<1> QED
  BY <1>3, <1>4 DEF InForce

(* ... and the last request stays in force until the next context. *)
LEMMA InForceKept ==
  ASSUME NEW p, NEW p2, Extends(p2, p), NEW chip, NEW c,
         InForce(p, chip, Len(p) + 1, c),
         NEW n \in Len(p) + 1 .. Len(p2) + 1,
         \A m \in Len(p) + 1 .. n - 1 : ~IsContext(p2[m])
  PROVE  InForce(p2, chip, n, c)
<1>1. Len(p) \in Nat /\ Len(p2) \in Nat /\ \A m \in 1 .. Len(p) : p2[m] = p[m]
  BY LenProperties DEF Extends
<1>2. (Len(p) + 1) - 1 = Len(p)
  BY <1>1
<1>3. CASE \E j \in 1 .. Len(p) : /\ IsContext(p[j]) /\ p[j].ctx = c
                                  /\ \A m \in j + 1 .. Len(p) : ~IsContext(p[m])
  <2>1. PICK j \in 1 .. Len(p) : /\ IsContext(p[j]) /\ p[j].ctx = c
                                 /\ \A m \in j + 1 .. Len(p) : ~IsContext(p[m])
    BY <1>3
  <2>2. j \in 1 .. n - 1
    BY <1>1
  <2>3. ASSUME NEW m \in j + 1 .. n - 1
        PROVE  ~IsContext(p2[m])
    <3>1. m \in j + 1 .. Len(p) \/ m \in Len(p) + 1 .. n - 1
      BY <1>1
    <3>2. m \in j + 1 .. Len(p) => m \in 1 .. Len(p)
      BY <1>1
    <3> QED
      BY <1>1, <2>1, <3>1, <3>2
  <2> QED
    BY <1>1, <2>1, <2>2, <2>3 DEF InForce
<1>4. CASE c = chip /\ \A m \in 1 .. Len(p) : ~IsContext(p[m])
  <2>1. \A m \in 1 .. n - 1 : m \in 1 .. Len(p) \/ m \in Len(p) + 1 .. n - 1
    BY <1>1
  <2> QED
    BY <1>1, <1>4, <2>1 DEF InForce
<1> QED
  BY <1>2, <1>3, <1>4 DEF InForce

(* A context descriptor brings its own request into force. *)
LEMMA OwnsContext ==
  ASSUME NEW p, NEW p2, Extends(p2, p), NEW chip, NEW last, Owns(p, chip, last),
         Len(p2) = Len(p) + 1, IsContext(p2[Len(p2)])
  PROVE  Owns(p2, chip, p2[Len(p2)].ctx)
<1>1. Len(p) \in Nat /\ Len(p2) \in Nat /\ \A m \in 1 .. Len(p) : p2[m] = p[m]
  BY LenProperties DEF Extends
<1>2. InForce(p2, chip, Len(p2) + 1, p2[Len(p2)].ctx)
  <2>1. Len(p2) \in 1 .. (Len(p2) + 1) - 1
        /\ \A m \in Len(p2) + 1 .. (Len(p2) + 1) - 1 : ~IsContext(p2[m])
    BY <1>1
  <2> QED
    BY <2>1 DEF InForce
<1>3. ASSUME NEW i \in 1 .. Len(p2), p2[i].kind = "eop"
      PROVE  p2[i].ctx = NoContext \/ InForce(p2, chip, i, p2[i].ctx)
  <2>1. i # Len(p2)
    BY <1>3 DEF IsContext
  <2>2. i \in 1 .. Len(p)
    BY <1>1, <2>1
  <2>3. p[i].ctx = NoContext \/ InForce(p, chip, i, p[i].ctx)
    BY <1>1, <1>3, <2>2 DEF Owns
  <2> QED
    BY <1>1, <2>2, <2>3, InForceSame
<1> QED
  BY <1>2, <1>3 DEF Owns

(* p2 is p with a packet of f pieces behind it. *)
Gains(p2, p, f, pkt, c) ==
  /\ Extends(p2, p) /\ f \in Nat \ {0} /\ Len(p2) = Len(p) + f
  /\ IsPacketAt(p2, Len(p), f, pkt, c)

(* A packet of the request in force, or of none, finds it. *)
LEMMA OwnsPacket ==
  ASSUME NEW p, NEW p2, NEW f, NEW pkt, NEW chip, NEW last, NEW c \in {NoContext, last},
         Owns(p, chip, last), Gains(p2, p, f, pkt, c)
  PROVE  Owns(p2, chip, last)
<1>1. /\ Extends(p2, p) /\ f \in Nat \ {0} /\ Len(p2) = Len(p) + f
      /\ IsPacketAt(p2, Len(p), f, pkt, c)
      /\ Len(p) \in Nat /\ Len(p2) \in Nat /\ \A m \in 1 .. Len(p) : p2[m] = p[m]
  BY LenProperties DEF Gains, Extends
<1>2. ASSUME NEW m \in Len(p) + 1 .. Len(p2)
      PROVE  p2[m].kind \in {"data", "eop"} /\ (p2[m].kind = "eop" => m = Len(p2))
  BY <1>1 DEF IsPacketAt
<1>3. \A m \in Len(p) + 1 .. Len(p2) : ~IsContext(p2[m])
  BY <1>2 DEF IsContext
<1>4. ASSUME NEW n \in Len(p) + 1 .. Len(p2) + 1
      PROVE  InForce(p2, chip, n, last)
  <2>1. \A m \in Len(p) + 1 .. n - 1 : ~IsContext(p2[m])
    BY <1>1, <1>3
  <2>2. InForce(p, chip, Len(p) + 1, last)
    BY DEF Owns
  <2> QED
    BY <1>1, <2>1, <2>2, InForceKept
<1>5. InForce(p2, chip, Len(p2) + 1, last)
  BY <1>1, <1>4
<1>6. ASSUME NEW i \in 1 .. Len(p2), p2[i].kind = "eop"
      PROVE  p2[i].ctx = NoContext \/ InForce(p2, chip, i, p2[i].ctx)
  <2>1. CASE i \in 1 .. Len(p)
    <3>1. p[i].ctx = NoContext \/ InForce(p, chip, i, p[i].ctx)
      BY <1>1, <1>6, <2>1 DEF Owns
    <3> QED
      BY <1>1, <2>1, <3>1, InForceSame
  <2>2. CASE i \notin 1 .. Len(p)
    <3>1. i \in Len(p) + 1 .. Len(p2)
      BY <1>1, <2>2
    <3>2. i = Len(p) + f
      BY <1>1, <1>2, <1>6, <3>1
    <3>3. p2[i].ctx = c
      BY <1>1, <3>2 DEF IsPacketAt
    <3>4. InForce(p2, chip, i, last)
      BY <1>1, <1>4, <3>1
    <3> QED
      BY <3>3, <3>4
  <2> QED
    BY <2>1, <2>2
<1> QED
  BY <1>5, <1>6 DEF Owns

(* p2 is p without its first. *)
Follows(p2, p) ==
  /\ p \in Seq(Descriptor) /\ p2 \in Seq(Descriptor)
  /\ Len(p) = Len(p2) + 1
  /\ \A i \in 1 .. Len(p2) : p2[i] = p[i + 1]

(* The chip carries on from what it takes. *)
LEMMA InForceFollows ==
  ASSUME NEW p, NEW p2, Follows(p2, p), NEW chip, NEW c,
         NEW i \in 1 .. Len(p2) + 1, InForce(p, chip, i + 1, c)
  PROVE  InForce(p2, IF IsContext(p[1]) THEN p[1].ctx ELSE chip, i, c)
<1> DEFINE chip2 == IF IsContext(p[1]) THEN p[1].ctx ELSE chip
<1>1. Len(p2) \in Nat /\ \A m \in 1 .. Len(p2) : p2[m] = p[m + 1]
  BY LenProperties DEF Follows
<1>2. \A m \in 1 .. i - 1 : p2[m] = p[m + 1]
  BY <1>1
<1>3. (i + 1) - 1 = i /\ i \in Nat \ {0}
  BY <1>1
<1>4. CASE \E j \in 1 .. i : /\ IsContext(p[j]) /\ p[j].ctx = c
                             /\ \A m \in j + 1 .. i : ~IsContext(p[m])
  <2>1. PICK j \in 1 .. i : /\ IsContext(p[j]) /\ p[j].ctx = c
                            /\ \A m \in j + 1 .. i : ~IsContext(p[m])
    BY <1>4
  <2>2. \A m \in 1 .. i - 1 : m >= j => m + 1 \in j + 1 .. i
    BY <1>3
  <2>3. \A m \in 1 .. i - 1 : m >= j => ~IsContext(p2[m])
    BY <1>2, <2>1, <2>2
  <2>4. CASE j = 1
    <3>1. chip2 = c /\ \A m \in 1 .. i - 1 : ~IsContext(p2[m])
      BY <2>1, <2>3, <2>4
    <3> QED
      BY <3>1 DEF InForce
  <2>5. CASE j # 1
    <3>1. j - 1 \in 1 .. i - 1 /\ (j - 1) + 1 = j
      BY <1>3, <2>5
    <3>2. IsContext(p2[j - 1]) /\ p2[j - 1].ctx = c
      BY <1>2, <2>1, <3>1
    <3>3. \A m \in (j - 1) + 1 .. i - 1 : ~IsContext(p2[m])
      BY <1>3, <2>3
    <3> QED
      BY <3>1, <3>2, <3>3 DEF InForce
  <2> QED
    BY <2>4, <2>5
<1>5. CASE c = chip /\ \A m \in 1 .. i : ~IsContext(p[m])
  <2>1. \A m \in 1 .. i - 1 : m + 1 \in 1 .. i
    BY <1>3
  <2>2. \A m \in 1 .. i - 1 : ~IsContext(p2[m])
    BY <1>2, <1>5, <2>1
  <2>3. chip2 = c
    BY <1>3, <1>5
  <2> QED
    BY <2>2, <2>3 DEF InForce
<1> QED
  BY <1>3, <1>4, <1>5 DEF InForce

(* So packets keep their requests when the chip takes the first in line, and
   that one has its own. *)
LEMMA OwnsFollows ==
  ASSUME NEW p, NEW p2, Follows(p2, p), NEW chip, NEW last, Owns(p, chip, last)
  PROVE  /\ Owns(p2, IF IsContext(p[1]) THEN p[1].ctx ELSE chip, last)
         /\ p[1].kind = "eop" => p[1].ctx \in {NoContext, chip}
<1>1. Len(p2) \in Nat /\ Len(p) = Len(p2) + 1 /\ \A m \in 1 .. Len(p2) : p2[m] = p[m + 1]
  BY LenProperties DEF Follows
<1> DEFINE chip2 == IF IsContext(p[1]) THEN p[1].ctx ELSE chip
<1>2. InForce(p2, chip2, Len(p2) + 1, last)
  <2>1. Len(p2) + 1 \in 1 .. Len(p2) + 1 /\ InForce(p, chip, (Len(p2) + 1) + 1, last)
    BY <1>1 DEF Owns
  <2> QED
    BY <2>1, InForceFollows
<1>3. ASSUME NEW i \in 1 .. Len(p2), p2[i].kind = "eop"
      PROVE  p2[i].ctx = NoContext \/ InForce(p2, chip2, i, p2[i].ctx)
  <2>1. i + 1 \in 1 .. Len(p) /\ p2[i] = p[i + 1] /\ i \in 1 .. Len(p2) + 1
    BY <1>1
  <2>2. p[i + 1].ctx = NoContext \/ InForce(p, chip, i + 1, p[i + 1].ctx)
    BY <1>3, <2>1 DEF Owns
  <2> QED
    BY <2>1, <2>2, InForceFollows
<1>4. ASSUME p[1].kind = "eop"
      PROVE  p[1].ctx \in {NoContext, chip}
  <2>1. p[1].ctx = NoContext \/ InForce(p, chip, 1, p[1].ctx)
    BY <1>1, <1>4 DEF Owns
  <2> QED
    BY <2>1 DEF InForce
<1> QED
  BY <1>2, <1>3, <1>4 DEF Owns

(***************************************************************************)
(* The order.                                                              *)
(***************************************************************************)

(* What is no packet changes no order. *)
LEMMA OrderedMore ==
  ASSUME NEW p, NEW p2, Extends(p2, p), NEW left \in Seq(Packet), NEW count,
         Ordered(p, left, count),
         \A i \in Len(p) + 1 .. Len(p2) : ~IsPacket(p2[i])
  PROVE  Ordered(p2, left, count)
<1>1. Len(p) \in Nat /\ Len(p2) \in Nat /\ \A m \in 1 .. Len(p) : p2[m] = p[m]
  BY LenProperties DEF Extends
<1>2. ASSUME NEW i \in 1 .. Len(p2), IsPacket(p2[i])
      PROVE  i \in 1 .. Len(p) /\ p2[i] = p[i] /\ IsPacket(p[i])
  BY <1>1, <1>2
<1>3. ASSUME NEW i \in 1 .. Len(p2), IsPacket(p2[i])
      PROVE  /\ p2[i].pkt.n <= count[p2[i].pkt.s]
             /\ \A j \in 1 .. Len(left) : InOrder(left[j], p2[i].pkt)
             /\ \A j \in i + 1 .. Len(p2) : IsPacket(p2[j]) => InOrder(p2[i].pkt, p2[j].pkt)
  <2>1. i \in 1 .. Len(p) /\ p2[i] = p[i] /\ IsPacket(p[i])
    BY <1>2, <1>3
  <2>2. ASSUME NEW j \in i + 1 .. Len(p2), IsPacket(p2[j])
        PROVE  InOrder(p2[i].pkt, p2[j].pkt)
    <3>1. j \in 1 .. Len(p2)
      BY <1>1
    <3>2. j \in 1 .. Len(p) /\ p2[j] = p[j] /\ IsPacket(p[j])
      BY <1>2, <2>2, <3>1
    <3>3. j \in i + 1 .. Len(p)
      BY <1>1, <3>2
    <3> QED
      BY <2>1, <3>2, <3>3 DEF Ordered
  <2> QED
    BY <2>1, <2>2 DEF Ordered
<1> QED
  BY <1>3 DEF Ordered

(* The next packet of a protocol comes after all of its others. *)
LEMMA OrderedPacket ==
  ASSUME NEW p, NEW p2, NEW left \in Seq(Packet),
         NEW count \in [Senders -> Nat], Ordered(p, left, count),
         NEW s \in Senders, NEW f, NEW c,
         Gains(p2, p, f, [s |-> s, n |-> count[s] + 1], c)
  PROVE  Ordered(p2, left, [count EXCEPT ![s] = @ + 1])
<1> DEFINE new == [s |-> s, n |-> count[s] + 1]
           more == [count EXCEPT ![s] = @ + 1]
           n2 == Len(p2)
<1>1. /\ Len(p) \in Nat /\ n2 \in Nat /\ n2 = Len(p) + f
      /\ p \in Seq(Descriptor) /\ p2 \in Seq(Descriptor)
      /\ \A m \in 1 .. Len(p) : p2[m] = p[m]
      /\ f \in Nat \ {0} /\ IsPacketAt(p2, Len(p), f, new, c)
  BY LenProperties DEF Extends, Gains
<1>2. ASSUME NEW i \in 1 .. n2, IsPacket(p2[i])
      PROVE  i = n2 \/ (i \in 1 .. Len(p) /\ p2[i] = p[i] /\ IsPacket(p[i]))
  <2>1. CASE i \in 1 .. Len(p)
    BY <1>1, <1>2, <2>1
  <2>2. CASE i \notin 1 .. Len(p)
    <3>1. i \in Len(p) + 1 .. Len(p) + f
      BY <1>1, <2>2
    <3>2. i < Len(p) + f => p2[i].kind = "data"
      BY <1>1, <3>1 DEF IsPacketAt
    <3> QED
      BY <1>1, <1>2, <3>1, <3>2 DEF IsPacket
  <2> QED
    BY <2>1, <2>2
<1>3. p2[n2].pkt = new /\ new.s = s /\ new.n = count[s] + 1
  BY <1>1 DEF IsPacketAt
<1>4. \A t \in Senders : /\ count[t] \in Nat /\ more[t] \in Nat /\ count[t] <= more[t]
                         /\ more[s] = count[s] + 1
  OBVIOUS
<1>5. \A i \in 1 .. Len(left) : left[i].s \in Senders /\ left[i].n \in Nat
  <2>1. \A i \in 1 .. Len(left) : left[i] \in Packet
    BY ElementOfSeq
  <2> QED
    BY <2>1 DEF Packet
<1>6. ASSUME NEW i \in 1 .. Len(p), IsPacket(p[i])
      PROVE  p[i].pkt.s \in Senders /\ p[i].pkt.n \in Nat
  <2>1. p[i] \in Descriptor
    BY <1>1, ElementOfSeq
  <2>2. p[i].pkt \in Packet
    BY <1>6, <2>1 DEF Descriptor, IsPacket
  <2> QED
    BY <2>2 DEF Packet
<1> HIDE DEF more, new, n2
<1>7. \A i \in 1 .. Len(left) : left[i].n <= more[left[i].s] /\ InOrder(left[i], new)
  <2> TAKE i \in 1 .. Len(left)
  <2>1. left[i].n <= count[left[i].s]
    BY DEF Ordered
  <2>2. left[i].n <= more[left[i].s]
    BY <1>4, <1>5, <2>1
  <2>3. left[i].s = s => left[i].n < count[s] + 1
    BY <1>4, <1>5, <2>1
  <2> QED
    BY <1>3, <2>2, <2>3 DEF InOrder
<1>8. ASSUME NEW i \in 1 .. Len(p), IsPacket(p[i])
      PROVE  p[i].pkt.n <= more[p[i].pkt.s] /\ InOrder(p[i].pkt, new)
  <2>1. p[i].pkt.n <= count[p[i].pkt.s]
    BY <1>8 DEF Ordered
  <2>2. p[i].pkt.n <= more[p[i].pkt.s]
    BY <1>4, <1>6, <1>8, <2>1
  <2>3. p[i].pkt.s = s => p[i].pkt.n < count[s] + 1
    BY <1>4, <1>6, <1>8, <2>1
  <2> QED
    BY <1>3, <2>2, <2>3 DEF InOrder
<1>9. ASSUME NEW i \in 1 .. n2, IsPacket(p2[i])
      PROVE  /\ p2[i].pkt.n <= more[p2[i].pkt.s]
             /\ \A j \in 1 .. Len(left) : InOrder(left[j], p2[i].pkt)
             /\ \A j \in i + 1 .. n2 : IsPacket(p2[j]) => InOrder(p2[i].pkt, p2[j].pkt)
  <2>1. CASE i = n2
    <3>1. p2[i].pkt.n <= more[p2[i].pkt.s]
      BY <1>3, <1>4, <2>1
    <3>2. \A j \in 1 .. Len(left) : InOrder(left[j], p2[i].pkt)
      BY <1>3, <1>7, <2>1
    <3>3. i + 1 .. n2 = {}
      BY <1>1, <2>1
    <3> QED
      BY <3>1, <3>2, <3>3
  <2>2. CASE i \in 1 .. Len(p) /\ p2[i] = p[i] /\ IsPacket(p[i])
    <3>1. p2[i].pkt.n <= more[p2[i].pkt.s]
      BY <1>8, <2>2
    <3>2. \A j \in 1 .. Len(left) : InOrder(left[j], p2[i].pkt)
      BY <2>2 DEF Ordered
    <3>3. ASSUME NEW j \in i + 1 .. n2, IsPacket(p2[j])
          PROVE  InOrder(p2[i].pkt, p2[j].pkt)
      <4>1. j \in 1 .. n2
        BY <1>1, <2>2
      <4>2. CASE j = n2
        BY <1>3, <1>8, <2>2, <4>2
      <4>3. CASE j \in 1 .. Len(p) /\ p2[j] = p[j] /\ IsPacket(p[j])
        <5>1. j \in i + 1 .. Len(p)
          BY <1>1, <4>3
        <5> QED
          BY <2>2, <4>3, <5>1 DEF Ordered
      <4> QED
        BY <1>2, <3>3, <4>1, <4>2, <4>3
    <3> QED
      BY <3>1, <3>2, <3>3
  <2> QED
    BY <1>2, <1>9, <2>1, <2>2
<1>10. \A i, j \in 1 .. Len(left) : i < j => InOrder(left[i], left[j])
  BY DEF Ordered
<1>11. Ordered(p2, left, more)
  BY <1>7, <1>9, <1>10 DEF Ordered, n2
<1> QED
  BY <1>11 DEF more

(* The first in line leaves after all that left. *)
LEMMA OrderedFollows ==
  ASSUME NEW p, NEW p2, Follows(p2, p), NEW left \in Seq(Packet), NEW count,
         Ordered(p, left, count),
         NEW left2, left2 = IF IsPacket(p[1]) THEN Append(left, p[1].pkt) ELSE left
  PROVE  Ordered(p2, left2, count)
<1>1. /\ Len(p2) \in Nat /\ Len(p) = Len(p2) + 1
      /\ \A m \in 1 .. Len(p2) : p2[m] = p[m + 1]
      /\ Len(left) \in Nat
  BY LenProperties DEF Follows
<1>2. ASSUME NEW i \in 1 .. Len(left2)
      PROVE  \/ i \in 1 .. Len(left) /\ left2[i] = left[i]
             \/ IsPacket(p[1]) /\ i = Len(left) + 1 /\ left2[i] = p[1].pkt
  <2>1. CASE IsPacket(p[1])
    <3>1. p[1].pkt \in Packet
      <4>1. p[1] \in Descriptor
        BY <1>1, ElementOfSeq DEF Follows
      <4> QED
        BY <2>1, <4>1 DEF IsPacket, Descriptor
    <3>2. /\ Len(left2) = Len(left) + 1 /\ left2[Len(left) + 1] = p[1].pkt
          /\ \A j \in 1 .. Len(left) : left2[j] = left[j]
      BY <2>1, <3>1, AppendProperties
    <3>3. i \in 1 .. Len(left) \/ i = Len(left) + 1
      BY <1>1, <3>2
    <3> QED
      BY <2>1, <3>2, <3>3
  <2>2. CASE ~IsPacket(p[1])
    BY <2>2
  <2> QED
    BY <2>1, <2>2
<1>3. 1 \in 1 .. Len(p) /\ \A m \in 1 .. Len(p2) : m + 1 \in 1 + 1 .. Len(p) /\ m + 1 \in 1 .. Len(p)
  BY <1>1
<1>4. ASSUME NEW i \in 1 .. Len(left2)
      PROVE  /\ left2[i].n <= count[left2[i].s]
             /\ \A m \in 1 .. Len(p2) : IsPacket(p2[m]) => InOrder(left2[i], p2[m].pkt)
  <2>1. CASE i \in 1 .. Len(left) /\ left2[i] = left[i]
    BY <1>1, <1>3, <2>1 DEF Ordered
  <2>2. CASE IsPacket(p[1]) /\ i = Len(left) + 1 /\ left2[i] = p[1].pkt
    BY <1>1, <1>3, <2>2 DEF Ordered
  <2> QED
    BY <1>2, <2>1, <2>2
<1>5. ASSUME NEW i \in 1 .. Len(left2), NEW j \in 1 .. Len(left2), i < j
      PROVE  InOrder(left2[i], left2[j])
  <2>1. i \in 1 .. Len(left) /\ left2[i] = left[i]
    <3>1. Len(left2) <= Len(left) + 1
      BY <1>1, <1>2
    <3> QED
      BY <1>1, <1>2, <1>5
  <2>2. CASE j \in 1 .. Len(left) /\ left2[j] = left[j]
    BY <1>5, <2>1, <2>2 DEF Ordered
  <2>3. CASE IsPacket(p[1]) /\ left2[j] = p[1].pkt
    BY <1>3, <2>1, <2>3 DEF Ordered
  <2> QED
    BY <1>2, <2>1, <2>2, <2>3
<1>6. ASSUME NEW i \in 1 .. Len(p2), IsPacket(p2[i])
      PROVE  /\ p2[i].pkt.n <= count[p2[i].pkt.s]
             /\ \A j \in i + 1 .. Len(p2) : IsPacket(p2[j]) => InOrder(p2[i].pkt, p2[j].pkt)
  <2>1. \A j \in i + 1 .. Len(p2) : j \in 1 .. Len(p2) /\ j + 1 \in (i + 1) + 1 .. Len(p)
    BY <1>1
  <2> QED
    BY <1>1, <1>3, <1>6, <2>1 DEF Ordered
<1> QED
  BY <1>4, <1>5, <1>6 DEF Ordered

(***************************************************************************)
(* FreedAfterSent and SentAsAsked.                                         *)
(***************************************************************************)

(* Packets the chip took can be freed. *)
LEMMA FreedAreSent ==
  ASSUME QueueTypes, Taken, NEW k \in 0 .. Len(ring),
         \A i \in 1 .. k : ring[i].kind = "eop" => i <= tdh
  PROVE  FreedBy(k) \subseteq SentPackets
<1>1. ring \in Seq(Descriptor) /\ Len(ring) \in Nat
  BY LenProperties DEF QueueTypes
<1> DEFINE r == SubSeq(ring, 1, k)
<1>2. \A i \in 1 .. k : ring[i] \in Descriptor
  BY <1>1, ElementOfSeq
<1>3. Len(r) = k /\ \A i \in 1 .. k : r[i] = ring[i]
  BY <1>1, <1>2, SubSeqProperties
<1> HIDE DEF r
<1> SUFFICES ASSUME NEW i \in 1 .. k, r[i].kind = "eop", r[i].pkt # PollBuf
             PROVE  r[i].pkt \in SentPackets
  BY <1>3 DEF FreedBy, PacketsIn, r
<1>4. i \in 1 .. Len(ring) /\ i <= tdh /\ ring[i].kind = "eop" /\ r[i] = ring[i]
  BY <1>1, <1>3
<1> QED
  BY <1>4 DEF Taken

(* The clean-up takes only what the chip is done with. *)
LEMMA CleansWhatLeft ==
  ASSUME QueueTypes, Taken, NEW k \in 0 .. Len(ring), CleansTo(k)
  PROVE  FreedBy(k) \subseteq SentPackets
<1>1. Len(ring) \in Nat /\ tdh \in Int
  BY LenProperties DEF QueueTypes
<1>2. ASSUME NEW i \in 1 .. k, ring[i].kind = "eop"
      PROVE  i <= tdh
  <2>1. ring[i].st = "done" /\ i \in 1 .. Len(ring)
    BY <1>1, <1>2 DEF CleansTo, Reclaimable
  <2> QED
    BY <1>1, <2>1 DEF Taken
<1> QED
  BY <1>2, FreedAreSent

(* A write-back of the ring adds to what the chip has yet to take what the
   call added to the ring. *)
LEMMA PublishSound ==
  ASSUME TxTypeOK, QueueTypes', ChipPlace, ChipPlace', Taken, freed \subseteq SentPackets,
         NEW k \in 0 .. Len(ring), NEW q \in Queue,
         NEW tail \in Int, tdt - k <= tail, Publish(k, q, tail), ~wrapped', sent' = sent,
         FreedBy(k) \subseteq SentPackets,
         Extends(q.ring, Cleaned(k).ring),
         \A i \in Len(Cleaned(k).ring) + 1 .. Len(q.ring) :
           q.ring[i].st = "new" /\ (i > tail => q.ring[i].kind # "eop")
  PROVE  /\ Taken' /\ freed' \subseteq SentPackets'
         /\ Line(Cleaned(k).ring, ghost', tdh') = Pending
         /\ Pending' = Line(q.ring, ghost', tdh')
         /\ lastCtx' = q.ctx /\ chipCtx' = chipCtx /\ misread' = misread
         /\ Behind(ghost', tdh', Cleaned(k).ring)
<1>1. /\ ring' = q.ring /\ lastCtx' = q.ctx /\ chipCtx' = chipCtx /\ misread' = misread
      /\ tdh' = tdh - k /\ tdt' = tail /\ freed' = freed \cup FreedBy(k)
      /\ ~wrapped /\ ~(Len(q.ring) - (tdh - k) >= DescCnt)
  BY DEF Publish
<1>2. /\ ring \in Seq(Descriptor) /\ ghost \in Seq(Descriptor) /\ tdh \in Int /\ tdt \in Int
      /\ Len(ring) \in Nat /\ k \in Nat /\ k <= Len(ring) /\ tdh <= tdt /\ tdt <= Len(ring)
      /\ Len(ghost) = (IF tdh < 0 THEN 0 - tdh ELSE 0)
  BY LenProperties DEF TxTypeOK, ChipPlace
<1>3. GhostGrows
  <2>1. QueueTypes
    BY TypesSplit
  <2>2. ghost' = ghost \o Untaken(k) /\ tdh' = tdh - k
    BY DEF Publish
  <2> QED
    BY <2>1, <2>2, GhostsGrow
<1> DEFINE r == Cleaned(k).ring
<1>4. /\ r \in Seq(Descriptor) /\ Len(r) = Len(ring) - k
      /\ \A i \in 1 .. Len(ring) - k : r[i] = ring[i + k]
  BY CleanedIs DEF Queue
<1>5. /\ Len(q.ring) \in Nat /\ Len(r) <= Len(q.ring)
      /\ \A i \in 1 .. Len(r) : q.ring[i] = r[i]
  BY LenProperties DEF Extends
<1>6. \A i \in Len(r) + 1 .. Len(q.ring) :
        q.ring[i].st = "new" /\ (i > tail => q.ring[i].kind # "eop")
  OBVIOUS
<1> HIDE DEF r
<1>7. SentPackets' = SentPackets
  BY DEF SentPackets
<1>8. Taken'
  <2>1. Len(ring') - tdh' < DescCnt
    BY <1>1, <1>2, <1>5, TxConstants
  <2>2. ASSUME NEW i \in 1 .. Len(ring')
        PROVE  /\ i > tdh' => ring'[i].st = "new"
               /\ i <= tdh' /\ ring'[i].kind = "eop" => ring'[i].pkt \in SentPackets \cup {PollBuf}
               /\ i > tdt' => ring'[i].kind # "eop"
    <3>1. i \in Nat /\ (i \in 1 .. Len(r) \/ i \in Len(r) + 1 .. Len(q.ring))
      BY <1>1, <1>2, <1>4, <1>5
    <3>2. CASE i \in 1 .. Len(r)
      <4>1. /\ ring'[i] = ring[i + k] /\ i + k \in 1 .. Len(ring)
            /\ (i > tdh' <=> i + k > tdh) /\ (i <= tdh' <=> i + k <= tdh)
            /\ (i > tdt' => i + k > tdt)
        <5>1. i \in 1 .. Len(ring) - k /\ ring'[i] = ring[i + k]
          BY <1>1, <1>2, <1>4, <1>5, <3>2
        <5>2. i + k \in 1 .. Len(ring)
          BY <1>2, <5>1
        <5>3. (i > tdh' <=> i + k > tdh) /\ (i <= tdh' <=> i + k <= tdh)
          BY <1>1, <1>2, <5>1
        <5>4. i > tdt' => i + k > tdt
          BY <1>1, <1>2, <5>1
        <5> QED
          BY <5>1, <5>2, <5>3, <5>4
      <4> QED
        BY <4>1 DEF Taken
    <3>3. CASE i \in Len(r) + 1 .. Len(q.ring)
      <4>1. ~(i <= tdh')
        BY <1>1, <1>2, <1>4, <3>3
      <4> QED
        BY <1>1, <1>6, <3>3, <4>1
    <3> QED
      BY <3>1, <3>2, <3>3
  <2> QED
    BY <1>7, <2>1, <2>2 DEF Taken
<1>9. freed' \subseteq SentPackets'
  BY <1>1, <1>7
<1>10. /\ ghost' \in Seq(Descriptor) /\ tdh' \in Int /\ tdh' <= Len(r)
      /\ Len(ghost') = IF tdh' < 0 THEN 0 - tdh' ELSE 0
  BY <1>1, <1>2, <1>4 DEF QueueTypes, ChipPlace
<1>11. Line(r, ghost', tdh') = Pending
  <2> DEFINE a == Line(r, ghost', tdh')
  <2>1. /\ a \in Seq(Descriptor) /\ Len(a) = Len(r) - tdh'
        /\ \A i \in 1 .. Len(r) - tdh' :
             /\ a[i] = IF i <= Len(ghost') THEN ghost'[i] ELSE r[i + tdh']
             /\ ~(i <= Len(ghost')) => i + tdh' \in 1 .. Len(r)
    BY <1>4, <1>10, LineIs
  <2>2. /\ Pending \in Seq(Descriptor) /\ Len(Pending) = Len(ring) - tdh
        /\ \A i \in 1 .. Len(ring) - tdh :
             Pending[i] = IF i <= Len(ghost) THEN ghost[i] ELSE ring[i + tdh]
    <3>1. tdh <= Len(ring)
      BY <1>2
    <3> QED
      BY <1>2, <3>1, LineIs, SMTT(30) DEF Pending
  <2> HIDE DEF a
  <2>3. Len(r) - tdh' = Len(ring) - tdh
    BY <1>1, <1>2, <1>4
  <2>4. ASSUME NEW i \in 1 .. Len(ring) - tdh
        PROVE  a[i] = Pending[i]
    <3>1. CASE i <= Len(ghost')
      <4>1. i \in 1 .. Len(ghost')
        BY <1>2, <1>10, <3>1
      <4>2. ghost'[i] = IF i <= Len(ghost) THEN ghost[i] ELSE ring[i + tdh]
        BY <1>3, <4>1 DEF GhostGrows
      <4> QED
        BY <2>1, <2>2, <2>3, <3>1, <4>2
    <3>2. CASE ~(i <= Len(ghost'))
      <4>1. i + tdh' \in 1 .. Len(r) /\ a[i] = r[i + tdh']
        BY <2>1, <2>3, <3>2
      <4>2. (i + tdh') + k = i + tdh
        BY <1>1, <1>2
      <4>3. r[i + tdh'] = ring[i + tdh]
        BY <1>4, <4>1, <4>2
      <4>4. ~(i <= Len(ghost))
        BY <1>1, <1>2, <1>10, <3>2
      <4> QED
        BY <2>2, <4>1, <4>3, <4>4
    <3> QED
      BY <3>1, <3>2
  <2>5. a = Pending
    <3>1. Len(a) = Len(Pending) /\ \A i \in 1 .. Len(a) : a[i] = Pending[i]
      BY <2>1, <2>2, <2>3, <2>4
    <3> QED
      BY <2>1, <2>2, <3>1, SeqEqual
  <2> QED
    BY <2>5 DEF a
<1>12. Pending' = Line(q.ring, ghost', tdh')
  BY <1>1 DEF Pending
<1>13. Behind(ghost', tdh', r)
  BY <1>10 DEF Behind
<1> QED
  BY <1>1, <1>8, <1>9, <1>11, <1>12, <1>13 DEF r

(* The first attempt leaves the ring as it is, or a context behind it. *)
LEMMA AttemptIs ==
  ASSUME TxTypeOK, NEW k \in 0 .. Len(ring), NEW c \in Contexts, txFree # 0,
         NEW q1, q1 = WithContext(Cleaned(k), c)
  PROVE  /\ q1 \in Queue
         /\ Extends(q1.ring, Cleaned(k).ring)
         /\ c \in {NoContext, q1.ctx}
         /\ \/ q1.ring = Cleaned(k).ring /\ q1.ctx = lastCtx
            \/ /\ Len(q1.ring) = Len(Cleaned(k).ring) + 1
               /\ IsContext(q1.ring[Len(q1.ring)])
               /\ q1.ring[Len(q1.ring)].ctx = q1.ctx
               /\ q1.ring[Len(q1.ring)].st = "new"
<1> DEFINE q == Cleaned(k)
<1>1. q \in Queue /\ q.free = txFree + k /\ q.ctx = lastCtx
  BY CleanedIs
<1>2. q.ring \in Seq(Descriptor) /\ Len(q.ring) \in Nat /\ q.free >= 1
  <2>1. txFree \in Nat
    BY TxConstants DEF TxTypeOK
  <2> QED
    BY <1>1, <2>1, LenProperties DEF Queue
<1> HIDE DEF q
<1>3. CASE q1 = q
  <2>1. WithContext(q, c) = q
    BY <1>3 DEF q
  <2>2. c \in {NoContext, q.ctx}
    BY <1>1, <1>2, <2>1, NoContextNeeded
  <2>3. Extends(q1.ring, q.ring)
    BY <1>2, <1>3 DEF Extends
  <2> QED
    BY <1>1, <1>3, <2>2, <2>3 DEF q
<1>4. CASE q1 # q
  <2>1. PICK d \in Descriptor : /\ IsContext(d) /\ d.ctx = c /\ d.st = "new"
                                /\ q1 \in Queue
                                /\ q1.ring = Append(q.ring, d)
                                /\ q1.ctx = c
    <3>1. WithContext(q, c) # q
      BY <1>4 DEF q
    <3>2. q1 = WithContext(q, c)
      BY DEF q
    <3> QED
      BY <1>1, <1>2, <3>1, <3>2, WithContextIs
  <2>2. /\ Len(q1.ring) = Len(q.ring) + 1 /\ q1.ring[Len(q.ring) + 1] = d
        /\ \A i \in 1 .. Len(q.ring) : q1.ring[i] = q.ring[i]
    BY <1>2, <2>1, AppendProperties
  <2>3. Extends(q1.ring, q.ring)
    BY <1>2, <2>1, <2>2 DEF Extends, Queue
  <2> QED
    BY <2>1, <2>2, <2>3 DEF q
<1> QED
  BY <1>3, <1>4

(* So the request the driver remembers stays the last in line. *)
LEMMA AttemptOwns ==
  ASSUME TxTypeOK, NEW k \in 0 .. Len(ring), NEW c \in Contexts, txFree # 0,
         NEW q1, q1 = WithContext(Cleaned(k), c),
         NEW g, NEW h, Behind(g, h, Cleaned(k).ring),
         NEW chip, NEW left \in Seq(Packet), NEW count,
         Owns(Line(Cleaned(k).ring, g, h), chip, lastCtx),
         Ordered(Line(Cleaned(k).ring, g, h), left, count)
  PROVE  /\ Owns(Line(q1.ring, g, h), chip, q1.ctx)
         /\ Ordered(Line(q1.ring, g, h), left, count)
<1> DEFINE r == Cleaned(k).ring
           r1 == q1.ring
           p == Line(r, g, h)
           p1 == Line(r1, g, h)
<1>1. /\ q1 \in Queue
      /\ Extends(r1, r)
      /\ \/ r1 = r /\ q1.ctx = lastCtx
         \/ /\ Len(r1) = Len(r) + 1
            /\ IsContext(r1[Len(r1)])
            /\ r1[Len(r1)].ctx = q1.ctx
  BY AttemptIs
<1>2. Behind(g, h, r) /\ h \in Int
  BY DEF Behind
<1> HIDE DEF r, r1
<1>3. /\ Extends(p1, p) /\ Len(r) \in Nat /\ Len(r1) \in Nat
      /\ Len(p) = Len(r) - h /\ Len(p1) = Len(r1) - h
      /\ \A i \in Len(r) + 1 .. Len(r1) : p1[i - h] = r1[i]
  BY <1>1, <1>2, LineGrows
<1>4. Owns(p, chip, lastCtx) /\ Ordered(p, left, count)
  BY DEF r
<1>5. CASE r1 = r /\ q1.ctx = lastCtx
  BY <1>4, <1>5 DEF r1
<1>6. CASE /\ Len(r1) = Len(r) + 1
           /\ IsContext(r1[Len(r1)])
           /\ r1[Len(r1)].ctx = q1.ctx
  <2>1. Len(p1) = Len(p) + 1 /\ p1[Len(p1)] = r1[Len(r1)]
    BY <1>2, <1>3, <1>6
  <2> HIDE DEF p, p1
  <2>2. Owns(p1, chip, q1.ctx)
    BY <1>3, <1>4, <1>6, <2>1, OwnsContext
  <2>3. \A i \in Len(p) + 1 .. Len(p1) : ~IsPacket(p1[i])
    <3>1. Len(p1) \in Nat
      BY <1>3, LenProperties DEF Extends
    <3>2. \A i \in Len(p) + 1 .. Len(p1) : i = Len(p1)
      BY <2>1, <3>1
    <3>3. ~IsPacket(p1[Len(p1)])
      BY <1>6, <2>1 DEF IsContext, IsPacket
    <3> QED
      BY <3>2, <3>3
  <2>4. Ordered(p1, left, count)
    BY <1>3, <1>4, <2>3, OrderedMore
  <2> QED
    BY <2>2, <2>4 DEF p1, r1
<1> QED
  BY <1>1, <1>5, <1>6

(* The clean-up keeps what the chip has yet to take ... *)
LEMMA CleanSound ==
  ASSUME TxTypeOK, QueueTypes', ChipPlace, ChipPlace', Sound,
         NEW k \in 0 .. Len(ring), NEW q \in Queue,
         q.ring = Cleaned(k).ring, q.ctx = lastCtx,
         Publish(k, q, tdt - k), ~wrapped', UNCHANGED << sent, given >>,
         FreedBy(k) \subseteq SentPackets
  PROVE  Sound'
<1>1. q.ring \in Seq(Descriptor) /\ Len(q.ring) \in Nat /\ tdt - k \in Int /\ tdt - k <= tdt - k
  BY LenProperties DEF Queue, TxTypeOK
<1>2. Extends(q.ring, Cleaned(k).ring)
  BY <1>1 DEF Extends
<1>3. \A i \in Len(Cleaned(k).ring) + 1 .. Len(q.ring) : FALSE
  BY <1>1
<1>4. /\ Taken' /\ freed' \subseteq SentPackets'
      /\ Line(Cleaned(k).ring, ghost', tdh') = Pending
      /\ Pending' = Line(q.ring, ghost', tdh')
      /\ lastCtx' = q.ctx /\ chipCtx' = chipCtx /\ misread' = misread
  BY <1>1, <1>2, <1>3, PublishSound DEF Sound
<1>5. Pending' = Pending
  BY <1>4
<1> QED
  BY <1>4, <1>5 DEF Sound

(* ... so does a first attempt ... *)
LEMMA AttemptSound ==
  ASSUME TxTypeOK, QueueTypes', ChipPlace, ChipPlace', Sound,
         NEW k \in 0 .. Len(ring), NEW c \in Contexts, txFree # 0,
         NEW q1, q1 = WithContext(Cleaned(k), c),
         NEW tail \in {Len(q1.ring), tdt - k},
         Publish(k, q1, tail), ~wrapped', UNCHANGED << sent, given >>,
         FreedBy(k) \subseteq SentPackets
  PROVE  Sound'
<1>1. /\ q1 \in Queue
      /\ Extends(q1.ring, Cleaned(k).ring)
      /\ \/ q1.ring = Cleaned(k).ring /\ q1.ctx = lastCtx
         \/ /\ Len(q1.ring) = Len(Cleaned(k).ring) + 1
            /\ IsContext(q1.ring[Len(q1.ring)])
            /\ q1.ring[Len(q1.ring)].st = "new"
  BY AttemptIs
<1>2. /\ Len(q1.ring) \in Nat /\ Len(Cleaned(k).ring) \in Nat
      /\ Len(Cleaned(k).ring) = Len(ring) - k /\ Len(ring) - k <= Len(q1.ring)
      /\ Len(ring) \in Nat /\ tdt \in Int /\ tdt <= Len(ring)
  <2>1. ring \in Seq(Descriptor) /\ tdt \in Int /\ tdt <= Len(ring)
    BY DEF TxTypeOK, ChipPlace
  <2>2. Len(Cleaned(k).ring) = Len(ring) - k
    BY CleanedIs
  <2> QED
    BY <1>1, <2>1, <2>2, LenProperties DEF Extends
<1>3. tail \in Int /\ tdt - k <= tail
  BY <1>2
<1>4. \A i \in Len(Cleaned(k).ring) + 1 .. Len(q1.ring) :
        q1.ring[i].st = "new" /\ (i > tail => q1.ring[i].kind # "eop")
  <2> TAKE i \in Len(Cleaned(k).ring) + 1 .. Len(q1.ring)
  <2>1. q1.ring # Cleaned(k).ring
    BY <1>2
  <2>2. i = Len(q1.ring)
    BY <1>1, <1>2, <2>1
  <2> QED
    BY <1>1, <2>1, <2>2 DEF IsContext
<1>5. /\ Taken' /\ freed' \subseteq SentPackets'
      /\ Line(Cleaned(k).ring, ghost', tdh') = Pending
      /\ Pending' = Line(q1.ring, ghost', tdh')
      /\ lastCtx' = q1.ctx /\ chipCtx' = chipCtx /\ misread' = misread
      /\ Behind(ghost', tdh', Cleaned(k).ring)
  BY <1>1, <1>3, <1>4, PublishSound DEF Sound
<1>6. Owns(Pending', chipCtx, q1.ctx) /\ Ordered(Pending', sent, given)
  <2>1. sent \in Seq(Packet)
    BY DEF TxTypeOK
  <2> QED
    BY <1>5, <2>1, AttemptOwns DEF Sound
<1> QED
  BY <1>5, <1>6 DEF Sound

(* An attempt to put a packet of f pieces into the ring succeeds. *)
Joins(k, c, pkt, f, used, q1, q2) ==
  /\ k \in 0 .. Len(ring) /\ c \in Contexts /\ pkt \in Packet \cup {PollBuf}
  /\ f \in 1 .. MaxFrags /\ used \in Nat
  /\ q1 = WithContext(Cleaned(k), c) /\ Fits(q1, f)
  /\ q2 = WithData(q1, pkt, c, f, used)

(* It goes to the end of the ring, ... *)
LEMMA PacketIs ==
  ASSUME TxTypeOK, txFree # 0, NEW k, NEW c, NEW pkt, NEW f, NEW used, NEW q1, NEW q2,
         Joins(k, c, pkt, f, used, q1, q2)
  PROVE  /\ q1 \in Queue /\ q2 \in Queue /\ q2.ctx = q1.ctx /\ f \in Nat \ {0}
         /\ c \in {NoContext, q1.ctx}
         /\ Extends(q1.ring, Cleaned(k).ring)
         /\ Extends(q2.ring, Cleaned(k).ring)
         /\ Gains(q2.ring, q1.ring, f, pkt, c)
         /\ \A i \in Len(Cleaned(k).ring) + 1 .. Len(q2.ring) : q2.ring[i].st = "new"
<1> DEFINE r == Cleaned(k).ring
           n1 == Len(q1.ring)
           n2 == Len(q2.ring)
<1>1. /\ q1 \in Queue
      /\ Extends(q1.ring, r)
      /\ c \in {NoContext, q1.ctx}
      /\ \/ q1.ring = r
         \/ /\ Len(q1.ring) = Len(r) + 1
            /\ q1.ring[Len(q1.ring)].st = "new"
  BY AttemptIs DEF Joins
<1>2. /\ q2 \in Queue /\ n1 \in Nat /\ n2 = n1 + f
      /\ \A i \in 1 .. n1 : q2.ring[i] = q1.ring[i]
      /\ IsPacketAt(q2.ring, n1, f, pkt, c)
      /\ q2.ctx = q1.ctx
  <2>1. /\ f \in Nat \ {0} /\ f <= q1.free /\ used \in Nat /\ c \in Contexts
        /\ pkt \in Packet \cup {PollBuf} /\ q2 = WithData(q1, pkt, c, f, used)
    BY TxConstants DEF Fits, Joins
  <2> QED
    BY <1>1, <2>1, WithDataIs, SMTT(30)
<1>3. /\ r \in Seq(Descriptor) /\ Len(r) \in Nat /\ Len(r) <= n1 /\ f \in Nat \ {0}
  BY <1>1, LenProperties, TxConstants DEF Extends, Joins
<1> HIDE DEF r
<1>4. Extends(q2.ring, q1.ring) /\ Extends(q2.ring, r)
  <2>1. q1.ring \in Seq(Descriptor) /\ q2.ring \in Seq(Descriptor) /\ n1 <= n2
    BY <1>1, <1>2, <1>3 DEF Queue
  <2>2. Extends(q2.ring, q1.ring)
    BY <1>2, <2>1 DEF Extends
  <2>3. Len(r) <= n2 /\ \A i \in 1 .. Len(r) : i \in 1 .. n1
    BY <1>2, <1>3
  <2>4. \A i \in 1 .. Len(r) : q2.ring[i] = r[i]
    BY <1>1, <1>2, <2>3 DEF Extends
  <2> QED
    BY <1>3, <2>1, <2>2, <2>3, <2>4 DEF Extends
<1>5. ASSUME NEW i \in Len(r) + 1 .. n2
      PROVE  q2.ring[i].st = "new"
  <2>1. CASE i <= n1
    <3>1. i \in 1 .. n1 /\ q1.ring # r
      BY <1>3, <2>1
    <3>2. i = n1
      BY <1>1, <1>3, <2>1, <3>1
    <3> QED
      BY <1>1, <1>2, <3>1, <3>2
  <2>2. CASE ~(i <= n1)
    <3>1. i \in n1 + 1 .. n1 + f
      BY <1>2, <1>3, <2>2
    <3> QED
      BY <1>2, <3>1 DEF IsPacketAt
  <2> QED
    BY <2>1, <2>2
<1> QED
  BY <1>1, <1>2, <1>3, <1>4, <1>5 DEF r, Gains

(* ... where its own request is in force. *)
LEMMA PacketOwns ==
  ASSUME TxTypeOK, txFree # 0, NEW k, NEW c, NEW pkt, NEW f, NEW used, NEW q1, NEW q2,
         Joins(k, c, pkt, f, used, q1, q2),
         NEW g, NEW h, Behind(g, h, Cleaned(k).ring),
         NEW chip, Owns(Line(q1.ring, g, h), chip, q1.ctx)
  PROVE  /\ Gains(Line(q2.ring, g, h), Line(q1.ring, g, h), f, pkt, c)
         /\ Owns(Line(q2.ring, g, h), chip, q2.ctx)
<1> DEFINE r1 == q1.ring
           r2 == q2.ring
           n1 == Len(r1)
           n2 == Len(r2)
           p1 == Line(r1, g, h)
           p2 == Line(r2, g, h)
<1>1. /\ q1 \in Queue /\ q2.ctx = q1.ctx /\ f \in Nat \ {0} /\ c \in {NoContext, q1.ctx}
      /\ Extends(r1, Cleaned(k).ring) /\ Extends(r2, r1) /\ n2 = n1 + f
      /\ IsPacketAt(r2, n1, f, pkt, c)
  BY PacketIs DEF Gains
<1>2. r1 \in Seq(Descriptor) /\ n1 \in Nat /\ Behind(g, h, r1) /\ h \in Int
  <2>1. r1 \in Seq(Descriptor) /\ Len(Cleaned(k).ring) <= n1
        /\ Cleaned(k).ring \in Seq(Descriptor)
    BY <1>1 DEF Extends
  <2>2. n1 \in Nat /\ Len(Cleaned(k).ring) \in Nat
    BY <2>1, LenProperties
  <2>3. h \in Int /\ h <= Len(Cleaned(k).ring)
    BY DEF Behind
  <2>4. h <= n1
    BY <2>1, <2>2, <2>3
  <2> QED
    BY <2>1, <2>2, <2>4 DEF Behind
<1>3. Owns(p1, chip, q1.ctx)
  OBVIOUS
<1> HIDE DEF r1, r2
<1>4. /\ Extends(p2, p1) /\ Len(p1) = n1 - h /\ Len(p2) = n2 - h
      /\ \A i \in n1 + 1 .. n2 : p2[i - h] = r2[i]
  <2>1. Behind(g, h, r1) /\ Extends(r2, r1)
    BY <1>1, <1>2
  <2>2. Extends(p2, p1) /\ n1 \in Nat /\ n2 \in Nat
    BY <2>1, LineGrows
  <2>3. Len(p1) = n1 - h /\ Len(p2) = n2 - h
    BY <2>1, LineGrows
  <2>4. \A i \in n1 + 1 .. n2 : p2[i - h] = r2[i]
    BY <2>1, LineGrows
  <2> QED
    BY <2>2, <2>3, <2>4
<1> HIDE DEF p1, p2, n1, n2
<1>5. Len(p2) = Len(p1) + f /\ Len(p1) \in Nat
  BY <1>1, <1>2, <1>4
<1>6. IsPacketAt(p2, Len(p1), f, pkt, c)
  <2>1. ASSUME NEW i \in Len(p1) + 1 .. Len(p1) + f
        PROVE  i + h \in n1 + 1 .. n1 + f /\ p2[i] = r2[i + h] /\ i \in Int
    <3>1. i + h \in n1 + 1 .. n2 /\ (i + h) - h = i
      BY <1>1, <1>2, <1>4
    <3>2. p2[(i + h) - h] = r2[i + h]
      BY <1>4, <3>1
    <3> QED
      BY <1>1, <1>5, <3>1, <3>2
  <2>2. ASSUME NEW i \in Len(p1) + 1 .. Len(p1) + f
        PROVE  p2[i].st = "new" /\ (i < Len(p1) + f => p2[i].kind = "data")
    <3>1. i < Len(p1) + f => i + h < n1 + f
      BY <1>1, <1>2, <1>4, <2>1
    <3>2. \A j \in n1 + 1 .. n1 + f :
            r2[j].st = "new" /\ (j < n1 + f => r2[j].kind = "data")
      BY <1>1 DEF IsPacketAt, n1
    <3> QED
      BY <2>1, <3>1, <3>2
  <2>3. Len(p1) + f \in Len(p1) + 1 .. Len(p1) + f /\ (Len(p1) + f) + h = n1 + f
    <3> DEFINE a == Len(p1)
    <3>1. a = n1 - h /\ n1 \in Nat /\ f \in Nat \ {0} /\ h \in Int
      BY <1>1, <1>2, <1>4
    <3> HIDE DEF a
    <3>2. a + f \in a + 1 .. a + f /\ (a + f) + h = n1 + f
      BY <3>1
    <3> QED
      BY <3>2 DEF a
  <2>4. p2[Len(p1) + f] = r2[n1 + f]
    BY <2>1, <2>3
  <2> QED
    BY <1>1, <2>2, <2>4 DEF IsPacketAt
<1>7. Gains(p2, p1, f, pkt, c)
  BY <1>1, <1>4, <1>5, <1>6 DEF Gains
<1>8. Owns(p2, chip, q2.ctx)
  BY <1>1, <1>3, <1>7, OwnsPacket
<1> QED
  BY <1>7, <1>8 DEF p1, p2, r1, r2

(* So a packet that is accepted keeps the line sound. *)
LEMMA PacketSound ==
  ASSUME TxTypeOK, QueueTypes', ChipPlace, ChipPlace', Sound,
         txFree # 0, NEW s \in Senders, NEW k, NEW c, NEW f, NEW used, NEW q1, NEW q2,
         Joins(k, c, NextPacket(s), f, used, q1, q2),
         Publish(k, q2, Len(q2.ring)), ~wrapped', sent' = sent,
         given' = [given EXCEPT ![s] = @ + 1],
         FreedBy(k) \subseteq SentPackets
  PROVE  Sound'
<1>1. /\ Joins(k, c, NextPacket(s), f, used, q1, q2)
      /\ k \in 0 .. Len(ring) /\ c \in Contexts
  BY DEF Joins
<1>2. /\ q2 \in Queue /\ Extends(q2.ring, Cleaned(k).ring)
      /\ \A i \in Len(Cleaned(k).ring) + 1 .. Len(q2.ring) : q2.ring[i].st = "new"
  BY <1>1, PacketIs
<1>3. /\ Len(Cleaned(k).ring) \in Nat /\ Len(q2.ring) \in Nat
      /\ Len(Cleaned(k).ring) <= Len(q2.ring) /\ Len(Cleaned(k).ring) = Len(ring) - k
      /\ Len(ring) \in Nat /\ tdt \in Int /\ tdt <= Len(ring)
  <2>1. ring \in Seq(Descriptor) /\ tdt \in Int /\ tdt <= Len(ring)
    BY DEF TxTypeOK, ChipPlace
  <2>2. Len(Cleaned(k).ring) = Len(ring) - k
    BY <1>1, CleanedIs
  <2> QED
    BY <1>2, <2>1, <2>2, LenProperties DEF Extends
<1>4. Len(q2.ring) \in Int /\ tdt - k <= Len(q2.ring)
      /\ \A i \in Len(Cleaned(k).ring) + 1 .. Len(q2.ring) : ~(i > Len(q2.ring))
  BY <1>1, <1>3
<1>5. /\ Taken' /\ freed' \subseteq SentPackets'
      /\ Line(Cleaned(k).ring, ghost', tdh') = Pending
      /\ Pending' = Line(q2.ring, ghost', tdh')
      /\ lastCtx' = q2.ctx /\ chipCtx' = chipCtx /\ misread' = misread
      /\ Behind(ghost', tdh', Cleaned(k).ring)
  BY <1>1, <1>2, <1>4, PublishSound DEF Sound
<1> DEFINE g == ghost'
           h == tdh'
           p1 == Line(q1.ring, g, h)
           p2 == Line(q2.ring, g, h)
<1>6. sent \in Seq(Packet) /\ given \in [Senders -> Nat]
  BY DEF TxTypeOK
<1>7. Owns(p1, chipCtx, q1.ctx) /\ Ordered(p1, sent, given)
  <2>1. q1 = WithContext(Cleaned(k), c)
    BY DEF Joins
  <2> QED
    BY <1>1, <1>5, <1>6, <2>1, AttemptOwns DEF Sound
<1>8. Behind(g, h, Cleaned(k).ring) /\ Pending' = p2
  BY <1>5
<1> HIDE DEF g, h
<1>9. Gains(p2, p1, f, NextPacket(s), c)
  BY <1>1, <1>7, <1>8, PacketOwns
<1>10. Owns(p2, chipCtx, q2.ctx)
  BY <1>1, <1>7, <1>8, PacketOwns
<1> HIDE DEF p1, p2
<1>11. Ordered(p2, sent, given')
  <2>1. Gains(p2, p1, f, [s |-> s, n |-> given[s] + 1], c)
    BY <1>9 DEF NextPacket
  <2> QED
    BY <1>6, <1>7, <2>1, OrderedPacket
<1> QED
  BY <1>5, <1>8, <1>10, <1>11 DEF Sound

(* The clean-up before a packet. *)
LEMMA EarlyCleanWhatLeft ==
  ASSUME QueueTypes, Taken, NEW k \in 0 .. Len(ring), EarlyClean(k)
  PROVE  FreedBy(k) \subseteq SentPackets
<1>1. CASE CleansTo(k)
  BY <1>1, CleansWhatLeft
<1>2. CASE k = 0
  BY <1>2, FreedAreSent
<1> QED
  BY <1>1, <1>2 DEF EarlyClean

(* A packet as it is, ... *)
LEMMA DirectSound ==
  ASSUME RingInv, RingInv', ~wrapped', Sound, NEW s \in Senders, SendDirect(s)
  PROVE  Sound'
<1>1. TxTypeOK /\ QueueTypes /\ ChipPlace /\ QueueTypes' /\ ChipPlace'
  BY TypesSplit DEF RingInv, TxTypeOK, QueueTypes
<1>2. PICK k \in 0 .. Len(ring), c \in Contexts, f \in 1 .. MaxFrags :
        LET q1 == WithContext(Cleaned(k), c)
            q2 == WithData(q1, NextPacket(s), c, f, Used(Cleaned(k), q1) + f)
        IN EarlyClean(k) /\ Fits(q1, f) /\ Publish(k, q2, Len(q2.ring))
  BY DEF SendDirect
<1> DEFINE q1 == WithContext(Cleaned(k), c)
           used == Used(Cleaned(k), q1) + f
           q2 == WithData(q1, NextPacket(s), c, f, used)
<1>3. txFree # 0 /\ sent' = sent /\ given' = [given EXCEPT ![s] = @ + 1]
  BY DEF SendDirect
<1>4. used \in Nat
  <2>1. Used(Cleaned(k), q1) \in {0, 1}
    BY <1>1, <1>3, FirstAttempt
  <2> QED
    BY <2>1, TxConstants
<1>5. EarlyClean(k) /\ Fits(q1, f) /\ Publish(k, q2, Len(q2.ring))
  BY <1>2
<1>6. FreedBy(k) \subseteq SentPackets
  BY <1>1, <1>5, EarlyCleanWhatLeft DEF Sound
<1>7. Joins(k, c, NextPacket(s), f, used, q1, q2)
  BY <1>1, <1>4, <1>5, NextPacketIs DEF Joins
<1> HIDE DEF q1, q2, used
<1> QED
  BY <1>1, <1>3, <1>5, <1>6, <1>7, PacketSound

(* ... a packet in one buffer, or a context alone, ... *)
LEMMA CoalescedSound ==
  ASSUME RingInv, RingInv', ~wrapped', Sound, NEW s \in Senders, SendCoalesced(s)
  PROVE  Sound'
<1>1. TxTypeOK /\ QueueTypes /\ ChipPlace /\ QueueTypes' /\ ChipPlace'
  BY TypesSplit DEF RingInv, TxTypeOK, QueueTypes
<1>2. PICK k \in 0 .. Len(ring), c \in Contexts :
        LET q1 == WithContext(Cleaned(k), c)
            q2 == WithData(q1, NextPacket(s), c, 1, 1)
        IN /\ EarlyClean(k)
           /\ \/ /\ Fits(q1, 1) /\ Publish(k, q2, Len(q2.ring))
                 /\ given' = [given EXCEPT ![s] = @ + 1]
              \/ ~Fits(q1, 1) /\ Publish(k, q1, Len(q1.ring)) /\ Refuse(s)
  BY DEF SendCoalesced
<1> DEFINE q1 == WithContext(Cleaned(k), c)
           q2 == WithData(q1, NextPacket(s), c, 1, 1)
<1>3. txFree # 0 /\ sent' = sent /\ 1 \in 1 .. MaxFrags /\ 1 \in Nat
  BY TxConstants DEF SendCoalesced
<1>4. /\ EarlyClean(k)
      /\ \/ /\ Fits(q1, 1) /\ Publish(k, q2, Len(q2.ring))
            /\ given' = [given EXCEPT ![s] = @ + 1]
         \/ Publish(k, q1, Len(q1.ring)) /\ given' = given
  BY <1>2 DEF Refuse
<1>5. FreedBy(k) \subseteq SentPackets
  BY <1>1, <1>4, EarlyCleanWhatLeft DEF Sound
<1>6. q1 = WithContext(Cleaned(k), c) /\ q2 = WithData(q1, NextPacket(s), c, 1, 1)
  OBVIOUS
<1> HIDE DEF q1, q2
<1>7. CASE /\ Fits(q1, 1) /\ Publish(k, q2, Len(q2.ring))
           /\ given' = [given EXCEPT ![s] = @ + 1]
  <2>1. Joins(k, c, NextPacket(s), 1, 1, q1, q2)
    BY <1>1, <1>3, <1>6, <1>7, NextPacketIs DEF Joins
  <2> QED
    BY <1>1, <1>3, <1>5, <1>7, <2>1, PacketSound
<1>8. CASE Publish(k, q1, Len(q1.ring)) /\ given' = given
  BY <1>1, <1>3, <1>5, <1>6, <1>8, AttemptSound
<1> QED
  BY <1>4, <1>7, <1>8

(* ... or a context the chip is not told of. *)
LEMMA NoBufSound ==
  ASSUME RingInv, RingInv', ~wrapped', Sound, NEW s \in Senders, SendNoBuf(s)
  PROVE  Sound'
<1>1. TxTypeOK /\ QueueTypes /\ ChipPlace /\ QueueTypes' /\ ChipPlace'
  BY TypesSplit DEF RingInv, TxTypeOK, QueueTypes
<1>2. PICK k \in 0 .. Len(ring), c \in Contexts :
        EarlyClean(k) /\ Publish(k, WithContext(Cleaned(k), c), tdt - k)
  BY DEF SendNoBuf
<1>3. txFree # 0 /\ sent' = sent /\ given' = given
  BY DEF SendNoBuf, Refuse
<1>4. FreedBy(k) \subseteq SentPackets
  BY <1>1, <1>2, EarlyCleanWhatLeft DEF Sound
<1> QED
  BY <1>1, <1>2, <1>3, <1>4, AttemptSound

(* A step of the chip and the tasks that leaves the ring alone. *)
LEMMA RestSound ==
  ASSUME RingInv, Sound, UNCHANGED << ringVars, chipCtx, given, sent, freed, misread >>
  PROVE  Sound'
<1>1. SentPackets' = SentPackets /\ Pending' = Pending
  BY DEF SentPackets, Pending, ringVars
<1>2. Taken'
  BY <1>1 DEF Sound, Taken, ringVars
<1> QED
  BY <1>1, <1>2 DEF Sound, ringVars

(* The job and polled mode. *)
LEMMA TxHandleSound ==
  ASSUME RingInv, RingInv', ~wrapped', Sound, TxHandle
  PROVE  Sound'
<1>1. TxTypeOK /\ QueueTypes /\ ChipPlace /\ QueueTypes' /\ ChipPlace'
  BY TypesSplit DEF RingInv, TxTypeOK, QueueTypes
<1>2. PICK k \in 0 .. Len(ring) : CleansTo(k) /\ Publish(k, Cleaned(k), tdt - k)
  BY DEF TxHandle
<1>3. UNCHANGED << sent, given >>
  BY DEF TxHandle
<1>4. FreedBy(k) \subseteq SentPackets
  BY <1>1, <1>2, CleansWhatLeft DEF Sound
<1>5. Cleaned(k) \in Queue /\ Cleaned(k).ctx = lastCtx
  BY <1>1, CleanedIs
<1> QED
  BY <1>1, <1>2, <1>3, <1>4, <1>5, CleanSound

(* Polled mode empties the ring once the chip has taken it. *)
LEMMA PollDrainSound ==
  ASSUME RingInv, RingInv', ~wrapped', Sound, PollDrain
  PROVE  Sound'
<1> DEFINE k == Len(ring)
           q == [Cleaned(k) EXCEPT !.mark = 0]
<1>1. TxTypeOK /\ QueueTypes /\ ChipPlace /\ QueueTypes' /\ ChipPlace'
  BY TypesSplit DEF RingInv, TxTypeOK, QueueTypes
<1>2. k \in Nat /\ k \in 0 .. Len(ring) /\ tdh \in Int /\ tdt \in Int
  BY <1>1, LenProperties DEF QueueTypes
<1>3. Cleaned(k) \in Queue /\ Cleaned(k).ctx = lastCtx
  BY <1>1, <1>2, CleanedIs
<1>4. q \in Queue /\ q.ring = Cleaned(k).ring /\ q.ctx = lastCtx
  <2> DEFINE d == Cleaned(k)
  <2>1. d \in Queue /\ d.ctx = lastCtx
    BY <1>3
  <2> HIDE DEF d
  <2>2. LET e == [d EXCEPT !.mark = 0] IN
          e \in Queue /\ e.ring = d.ring /\ e.ctx = d.ctx
    BY <2>1 DEF Queue
  <2> QED
    BY <2>1, <2>2 DEF d
<1>5. Publish(k, q, tdt - k) /\ ToDo = 0 /\ UNCHANGED << sent, given >>
  BY DEF PollDrain
<1> HIDE DEF q
<1>6. tdt = tdh
  <2>1. tdt - tdh \in Nat /\ tdt - tdh < DescCnt /\ (tdt - tdh) % DescCnt = 0
    BY <1>1, <1>2, <1>5, TxConstants DEF Sound, Taken, ChipPlace, ToDo
  <2>2. \A n \in Nat : n < DescCnt => n % DescCnt = n
    BY TxConstants
  <2> QED
    BY <1>2, <2>1, <2>2
<1>7. FreedBy(k) \subseteq SentPackets
  <2>1. \A i \in 1 .. k : ring[i].kind = "eop" => i <= tdh
    <3> TAKE i \in 1 .. k
    <3>1. i > tdt => ring[i].kind # "eop"
      BY DEF Sound, Taken
    <3> QED
      BY <1>2, <1>6, <3>1
  <2> QED
    BY <1>1, <1>2, <2>1, FreedAreSent DEF Sound
<1> HIDE DEF k
<1> QED
  BY <1>1, <1>2, <1>4, <1>5, <1>7, CleanSound

(* The chip takes the first in line. *)
LEMMA TransmitSound ==
  ASSUME RingInv, Sound, ChipTransmit
  PROVE  Sound'
<1>1. TxTypeOK /\ QueueTypes /\ ChipPlace
  BY TypesSplit DEF RingInv
<1>2. /\ ring \in Seq(Descriptor) /\ ghost \in Seq(Descriptor) /\ tdh \in Int /\ tdt \in Int
      /\ Len(ring) \in Nat /\ Len(ring) <= DescCnt /\ tdt <= Len(ring)
      /\ 0 - DescCnt <= tdh
      /\ Len(ghost) = (IF tdh < 0 THEN 0 - tdh ELSE 0)
      /\ Len(ring) - tdh < DescCnt
  <2>1. Len(ring) \in Nat /\ Len(ring) + txFree = DescCnt /\ txFree \in 0 .. DescCnt
    BY <1>1, LenProperties DEF QueueTypes
  <2> QED
    BY <1>1, <2>1, TxConstants DEF QueueTypes, ChipPlace, Sound, Taken
<1>3. /\ tdh < tdt /\ tdh' = tdh + 1 /\ AtHead \in Descriptor
      /\ SameButStatus(ring', ring)
      /\ \A i \in 1 .. Len(ring) : i # (tdh % DescCnt) + 1 => ring'[i] = ring[i]
      /\ ghost' \in Seq(Descriptor)
      /\ Len(ghost') = (IF tdh' < 0 THEN 0 - tdh' ELSE 0)
      /\ \A i \in 1 .. Len(ghost') : ghost'[i] = ghost[i + 1]
  BY <1>1, ChipTakes
<1>4. /\ ring' \in Seq(Descriptor) /\ Len(ring') = Len(ring)
      /\ \A i \in 1 .. Len(ring) : ring'[i].kind = ring[i].kind /\ ring'[i].pkt = ring[i].pkt
  BY <1>3 DEF SameButStatus
<1>5. \A i \in 1 .. Len(ring) : i # tdh + 1 => ring'[i] = ring[i]
  <2> SUFFICES ASSUME NEW i \in 1 .. Len(ring), i # tdh + 1
               PROVE  i # (tdh % DescCnt) + 1
    BY <1>3
  <2>1. \A n \in Nat : n < DescCnt => n % DescCnt = n
    BY TxConstants
  <2>2. CASE tdh >= 0
    <3>1. tdh \in Nat /\ tdh < DescCnt
      BY <1>2, <1>3, <2>2, TxConstants
    <3> QED
      BY <2>1, <3>1
  <2>3. CASE ~(tdh >= 0)
    <3>1. tdh + DescCnt \in Nat /\ tdh + DescCnt < DescCnt /\ Len(ring) < tdh + DescCnt
      BY <1>2, <2>3, TxConstants
    <3>2. tdh % DescCnt = (tdh + DescCnt) % DescCnt
      BY <1>2, <2>3, TxConstants, SMTT(30)
    <3>3. tdh % DescCnt = tdh + DescCnt
      BY <2>1, <3>1, <3>2
    <3> QED
      BY <1>2, <3>1, <3>3, TxConstants
  <2> QED
    BY <2>2, <2>3
<1>6. /\ Pending \in Seq(Descriptor) /\ Len(Pending) = Len(ring) - tdh
      /\ \A i \in 1 .. Len(ring) - tdh :
           /\ Pending[i] = IF i <= Len(ghost) THEN ghost[i] ELSE ring[i + tdh]
           /\ ~(i <= Len(ghost)) => i + tdh \in 1 .. Len(ring)
  <2>1. tdh <= Len(ring)
    BY <1>2, <1>3
  <2> QED
    BY <1>2, <2>1, LineIs DEF Pending
<1>7. /\ Pending' \in Seq(Descriptor) /\ Len(Pending') = Len(ring) - tdh'
      /\ \A i \in 1 .. Len(ring) - tdh' :
           /\ Pending'[i] = IF i <= Len(ghost') THEN ghost'[i] ELSE ring'[i + tdh']
           /\ ~(i <= Len(ghost')) => i + tdh' \in 1 .. Len(ring)
  <2> DEFINE r == ring'
             g == ghost'
             h == tdh'
  <2>1. h \in Int /\ h <= Len(r) /\ r \in Seq(Descriptor) /\ g \in Seq(Descriptor)
    BY <1>2, <1>3, <1>4
  <2>2. Len(g) = (IF h < 0 THEN 0 - h ELSE 0) /\ Len(r) = Len(ring)
    BY <1>3, <1>4
  <2>3. Pending' = Line(r, g, h)
    BY DEF Pending
  <2> HIDE DEF r, g, h
  <2>4. /\ Line(r, g, h) \in Seq(Descriptor) /\ Len(Line(r, g, h)) = Len(r) - h
        /\ \A i \in 1 .. Len(r) - h :
             /\ Line(r, g, h)[i] = IF i <= Len(g) THEN g[i] ELSE r[i + h]
             /\ ~(i <= Len(g)) => i + h \in 1 .. Len(r)
    BY <2>1, <2>2, LineIs
  <2> QED
    BY <2>2, <2>3, <2>4 DEF r, g, h
<1>8. Pending[1] = AtHead
  <2>1. 1 \in 1 .. Len(ring) - tdh
    BY <1>2, <1>3
  <2>2. CASE tdh >= 0
    <3>1. ~(1 <= Len(ghost)) /\ 1 + tdh = tdh + 1
      BY <1>2, <2>2
    <3> QED
      BY <1>6, <2>1, <2>2, <3>1 DEF AtHead
  <2>3. CASE ~(tdh >= 0)
    <3>1. 1 <= Len(ghost) /\ ~(tdh + DescCnt < Len(ring))
      BY <1>2, <2>3, TxConstants
    <3>2. Head(ghost) = ghost[1]
      OBVIOUS
    <3> QED
      BY <1>6, <2>1, <2>3, <3>1, <3>2 DEF AtHead
  <2> QED
    BY <2>2, <2>3
<1>9. Follows(Pending', Pending)
  <2>1. Len(Pending') \in Nat /\ Len(Pending) = Len(Pending') + 1
    BY <1>2, <1>3, <1>6, <1>7
  <2>2. ASSUME NEW i \in 1 .. Len(Pending')
        PROVE  Pending'[i] = Pending[i + 1]
    <3>1. i \in 1 .. Len(ring) - tdh' /\ i + 1 \in 1 .. Len(ring) - tdh
      BY <1>2, <1>3, <1>6, <1>7
    <3>2. CASE i <= Len(ghost')
      <4>1. i \in 1 .. Len(ghost') /\ i + 1 <= Len(ghost)
        BY <1>2, <1>3, <3>1, <3>2
      <4> QED
        BY <1>3, <1>6, <1>7, <3>1, <3>2, <4>1
    <3>3. CASE ~(i <= Len(ghost'))
      <4>1. ~(i + 1 <= Len(ghost)) /\ i + tdh' = (i + 1) + tdh /\ (i + 1) + tdh # tdh + 1
        BY <1>2, <1>3, <3>1, <3>3
      <4>2. (i + 1) + tdh \in 1 .. Len(ring)
        BY <1>6, <3>1, <4>1
      <4>3. ring'[(i + 1) + tdh] = ring[(i + 1) + tdh]
        BY <1>5, <4>1, <4>2
      <4> QED
        BY <1>6, <1>7, <3>1, <3>3, <4>1, <4>3
    <3> QED
      BY <3>2, <3>3
  <2> QED
    BY <1>6, <1>7, <2>1, <2>2 DEF Follows
<1>10. /\ chipCtx' = IF IsContext(Pending[1]) THEN Pending[1].ctx ELSE chipCtx
       /\ sent' = IF IsPacket(Pending[1]) THEN Append(sent, Pending[1].pkt) ELSE sent
       /\ misread' <=> (misread \/ (/\ Pending[1].kind = "eop"
                                    /\ Pending[1].ctx \notin {NoContext, chipCtx}))
       /\ UNCHANGED << lastCtx, given, freed, tdt >>
  BY <1>8 DEF ChipTransmit, IsContext, IsPacket
<1>11. /\ Owns(Pending', chipCtx', lastCtx')
       /\ Pending[1].kind = "eop" => Pending[1].ctx \in {NoContext, chipCtx}
  BY <1>9, <1>10, OwnsFollows DEF Sound
<1>12. ~misread'
  BY <1>10, <1>11 DEF Sound
<1>13. sent \in Seq(Packet)
  BY <1>1 DEF TxTypeOK
<1>14. Ordered(Pending', sent', given')
  <2>1. Ordered(Pending, sent, given) /\ given' = given
    BY <1>10 DEF Sound
  <2>2. sent' = IF IsPacket(Pending[1]) THEN Append(sent, Pending[1].pkt) ELSE sent
    BY <1>10
  <2>3. Ordered(Pending', sent', given)
    BY <1>9, <1>13, <2>1, <2>2, OrderedFollows
  <2> QED
    BY <2>1, <2>3
<1>15. /\ SentPackets \subseteq SentPackets'
       /\ IsPacket(Pending[1]) => Pending[1].pkt \in SentPackets'
  <2>1. CASE IsPacket(Pending[1])
    <3>1. Pending[1].pkt \in Packet
      BY <1>3, <1>8, <2>1 DEF IsPacket, Descriptor
    <3>2. /\ Len(sent) \in Nat /\ Len(sent') = Len(sent) + 1
          /\ sent'[Len(sent) + 1] = Pending[1].pkt
          /\ \A i \in 1 .. Len(sent) : sent'[i] = sent[i]
      BY <1>10, <1>13, <2>1, <3>1, AppendProperties, LenProperties
    <3>3. Len(sent) + 1 \in 1 .. Len(sent') /\ \A i \in 1 .. Len(sent) : i \in 1 .. Len(sent')
      BY <3>2
    <3> QED
      BY <3>2, <3>3 DEF SentPackets
  <2>2. CASE ~IsPacket(Pending[1])
    BY <1>10, <2>2 DEF SentPackets
  <2> QED
    BY <2>1, <2>2
<1>16. freed' \subseteq SentPackets'
  BY <1>10, <1>15 DEF Sound
<1>17. Taken'
  <2>1. Len(ring') - tdh' < DescCnt
    BY <1>2, <1>3, <1>4, TxConstants
  <2>2. ASSUME NEW i \in 1 .. Len(ring')
        PROVE  /\ i > tdh' => ring'[i].st = "new"
               /\ i <= tdh' /\ ring'[i].kind = "eop" =>
                    ring'[i].pkt \in SentPackets' \cup {PollBuf}
               /\ i > tdt' => ring'[i].kind # "eop"
    <3>1. i \in 1 .. Len(ring) /\ i \in Nat
      BY <1>4
    <3>2. i > tdh' => ring'[i].st = "new"
      <4>1. i > tdh' => i # tdh + 1 /\ i > tdh
        BY <1>2, <1>3, <3>1
      <4> QED
        BY <1>5, <3>1, <4>1 DEF Sound, Taken
    <3>3. ASSUME i <= tdh', ring'[i].kind = "eop"
          PROVE  ring'[i].pkt \in SentPackets' \cup {PollBuf}
      <4>1. ring[i].kind = "eop" /\ ring'[i].pkt = ring[i].pkt
        BY <1>4, <3>1, <3>3
      <4>2. CASE i <= tdh
        <5>1. ring[i].pkt \in SentPackets \cup {PollBuf}
          BY <3>1, <4>1, <4>2 DEF Sound, Taken
        <5> QED
          BY <1>15, <4>1, <5>1
      <4>3. CASE ~(i <= tdh)
        <5>1. i = tdh + 1 /\ tdh >= 0
          BY <1>2, <1>3, <3>1, <3>3, <4>3
        <5>2. ring[i] = Pending[1]
          BY <1>8, <5>1 DEF AtHead
        <5>3. ring[i].pkt = PollBuf \/ IsPacket(Pending[1])
          BY <4>1, <5>2 DEF IsPacket
        <5> QED
          BY <1>15, <4>1, <5>2, <5>3
      <4> QED
        BY <4>2, <4>3
    <3>4. i > tdt' => ring'[i].kind # "eop"
      BY <1>4, <1>10, <3>1 DEF Sound, Taken
    <3> QED
      BY <3>2, <3>3, <3>4
  <2> QED
    BY <2>1, <2>2 DEF Taken
<1> QED
  BY <1>11, <1>12, <1>14, <1>16, <1>17 DEF Sound

(* A write-back to memory changes nothing the chip has yet to take. *)
LEMMA WriteBackSound ==
  ASSUME RingInv, Sound, ChipWriteBack
  PROVE  Sound'
<1>1. TxTypeOK /\ QueueTypes /\ ChipPlace
  BY TypesSplit DEF RingInv
<1>2. /\ ring \in Seq(Descriptor) /\ ghost \in Seq(Descriptor) /\ tdh \in Int /\ tdt \in Int
      /\ Len(ring) \in Nat /\ tdh <= Len(ring)
      /\ Len(ghost) = (IF tdh < 0 THEN 0 - tdh ELSE 0) /\ Len(ghost) \in Nat
  <2>1. tdh <= tdt /\ tdt <= Len(ring)
    BY <1>1 DEF ChipPlace
  <2> QED
    BY <1>1, <2>1, LenProperties DEF QueueTypes, ChipPlace
<1>3. PICK i \in 1 .. Len(ring) :
        /\ ring[i].st = "sent" /\ ring'[i].st = "done"
        /\ \A j \in 1 .. Len(ring) : j # i => ring'[j] = ring[j]
        /\ SameButStatus(ring', ring)
  BY <1>1, WriteBackIs
<1>4. i <= tdh
  BY <1>2, <1>3 DEF Sound, Taken
<1>5. UNCHANGED << ghost, tdh, tdt, lastCtx, chipCtx, given, sent, freed, misread >>
  BY DEF ChipWriteBack, history
<1>6. /\ ring' \in Seq(Descriptor) /\ Len(ring') = Len(ring)
      /\ \A j \in 1 .. Len(ring) : ring'[j].kind = ring[j].kind /\ ring'[j].pkt = ring[j].pkt
  BY <1>3 DEF SameButStatus
<1>7. Pending' = Pending
  <2>1. Pending = [j \in 1 .. Len(ring) - tdh |->
                     IF j <= Len(ghost) THEN ghost[j] ELSE ring[j + tdh]]
    BY DEF Pending, Line
  <2>2. Pending' = [j \in 1 .. Len(ring) - tdh |->
                      IF j <= Len(ghost) THEN ghost[j] ELSE ring'[j + tdh]]
    BY <1>5, <1>6 DEF Pending, Line
  <2>3. ASSUME NEW j \in 1 .. Len(ring) - tdh, ~(j <= Len(ghost))
        PROVE  ring'[j + tdh] = ring[j + tdh]
    <3>1. j + tdh \in 1 .. Len(ring) /\ j + tdh # i
      BY <1>2, <1>4, <2>3
    <3> QED
      BY <1>3, <3>1
  <2> QED
    BY <2>1, <2>2, <2>3
<1>8. SentPackets' = SentPackets
  BY <1>5 DEF SentPackets
<1>9. Taken'
  <2>1. ASSUME NEW j \in 1 .. Len(ring')
        PROVE  /\ j > tdh' => ring'[j].st = "new"
               /\ j <= tdh' /\ ring'[j].kind = "eop" => ring'[j].pkt \in SentPackets \cup {PollBuf}
               /\ j > tdt' => ring'[j].kind # "eop"
    <3>1. j \in 1 .. Len(ring) /\ (j > tdh => j # i)
      BY <1>2, <1>4, <1>6
    <3> QED
      BY <1>3, <1>5, <1>6, <3>1 DEF Sound, Taken
  <2> QED
    BY <1>5, <1>6, <1>8, <2>1 DEF Sound, Taken
<1> QED
  BY <1>5, <1>7, <1>8, <1>9 DEF Sound

(* A polled packet passes the chip at once, or waits behind geiTxCons. *)
LEMMA PollSendSound ==
  ASSUME RingInv, Sound, PollSend
  PROVE  Sound'
<1>1. TxTypeOK /\ QueueTypes /\ ChipPlace /\ sent \in Seq(Packet)
  BY TypesSplit DEF RingInv, TxTypeOK
<1>2. PICK c \in Contexts, q1 \in Queue, q2 \in Queue :
        /\ q1 = WithContext(Cleaned(0), c)
        /\ q2 = WithData(q1, PollBuf, c, 1, Used(Cleaned(0), q1) + 1)
        /\ Cleaned(0) \in Queue /\ Len(Cleaned(0).ring) = 0
        /\ Fits(q1, 1)
        /\ lastCtx' = q2.ctx
        /\ \/ active /\ tdh' = 0 /\ ghost' = << >> /\ chipCtx' = q2.ctx
           \/ /\ ~active /\ Len(q2.ring) - tdh < DescCnt
              /\ tdh' = tdh - Len(q2.ring)
              /\ ghost' = ghost \o q2.ring
              /\ chipCtx' = chipCtx
  BY PollSendIs
<1>3. ring = << >> /\ ring' = ring /\ UNCHANGED history
  BY DEF PollSend, RingInv, PolledEmpty
<1>4. /\ Len(ring) = 0 /\ ring \in Seq(Descriptor)
      /\ tdh \in Int /\ tdh <= 0 /\ ghost \in Seq(Descriptor) /\ Len(ghost) = 0 - tdh
      /\ Len(ring) - tdh = 0 - tdh
  <2>1. Len(ring) = 0
    BY <1>3
  <2>2. tdh \in Int /\ tdt \in Int /\ tdh <= tdt /\ tdt <= Len(ring)
    BY <1>1 DEF QueueTypes, ChipPlace
  <2>3. tdh <= 0 /\ Len(ring) - tdh = 0 - tdh
    BY <2>1, <2>2
  <2>4. Len(ghost) = 0 - tdh
    BY <1>1, <2>2, <2>3 DEF ChipPlace
  <2> QED
    BY <1>1, <2>1, <2>2, <2>3, <2>4 DEF QueueTypes
<1>5. /\ sent' = sent /\ given' = given /\ freed' = freed /\ misread' = misread
      /\ SentPackets' = SentPackets
  BY <1>3 DEF history, SentPackets
<1>6. Ordered(<< >>, sent, given)
  <2>1. Len(<< >>) = 0 /\ 1 .. 0 = {}
    OBVIOUS
  <2> QED
    BY <2>1 DEF Sound, Ordered
<1>7. CASE active /\ tdh' = 0 /\ ghost' = << >> /\ chipCtx' = q2.ctx
  <2>1. Pending' = << >>
    <3>1. Len(ring') - tdh' = 0
      BY <1>3, <1>4, <1>7
    <3>2. Len(ring') - tdh' = 0 => Line(ring', ghost', tdh') = << >>
      BY SMT DEF Line
    <3> QED
      BY <3>1, <3>2 DEF Pending
  <2>2. Owns(<< >>, chipCtx', lastCtx')
    <3>1. InForce(<< >>, q2.ctx, 0 + 1, q2.ctx)
      BY DEF InForce
    <3> QED
      BY <1>2, <1>7, <3>1 DEF Owns
  <2>3. Taken'
    <3>1. Len(ring') = 0 /\ Len(ring') - tdh' < DescCnt
      BY <1>3, <1>4, <1>7, TxConstants
    <3> QED
      BY <3>1 DEF Taken
  <2> QED
    BY <1>5, <1>6, <2>1, <2>2, <2>3 DEF Sound
<1>8. CASE /\ ~active /\ Len(q2.ring) - tdh < DescCnt
           /\ tdh' = tdh - Len(q2.ring)
           /\ ghost' = ghost \o q2.ring
           /\ chipCtx' = chipCtx
  <2> DEFINE r == Cleaned(0).ring
             used == Used(Cleaned(0), q1) + 1
             p == Line(r, ghost, tdh)
             p1 == Line(q1.ring, ghost, tdh)
             p2 == Line(q2.ring, ghost, tdh)
  <2>1. 0 \in 0 .. Len(ring) /\ txFree # 0
    BY <1>1, <1>4, TxConstants DEF QueueTypes
  <2>2. r = << >> /\ ring = r
    BY <1>2, <1>3 DEF Queue
  <2>3. p = Pending
    BY <2>2 DEF Pending
  <2>4. Behind(ghost, tdh, r)
    <3>1. Len(ghost) = IF tdh < 0 THEN 0 - tdh ELSE 0
      BY <1>1 DEF ChipPlace
    <3> QED
      BY <1>4, <2>2, <3>1 DEF Behind
  <2>5. Joins(0, c, PollBuf, 1, used, q1, q2)
    <3>1. used \in Nat
      <4>1. /\ Used(Cleaned(0), q1) = Len(q1.ring) - Len(Cleaned(0).ring)
            /\ Len(q1.ring) - Len(Cleaned(0).ring) \in {0, 1}
        BY <1>1, <1>2, <2>1, FirstAttempt
      <4>2. Used(Cleaned(0), q1) \in {0, 1}
        BY <4>1
      <4>3. \A n \in {0, 1} : n + 1 \in Nat
        OBVIOUS
      <4> QED
        BY <4>2, <4>3
    <3>2. 1 \in 1 .. MaxFrags /\ PollBuf \in Packet \cup {PollBuf}
      BY TxConstants
    <3> QED
      BY <1>2, <2>1, <3>1, <3>2 DEF Joins
  <2> HIDE DEF used
  <2>6. Owns(p1, chipCtx, q1.ctx) /\ Ordered(p1, sent, given)
    <3>1. q1 = WithContext(Cleaned(0), c)
      BY <1>2
    <3>2. Owns(p, chipCtx, lastCtx) /\ Ordered(p, sent, given)
      BY <2>3 DEF Sound
    <3> QED
      BY <1>1, <2>1, <2>4, <3>1, <3>2, AttemptOwns
  <2>7. Gains(p2, p1, 1, PollBuf, c) /\ Owns(p2, chipCtx, q2.ctx)
    BY <1>1, <2>1, <2>4, <2>5, <2>6, PacketOwns
  <2>8. Extends(q2.ring, r)
    BY <1>1, <2>1, <2>5, PacketIs
  <2>9. /\ q2.ring \in Seq(Descriptor) /\ Len(q2.ring) \in Nat
    BY <1>2, LenProperties DEF Queue
  <2>10. Ordered(p2, sent, given)
    <3>1. Extends(p2, p1) /\ Len(p2) = Len(p1) + 1 /\ IsPacketAt(p2, Len(p1), 1, PollBuf, c)
          /\ Len(p1) \in Nat
      BY <2>7, LenProperties DEF Gains, Extends
    <3>2. ASSUME NEW i \in Len(p1) + 1 .. Len(p2)
          PROVE  ~IsPacket(p2[i])
      <4>1. i = Len(p1) + 1
        BY <3>1
      <4> QED
        BY <3>1, <4>1 DEF IsPacketAt, IsPacket
    <3> QED
      BY <1>1, <2>6, <3>1, <3>2, OrderedMore
  <2>11. Pending' = p2
    <3> DEFINE g2 == ghost \o q2.ring
               n == Len(q2.ring)
               h2 == tdh - n
    <3>1. g2 \in Seq(Descriptor) /\ Len(g2) = Len(ghost) + n
          /\ \A i \in 1 .. Len(ghost) + n :
               g2[i] = IF i <= Len(ghost) THEN ghost[i] ELSE q2.ring[i - Len(ghost)]
      BY <1>4, <2>9, ConcatProperties
    <3>2. n \in Nat
      BY <2>9
    <3> DEFINE m == Len(ghost)
    <3> HIDE DEF g2, n, m
    <3>3. m = 0 - tdh /\ tdh \in Int /\ tdh <= 0
      BY <1>4 DEF m
    <3>4. 0 - h2 = m + n /\ n - tdh = m + n /\ 0 - h2 <= Len(g2)
      BY <3>1, <3>2, <3>3 DEF m
    <3>5. ASSUME NEW i \in 1 .. m + n
          PROVE  (IF i <= Len(g2) THEN g2[i] ELSE << >>[i + h2])
                   = IF i <= m THEN ghost[i] ELSE q2.ring[i + tdh]
      <4>1. i <= Len(g2) /\ i - m = i + tdh
        BY <3>1, <3>2, <3>3 DEF m
      <4> QED
        BY <3>1, <4>1 DEF m
    <3>6. Line(<< >>, g2, h2) = [i \in 1 .. m + n |-> IF i <= Len(g2) THEN g2[i] ELSE << >>[i + h2]]
      BY <3>4 DEF Line
    <3>7. p2 = [i \in 1 .. m + n |-> IF i <= m THEN ghost[i] ELSE q2.ring[i + tdh]]
      BY <3>4 DEF Line, m, n
    <3>8. Line(<< >>, g2, h2) = p2
      BY <3>5, <3>6, <3>7
    <3> QED
      BY <1>3, <1>8, <3>8 DEF Pending, g2, n
  <2>12. Taken'
    <3>1. Len(ring') = 0 /\ Len(ring') - tdh' < DescCnt
      BY <1>3, <1>4, <1>8, <2>9, TxConstants
    <3> QED
      BY <3>1 DEF Taken
  <2> HIDE DEF p2
  <2> QED
    BY <1>2, <1>5, <1>8, <2>7, <2>10, <2>11, <2>12 DEF Sound
<1> QED
  BY <1>2, <1>7, <1>8

(* At the start nothing is in line and nothing has left. *)
LEMMA SentInvInit == TxInit => SentInv
<1> SUFFICES ASSUME TxInit
             PROVE  RingInv /\ Sound
  BY DEF SentInv
<1>1. RingInv
  BY RingInvInit
<1>2. /\ ring = << >> /\ ghost = << >> /\ tdh = 0 /\ sent = << >> /\ freed = {} /\ ~misread
      /\ lastCtx = NoContext /\ chipCtx = NoContext
  BY DEF TxInit
<1>3. Len(ring) = 0 /\ Len(sent) = 0 /\ Len(ring) - tdh < DescCnt /\ Len(ring) - tdh = 0
  BY <1>2, TxConstants
<1>4. Taken
  BY <1>3 DEF Taken
<1>5. Pending = << >>
  <2>1. Len(ring) - tdh = 0 => Line(ring, ghost, tdh) = << >>
    BY SMT DEF Line
  <2> QED
    BY <1>3, <2>1 DEF Pending
<1>6. Owns(<< >>, NoContext, NoContext)
  <2>1. InForce(<< >>, NoContext, 0 + 1, NoContext)
    BY DEF InForce
  <2> QED
    BY <2>1 DEF Owns
<1>7. Ordered(<< >>, sent, given)
  BY <1>3 DEF Ordered
<1> QED
  BY <1>1, <1>2, <1>4, <1>5, <1>6, <1>7 DEF Sound

(* No step takes back that the ring was filled a whole turn ahead. *)
LEMMA WrappedStays == [TxNext]_txVars /\ ~wrapped' => ~wrapped
<1> SUFFICES ASSUME [TxNext]_txVars, wrapped
             PROVE  wrapped' = TRUE \/ wrapped' = wrapped
  OBVIOUS
<1>1. ASSUME NEW k, NEW q, NEW tail, Publish(k, q, tail)
      PROVE  wrapped' = TRUE
  BY <1>1 DEF Publish
<1>2. ASSUME NEW s \in Senders, Send(s)
      PROVE  wrapped' = TRUE \/ wrapped' = wrapped
  <2>1. CASE SendRefused(s)
    BY <2>1 DEF SendRefused
  <2>2. CASE SendDirect(s)
    BY <1>1, <2>2 DEF SendDirect
  <2>3. CASE SendCoalesced(s)
    BY <1>1, <2>3 DEF SendCoalesced
  <2>4. CASE SendNoBuf(s)
    BY <1>1, <2>4 DEF SendNoBuf
  <2> QED
    BY <1>2, <2>1, <2>2, <2>3, <2>4 DEF Send
<1>3. CASE TxHandle
  BY <1>1, <1>3 DEF TxHandle
<1>4. CASE PollDrain
  BY <1>1, <1>4 DEF PollDrain
<1>5. CASE ChipTransmit
  BY <1>5 DEF ChipTransmit
<1>6. CASE ChipWriteBack
  BY <1>6 DEF ChipWriteBack, history
<1>7. CASE LinkChange \/ JobStart \/ TxRestart
  BY <1>7 DEF LinkChange, JobStart, TxRestart, history
<1>8. CASE PollStart \/ PollSend \/ PollStop
  BY <1>8 DEF PollStart, PollSend, PollStop, history
<1>9. CASE UNCHANGED txVars
  BY <1>9 DEF txVars, history
<1> QED
  BY <1>2, <1>3, <1>4, <1>5, <1>6, <1>7, <1>8, <1>9 DEF TxNext, Job, Polled

(* Every step keeps it. *)
LEMMA SentInvStep == SentInv /\ [TxNext]_txVars => SentInv'
<1> SUFFICES ASSUME SentInv, [TxNext]_txVars
             PROVE  SentInv'
  OBVIOUS
<1>1. RingInv /\ RingInv'
  BY RingInvStep DEF SentInv
<1>2. SUFFICES ASSUME ~wrapped'
               PROVE  Sound'
  BY <1>1 DEF SentInv
<1>3. Sound
  BY <1>2, WrappedStays DEF SentInv
<1>4. ASSUME NEW s \in Senders, Send(s)
      PROVE  Sound'
  <2>1. CASE SendRefused(s)
    BY <1>1, <1>3, <2>1, RestSound DEF SendRefused, Refuse
  <2>2. CASE SendDirect(s)
    BY <1>1, <1>2, <1>3, <2>2, DirectSound
  <2>3. CASE SendCoalesced(s)
    BY <1>1, <1>2, <1>3, <2>3, CoalescedSound
  <2>4. CASE SendNoBuf(s)
    BY <1>1, <1>2, <1>3, <2>4, NoBufSound
  <2> QED
    BY <1>4, <2>1, <2>2, <2>3, <2>4 DEF Send
<1>5. CASE ChipTransmit
  BY <1>1, <1>3, <1>5, TransmitSound
<1>6. CASE ChipWriteBack
  BY <1>1, <1>3, <1>6, WriteBackSound
<1>7. CASE TxHandle
  BY <1>1, <1>2, <1>3, <1>7, TxHandleSound
<1>8. CASE PollDrain
  BY <1>1, <1>2, <1>3, <1>8, PollDrainSound
<1>9. CASE PollSend
  BY <1>1, <1>3, <1>9, PollSendSound
<1>10. CASE LinkChange \/ JobStart \/ TxRestart \/ PollStart \/ PollStop
  <2>1. UNCHANGED << ringVars, chipCtx, given, sent, freed, misread >>
    BY <1>10 DEF LinkChange, JobStart, TxRestart, PollStart, PollStop, history
  <2> QED
    BY <1>1, <1>3, <2>1, RestSound
<1>11. CASE UNCHANGED txVars
  <2>1. UNCHANGED << ringVars, chipCtx, given, sent, freed, misread >>
    BY <1>11 DEF txVars, history
  <2> QED
    BY <1>1, <1>3, <2>1, RestSound
<1> QED
  BY <1>4, <1>5, <1>6, <1>7, <1>8, <1>9, <1>10, <1>11 DEF TxNext, Job, Polled

(* While the chip is never a whole ring behind, a packet's buffer
   goes back to the pool only after the chip has sent it: geiEndTbdClean frees
   only what has DD set, and what EIOCPOLLSTART frees has left. *)
THEOREM BuffersFreedAfterSent == TxSpec => []FreedAfterSent
<1>1. SentInv => FreedAfterSent
  BY DEF SentInv, Sound, FreedAfterSent
<1> QED
  BY <1>1, SentInvInit, SentInvStep, PTL DEF TxSpec

(* While the chip is never a whole ring behind, each packet leaves
   under the offload request geiEndSend was given with it, and the packets of
   a protocol leave in the order of its calls, each once. *)
THEOREM PacketsSentAsAsked == TxSpec => []SentAsAsked
<1>1. SentInv => SentAsAsked
  <2> SUFFICES ASSUME SentInv, ~wrapped
               PROVE  ~misread /\ \A i, j \in 1 .. Len(sent) :
                        i < j /\ sent[i].s = sent[j].s => sent[i].n < sent[j].n
    BY DEF SentAsAsked, RightContext, SentInOrder
  <2> QED
    BY DEF SentInv, Sound, Ordered, InOrder
<1> QED
  BY <1>1, SentInvInit, SentInvStep, PTL DEF TxSpec
=============================================================================
