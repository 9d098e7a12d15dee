--------------------------- MODULE GeiEndProofs ---------------------------
(***************************************************************************)
(* Proofs about GeiEnd, for rings, chips and bounds of every size.         *)
(***************************************************************************)
EXTENDS GeiEnd, TLAPS, FiniteSetTheorems

(* EndAssumption, taken apart. *)
LEMMA Constants ==
  /\ DescCnt \in Nat /\ DescCnt > 1
  /\ MaxRx \in Nat /\ MaxRx > 0
  /\ MaxFrames \in Nat /\ MaxStarts \in Nat /\ MaxFlaps \in Nat /\ MaxMishaps \in Nat
<1>1. MaxRx \in Nat \ {0}
  BY EndAssumption
<1>2. MaxRx > 0
  BY <1>1
<1> QED BY <1>1, <1>2, EndAssumption

USE Constants

(***************************************************************************)
(* Slots.                                                                  *)
(***************************************************************************)
(* GEI_INC_DESC wraps at the end of the ring and nowhere else. *)
LEMMA NextSlot ==
  ASSUME NEW i \in Slots
  PROVE  Next1(i) = (IF i = DescCnt - 1 THEN 0 ELSE i + 1) /\ Next1(i) \in Slots
<1>1. CASE i = DescCnt - 1
  <2>1. DescCnt % DescCnt = 0
    BY SMT
  <2> QED BY <1>1, <2>1 DEF Next1, Slots
<1>2. CASE i # DescCnt - 1
  <2>1. i + 1 \in 0 .. DescCnt - 1
    BY <1>2 DEF Slots
  <2>2. (i + 1) % DescCnt = i + 1
    BY <2>1, SMT
  <2> QED BY <1>2, <2>1, <2>2 DEF Next1, Slots
<1> QED BY <1>1, <1>2

(***************************************************************************)
(* Types.  TypeOK, conjunct by conjunct.                                   *)
(***************************************************************************)
Descriptors == [dd : BOOLEAN, n : 0 .. MaxFrames, bad : BOOLEAN, addr : BOOLEAN]

TypedTasks ==
  /\ life \in {"attached", "loaded", "unloaded", "gone"}
  /\ ctl \in {"idle", "start", "starting", "draining", "stopping", "unloading", "freeing",
              "gone"}
  /\ intFunc \in {"none", "ics", "alt"}
  /\ job \in {"idle", "rx", "link", "devsem", "check", "load", "unmask"}
  /\ left \in 0 .. MaxRx
  /\ told \in {"nothing", "up", "down"}

IsFlag(x) == x = TRUE \/ x = FALSE

TypedFlags ==
  /\ IsFlag(up) /\ IsFlag(unlinking) /\ IsFlag(polling)
  /\ IsFlag(pending) /\ IsFlag(queued) /\ IsFlag(moreRx)
  /\ IsFlag(active) /\ IsFlag(phy) /\ IsFlag(rxOn)
  /\ IsFlag(leaky) /\ IsFlag(badReset) /\ IsFlag(rebuilt) /\ IsFlag(polled)
  /\ IsFlag(expired) /\ IsFlag(late) /\ IsFlag(wild) /\ IsFlag(fault)

TypedCauses ==
  /\ intrs \subseteq Causes /\ status \subseteq Causes /\ mask \subseteq Causes
  /\ icr \subseteq Causes /\ ims \subseteq Causes /\ saved \subseteq Causes

TypedRing ==
  /\ devType \in {"legacy", "advanced"} /\ icsReads \in BOOLEAN
  /\ rxIdx \in Slots /\ rdh \in Slots /\ rdt \in Slots
  /\ mblk \subseteq Slots
  /\ desc \in [Slots -> Descriptors]

TypedHistories ==
  /\ lost \in Nat
  /\ frames \in 0 .. MaxFrames /\ starts \in 0 .. MaxStarts
  /\ flaps \in 0 .. MaxFlaps /\ mishaps \in 0 .. MaxMishaps
  /\ delivered \in [last : 0 .. MaxFrames, inOrder : BOOLEAN]

Typed == TypedTasks /\ TypedFlags /\ TypedCauses /\ TypedRing /\ TypedHistories

LEMMA TypedIsTypeOK == Typed => TypeOK
<1> SUFFICES ASSUME Typed PROVE TypeOK
  OBVIOUS
<1>1. {intrs, icr, ims, status, mask, saved} \subseteq SUBSET Causes
  BY DEF Typed, TypedCauses
<1>2. /\ {pending, queued, moreRx, active, polling, rxOn, phy} \subseteq BOOLEAN
      /\ {leaky, badReset, rebuilt, polled, expired, late, wild, fault} \subseteq BOOLEAN
  BY ZenonT(30) DEF Typed, TypedFlags, IsFlag
<1>3. {rxIdx, rdh, rdt} \subseteq Slots
  BY DEF Typed, TypedRing
<1> QED BY <1>1, <1>2, <1>3 DEF TypeOK, Typed, TypedTasks, TypedFlags, IsFlag, TypedRing, TypedHistories,
                                Descriptors

LEMMA InitTyped == Init => Typed
<1> SUFFICES ASSUME Init PROVE Typed
  OBVIOUS
<1>1. EmptyDesc \in Descriptors
  BY DEF EmptyDesc, Descriptors
<1>2. desc \in [Slots -> Descriptors]
  BY <1>1 DEF Init
<1>3. delivered \in [last : 0 .. MaxFrames, inOrder : BOOLEAN]
  BY DEF Init
<1>4. devType \in {"legacy", "advanced"} /\ icsReads \in BOOLEAN
  BY EndAssumption DEF Init
<1>5. TypedTasks
  BY DEF Init, TypedTasks
<1>6. TypedCauses
  BY DEF Init, TypedCauses
<1>7. TypedRing
  BY <1>2, <1>4 DEF Init, TypedRing, Slots
<1>8. TypedHistories
  BY <1>3 DEF Init, TypedHistories
<1>9. TypedFlags
  BY DEF Init, TypedFlags, IsFlag
<1> QED BY <1>5, <1>6, <1>7, <1>8, <1>9 DEF Typed


(* Another address, and the rest of the descriptor as it was. *)
LEMMA OtherAddress ==
  ASSUME NEW d \in Descriptors, NEW addr \in BOOLEAN
  PROVE  /\ [d EXCEPT !.addr = addr] \in Descriptors
         /\ [d EXCEPT !.addr = addr].dd = d.dd
         /\ [d EXCEPT !.addr = addr].n = d.n
         /\ [d EXCEPT !.addr = addr].addr = addr
  BY DEF Descriptors

LEMMA RearmTyped ==
  ASSUME Typed, NEW addr \in BOOLEAN, Rearm(addr)
  PROVE  desc' \in [Slots -> Descriptors] /\ rdt' \in Slots /\ rxIdx' \in Slots
<1> DEFINE clean == [EmptyDesc EXCEPT !.addr = addr]
<1>1. clean \in Descriptors
  <2>1. EmptyDesc \in Descriptors
    BY DEF EmptyDesc, Descriptors
  <2> QED BY <2>1, OtherAddress
<1>2. desc' = [desc EXCEPT ![rxIdx] = clean] /\ rdt' = rxIdx /\ rxIdx' = Next1(rxIdx)
  BY DEF Rearm
<1> HIDE DEF clean
<1> QED BY <1>1, <1>2, NextSlot DEF Typed, TypedRing

LEMMA StepTypedTasks ==
  ASSUME Typed, [Next]_vars
  PROVE  TypedTasks'
<1> USE DEF Typed, TypedTasks, lifeVars, jobVars, linkVars
<1>1. CASE ChipReceive
  BY <1>1 DEF ChipReceive
<1>2. CASE CableChanges
  BY <1>2 DEF CableChanges
<1>3. CASE Interrupt
  BY <1>3 DEF Interrupt, EndInt, AltInt, PostJob
<1>4. CASE Monitor
  BY <1>4 DEF Monitor, LinkUpdate, PhyReadFails, LinkLearned, IdleErrors
<1>5. CASE JobStart
  BY <1>5 DEF JobStart
<1>6. CASE RxSkip
  BY <1>6 DEF RxSkip, InRxLoop
<1>7. CASE RxDeliver
  BY <1>7 DEF RxDeliver, InRxLoop
<1>8. CASE RxNull
  BY <1>8 DEF RxNull
<1>9. CASE RxDone
  BY <1>9 DEF RxDone
<1>10. CASE JobLink
  BY <1>10 DEF JobLink
<1>11. CASE JobLinkUpdate
  BY <1>11 DEF JobLinkUpdate, LinkUpdate, PhyReadFails, LinkLearned, IdleErrors
<1>12. CASE JobAgain
  BY <1>12 DEF JobAgain
<1>13. CASE JobNoMore
  BY <1>13 DEF JobNoMore
<1>14. CASE JobLoad
  BY <1>14 DEF JobLoad
<1>15. CASE JobUnmask
  BY <1>15 DEF JobUnmask
<1>16. CASE JobAfterFree
  BY <1>16 DEF JobAfterFree
<1>17. CASE MuxConnect
  BY <1>17 DEF MuxConnect
<1>18. CASE StartBegin
  BY <1>18 DEF StartBegin
<1>19. CASE StartEnable
  BY <1>19 DEF StartEnable, RxFromStart
<1>20. CASE Stop
  BY <1>20 DEF Stop, StopMask, StopDrained, StopExpires, StopFree
<1>21. CASE Unlink
  BY <1>21 DEF Unlink, StopMask, UnlinkStopped, Unload, UnlinkFree
<1>22. CASE Polled
  BY <1>22 DEF Polled, PollStart, PollReceive, PollStop
<1>23. CASE UNCHANGED vars
  BY <1>23 DEF vars
<1> QED BY <1>1, <1>2, <1>3, <1>4, <1>5, <1>6, <1>7, <1>8, <1>9, <1>10, <1>11, <1>12, <1>13,
           <1>14, <1>15, <1>16, <1>17, <1>18, <1>19, <1>20, <1>21, <1>22, <1>23
        DEF Next, Chip, Job, Control

LEMMA StepTypedFlags ==
  ASSUME Typed, [Next]_vars
  PROVE  TypedFlags'
<1> USE DEF Typed, TypedFlags, IsFlag, lifeVars, jobVars, linkVars, pollVars, chip, blame
<1>1. CASE ChipReceive
  BY <1>1 DEF ChipReceive
<1>2. CASE CableChanges
  BY <1>2 DEF CableChanges
<1>3. CASE Interrupt
  BY <1>3 DEF Interrupt, EndInt, AltInt, PostJob
<1>4. CASE Monitor
  BY <1>4 DEF Monitor, LinkUpdate, PhyReadFails, LinkLearned, IdleErrors
<1>5. CASE JobStart
  BY <1>5 DEF JobStart
<1>6. CASE RxSkip
  BY <1>6 DEF RxSkip, InRxLoop
<1>7. CASE RxDeliver
  BY <1>7 DEF RxDeliver, InRxLoop
<1>8. CASE RxNull
  BY <1>8 DEF RxNull
<1>9. CASE RxDone
  BY <1>9 DEF RxDone
<1>10. CASE JobLink
  BY <1>10 DEF JobLink
<1>11. CASE JobLinkUpdate
  BY <1>11 DEF JobLinkUpdate, LinkUpdate, PhyReadFails, LinkLearned, IdleErrors
<1>12. CASE JobAgain
  BY <1>12 DEF JobAgain
<1>13. CASE JobNoMore
  BY <1>13 DEF JobNoMore
<1>14. CASE JobLoad
  BY <1>14 DEF JobLoad
<1>15. CASE JobUnmask
  BY <1>15 DEF JobUnmask
<1>16. CASE JobAfterFree
  BY <1>16 DEF JobAfterFree
<1>17. CASE MuxConnect
  BY <1>17 DEF MuxConnect
<1>18. CASE StartBegin
  BY <1>18 DEF StartBegin, Reset, ResetWorks, ResetTimesOut
<1>19. CASE StartEnable
  BY <1>19 DEF StartEnable, RxFromStart
<1>20. CASE Stop
  BY <1>20 DEF Stop, StopMask, StopDrained, StopExpires, StopFree, Reset, ResetWorks, ResetTimesOut
<1>21. CASE Unlink
  BY <1>21 DEF Unlink, StopMask, UnlinkStopped, Unload, UnlinkFree
<1>22. CASE Polled
  BY <1>22 DEF Polled, PollStart, PollReceive, PollStop
<1>23. CASE UNCHANGED vars
  BY <1>23 DEF vars
<1> QED BY <1>1, <1>2, <1>3, <1>4, <1>5, <1>6, <1>7, <1>8, <1>9, <1>10, <1>11, <1>12, <1>13,
           <1>14, <1>15, <1>16, <1>17, <1>18, <1>19, <1>20, <1>21, <1>22, <1>23
        DEF Next, Chip, Job, Control

LEMMA StepTypedCauses ==
  ASSUME Typed, [Next]_vars
  PROVE  TypedCauses'
<1> USE DEF Typed, TypedCauses, jobVars, pollVars, chip, Causes
<1>1. CASE Chip
  BY <1>1 DEF Chip, ChipReceive, CableChanges
<1>2. CASE Interrupt
  BY <1>2 DEF Interrupt, EndInt, AltInt, Mask
<1>3. CASE Monitor
  BY <1>3 DEF Monitor, LinkUpdate, PhyReadFails, LinkLearned, IdleErrors
<1>4. CASE JobStart
  BY <1>4 DEF JobStart
<1>5. CASE RxSkip \/ RxDeliver \/ RxNull \/ RxDone
  BY <1>5 DEF RxSkip, RxDeliver, RxNull, RxDone
<1>6. CASE JobLink
  BY <1>6 DEF JobLink
<1>7. CASE JobLinkUpdate
  BY <1>7 DEF JobLinkUpdate, LinkUpdate, PhyReadFails, LinkLearned, IdleErrors
<1>8. CASE JobAgain \/ JobNoMore \/ JobLoad \/ JobUnmask \/ JobAfterFree
  BY <1>8 DEF JobAgain, JobNoMore, JobLoad, JobUnmask, JobAfterFree
<1>9. CASE MuxConnect \/ StartEnable
  BY <1>9 DEF MuxConnect, StartEnable, RxFromStart
<1>10. CASE StartBegin
  BY <1>10 DEF StartBegin, Reset, ResetWorks, ResetTimesOut
<1>11. CASE Stop
  BY <1>11 DEF Stop, StopMask, StopDrained, StopExpires, StopFree, Mask, Reset, ResetWorks,
               ResetTimesOut
<1>12. CASE Unlink
  BY <1>12 DEF Unlink, StopMask, UnlinkStopped, Unload, UnlinkFree, Mask
<1>13. CASE Polled
  BY <1>13 DEF Polled, PollStart, PollReceive, PollStop
<1>14. CASE UNCHANGED vars
  BY <1>14 DEF vars
<1> QED BY <1>1, <1>2, <1>3, <1>4, <1>5, <1>6, <1>7, <1>8, <1>9, <1>10, <1>11, <1>12, <1>13,
           <1>14 DEF Next, Job, Control

LEMMA StepTypedRing ==
  ASSUME Typed, [Next]_vars
  PROVE  TypedRing'
<1> USE DEF TypedRing, chip, hw, buffers
<1>1. Typed
  OBVIOUS
<1>2. TypedRing
  BY DEF Typed
<1>3. CASE ChipReceive
  <2>1. PICK bad \in BOOLEAN :
          desc' = [desc EXCEPT ![rdh] = [dd |-> TRUE, n |-> frames + 1, bad |-> bad,
                                         addr |-> devType = "legacy"]]
    BY <1>3 DEF ChipReceive
  <2> DEFINE filled == [dd |-> TRUE, n |-> frames + 1, bad |-> bad,
                        addr |-> devType = "legacy"]
  <2>2. filled \in Descriptors
    <3>1. frames + 1 \in 0 .. MaxFrames
      BY <1>3 DEF Typed, TypedHistories, ChipReceive
    <3>2. (devType = "legacy") \in BOOLEAN
      OBVIOUS
    <3> QED BY <3>1, <3>2 DEF Descriptors
  <2>3. desc' = [desc EXCEPT ![rdh] = filled]
    BY <2>1
  <2> HIDE DEF filled
  <2>4. rdh' \in Slots
    BY <1>2, <1>3, NextSlot DEF ChipReceive
  <2> QED BY <1>2, <1>3, <2>2, <2>3, <2>4 DEF ChipReceive
<1>4. CASE CableChanges
  BY <1>2, <1>4 DEF CableChanges
<1>5. CASE Interrupt
  BY <1>2, <1>5 DEF Interrupt, EndInt, AltInt
<1>6. CASE Monitor
  BY <1>2, <1>6 DEF Monitor
<1>7. CASE RxSkip
  <2>1. desc[rxIdx].addr \in BOOLEAN
    BY <1>2 DEF Descriptors
  <2>2. PICK addr \in BOOLEAN : Rearm(addr)
    BY <1>7, <2>1 DEF RxSkip, SkipLegacy, SkipAdvanced
  <2>3. desc' \in [Slots -> Descriptors] /\ rdt' \in Slots /\ rxIdx' \in Slots
    BY <1>1, <2>2, RearmTyped
  <2> QED BY <1>2, <1>7, <2>3 DEF RxSkip
<1>8. CASE RxDeliver
  <2>1. desc' \in [Slots -> Descriptors] /\ rdt' \in Slots /\ rxIdx' \in Slots
    BY <1>1, <1>8, RearmTyped DEF RxDeliver
  <2> QED BY <1>2, <1>8, <2>1 DEF RxDeliver
<1>9. CASE JobStart \/ RxNull \/ RxDone \/ JobLink \/ JobLinkUpdate
  BY <1>2, <1>9 DEF JobStart, RxNull, RxDone, JobLink, JobLinkUpdate
<1>10. CASE JobAgain \/ JobNoMore \/ JobLoad \/ JobUnmask \/ JobAfterFree
  BY <1>2, <1>10 DEF JobAgain, JobNoMore, JobLoad, JobUnmask, JobAfterFree
<1>11. CASE MuxConnect
  BY <1>2, <1>11 DEF MuxConnect
<1>12. CASE StartBegin
  <2>1. EmptyDesc \in Descriptors
    BY DEF EmptyDesc, Descriptors
  <2>2. desc' \in [Slots -> Descriptors]
    BY <1>12, <2>1 DEF StartBegin
  <2>3. mblk' \subseteq Slots
    <3>1. PICK k \in 0 .. DescCnt : FillRing(k)
      BY <1>12 DEF StartBegin
    <3> QED BY <1>2, <3>1 DEF FillRing, Slots
  <2>4. rdh' \in Slots /\ rdt' \in Slots
    BY <1>2, <1>12 DEF StartBegin, Reset, ResetWorks, ResetTimesOut, Slots
  <2> QED BY <1>2, <1>12, <2>2, <2>3, <2>4 DEF StartBegin
<1>13. CASE StartEnable
  <2>1. 0 \in Slots /\ DescCnt - 1 \in Slots
    BY DEF Slots
  <2> QED BY <1>2, <1>13, <2>1 DEF StartEnable, RxFromStart
<1>14. CASE StopFree
  <2>1. rdh' \in Slots /\ rdt' \in Slots
    BY <1>2, <1>14 DEF StopFree, Reset, ResetWorks, ResetTimesOut, Slots
  <2> QED BY <1>2, <1>14, <2>1 DEF StopFree
<1>15. CASE StopMask(FALSE) \/ StopMask(TRUE) \/ StopDrained \/ StopExpires
  BY <1>2, <1>15 DEF StopMask, StopDrained, StopExpires
<1>16. CASE UnlinkStopped \/ Unload \/ UnlinkFree
  BY <1>2, <1>16 DEF UnlinkStopped, Unload, UnlinkFree
<1>17. CASE PollReceive
  <2>1. desc[rxIdx].addr \in BOOLEAN
    BY <1>2 DEF Descriptors
  <2>2. PICK addr \in BOOLEAN : Rearm(addr)
    BY <1>17, <2>1 DEF PollReceive, PollReceiveLegacy, PollReceiveAdvanced
  <2>3. desc' \in [Slots -> Descriptors] /\ rdt' \in Slots /\ rxIdx' \in Slots
    BY <1>1, <2>2, RearmTyped
  <2> QED BY <1>2, <1>17, <2>3 DEF PollReceive
<1>18. CASE PollStart \/ PollStop
  BY <1>2, <1>18 DEF PollStart, PollStop
<1>19. CASE UNCHANGED vars
  BY <1>2, <1>19 DEF vars
<1> QED BY <1>3, <1>4, <1>5, <1>6, <1>7, <1>8, <1>9, <1>10, <1>11, <1>12, <1>13, <1>14, <1>15,
           <1>16, <1>17, <1>18, <1>19 DEF Next, Chip, Job, Control, Stop, Unlink, Polled

LEMMA DeliverTyped ==
  ASSUME Typed, NEW n \in 0 .. MaxFrames, Deliver(n)
  PROVE  delivered' \in [last : 0 .. MaxFrames, inOrder : BOOLEAN]
<1>1. (delivered.inOrder /\ n > delivered.last) \in BOOLEAN
  OBVIOUS
<1> QED BY <1>1 DEF Deliver

(* How many tuples a filling of the ring overwrites. *)
LEMMA FillCounts ==
  ASSUME Typed, NEW k \in 0 .. DescCnt, FillRing(k)
  PROVE  lost' \in Nat
<1>1. IsFiniteSet(0 .. k - 1)
  BY FS_Interval
<1>2. IsFiniteSet(mblk \cap (0 .. k - 1))
  BY <1>1, FS_Subset
<1>3. Cardinality(mblk \cap (0 .. k - 1)) \in Nat
  BY <1>2, FS_CardinalityType
<1> QED BY <1>3 DEF FillRing, Typed, TypedHistories

LEMMA StepTypedHistories ==
  ASSUME Typed, [Next]_vars
  PROVE  TypedHistories'
<1> USE DEF TypedHistories, buffers, counts
<1>1. TypedHistories
  BY DEF Typed
<1>2. CASE Chip
  BY <1>1, <1>2 DEF Chip, ChipReceive, CableChanges
<1>3. CASE Interrupt
  BY <1>1, <1>3 DEF Interrupt, EndInt, AltInt
<1>4. CASE Monitor
  BY <1>1, <1>4 DEF Monitor, LinkUpdate, PhyReadFails, LinkLearned, IdleErrors, Mishap
<1>5. CASE RxDeliver
  <2>1. desc[rxIdx].n \in 0 .. MaxFrames
    BY DEF Typed, TypedRing, Descriptors
  <2>2. delivered' \in [last : 0 .. MaxFrames, inOrder : BOOLEAN]
    BY <1>5, <2>1, DeliverTyped DEF RxDeliver, DeliverLegacy, DeliverAdvanced
  <2> QED BY <1>1, <1>5, <2>2 DEF RxDeliver
<1>6. CASE JobStart \/ RxSkip \/ RxNull \/ RxDone \/ JobLink
  BY <1>1, <1>6 DEF JobStart, RxSkip, RxNull, RxDone, JobLink
<1>7. CASE JobLinkUpdate
  BY <1>1, <1>7 DEF JobLinkUpdate, LinkUpdate, PhyReadFails, LinkLearned, IdleErrors, Mishap
<1>8. CASE JobAgain \/ JobNoMore \/ JobLoad \/ JobUnmask \/ JobAfterFree
  BY <1>1, <1>8 DEF JobAgain, JobNoMore, JobLoad, JobUnmask, JobAfterFree
<1>9. CASE MuxConnect \/ StartEnable
  BY <1>1, <1>9 DEF MuxConnect, StartEnable, RxFromStart
<1>10. CASE StartBegin
  <2>1. PICK k \in 0 .. DescCnt : FillRing(k)
    BY <1>10 DEF StartBegin
  <2>2. lost' \in Nat
    BY <2>1, FillCounts
  <2>3. starts' \in 0 .. MaxStarts
    BY <1>1, <1>10 DEF StartBegin, MayStart
  <2>4. mishaps' \in 0 .. MaxMishaps
    BY <1>1, <1>10 DEF StartBegin, Reset, ResetTimesOut, Mishap
  <2> QED BY <1>1, <1>10, <2>2, <2>3, <2>4 DEF StartBegin
<1>11. CASE Stop
  BY <1>1, <1>11 DEF Stop, StopMask, StopDrained, StopExpires, StopFree, Reset, ResetTimesOut, Mishap
<1>12. CASE Unlink
  BY <1>1, <1>12 DEF Unlink, StopMask, UnlinkStopped, Unload, UnlinkFree
<1>13. CASE PollReceive
  <2>1. desc[rxIdx].n \in 0 .. MaxFrames
    BY DEF Typed, TypedRing, Descriptors
  <2>2. delivered' \in [last : 0 .. MaxFrames, inOrder : BOOLEAN]
    BY <1>1, <1>13, <2>1, DeliverTyped DEF PollReceive
  <2> QED BY <1>1, <1>13, <2>2 DEF PollReceive
<1>14. CASE PollStart \/ PollStop
  BY <1>1, <1>14 DEF PollStart, PollStop, Mishap
<1>15. CASE UNCHANGED vars
  BY <1>1, <1>15 DEF vars
<1> QED BY <1>2, <1>3, <1>4, <1>5, <1>6, <1>7, <1>8, <1>9, <1>10, <1>11, <1>12, <1>13, <1>14,
           <1>15 DEF Next, Job, Control, Polled

THEOREM TypedHolds == Spec => []Typed
<1>1. Typed /\ [Next]_vars => Typed'
  BY StepTypedTasks, StepTypedFlags, StepTypedCauses, StepTypedRing, StepTypedHistories DEF Typed
<1> QED BY <1>1, InitTyped, PTL DEF Spec

(***************************************************************************)
(* Where the device stands: a running interface is loaded, only a running  *)
(* one is stopped or polled, and what the job and polled mode put aside    *)
(* they put aside for a while.                                             *)
(***************************************************************************)
Standing ==
  /\ up => life = "loaded" /\ ctl \in {"idle", "draining", "stopping"}
  /\ ctl \in {"draining", "stopping"} => up
  /\ ctl = "starting" => life = "loaded"
  /\ polling => up /\ ctl = "idle"
  /\ ~polling => saved = {}
  /\ job # "unmask" => mask = {}

LEMMA StandingStep ==
  ASSUME Standing, [Next]_vars
  PROVE  Standing'
<1> USE DEF Standing, lifeVars, jobVars, pollVars, TasksRun, JobRuns
<1>1. CASE Chip
  BY <1>1 DEF Chip, ChipReceive, CableChanges
<1>2. CASE Interrupt
  BY <1>2 DEF Interrupt, EndInt, AltInt
<1>3. CASE Monitor
  BY <1>3 DEF Monitor
<1>4. CASE JobStart
  <2>1. job = "idle" /\ job' \in {"rx", "link"}
    BY <1>4 DEF JobStart
  <2> QED BY <1>4, <2>1 DEF JobStart
<1>15. CASE RxSkip
  BY <1>15 DEF RxSkip, InRxLoop
<1>16. CASE RxDeliver
  BY <1>16 DEF RxDeliver, InRxLoop
<1>5. CASE RxNull \/ RxDone \/ JobLink \/ JobLinkUpdate
  BY <1>5 DEF RxNull, RxDone, JobLink, JobLinkUpdate
<1>6. CASE JobAgain \/ JobNoMore
  BY <1>6 DEF JobAgain, JobNoMore
<1>7. CASE JobLoad \/ JobUnmask \/ JobAfterFree
  BY <1>7 DEF JobLoad, JobUnmask, JobAfterFree
<1>8. CASE MuxConnect
  BY <1>8 DEF MuxConnect
<1>9. CASE StartBegin
  BY <1>9 DEF StartBegin, MayStart
<1>10. CASE StartEnable
  BY <1>10 DEF StartEnable, RxFromStart
<1>11. CASE Stop
  BY <1>11 DEF Stop, StopMask, StopDrained, StopExpires, StopFree
<1>12. CASE Unlink
  BY <1>12 DEF Unlink, StopMask, UnlinkStopped, Unload, UnlinkFree
<1>13. CASE Polled
  BY <1>13 DEF Polled, PollStart, PollReceive, PollStop
<1>14. CASE UNCHANGED vars
  BY <1>14 DEF vars
<1> QED BY <1>1, <1>2, <1>3, <1>4, <1>5, <1>6, <1>7, <1>8, <1>9, <1>10, <1>11, <1>12, <1>13,
           <1>14, <1>15, <1>16 DEF Next, Job, Control

(***************************************************************************)
(* What the ring holds.  Frames lie in the ring of an interface that is    *)
(* down only where a reset failed, and the descriptors keep the addresses  *)
(* of their buffers, but for advanced ones the chip has written back.      *)
(***************************************************************************)
Holding ==
  /\ up => rxOn
  /\ (up \/ ctl = "starting") => mblk = Slots
  /\ ~leaky => lost = 0
  /\ (~leaky /\ ~up /\ ctl # "starting") => mblk = {}
  /\ ~badReset => (rxOn => up) /\ ~rebuilt
  /\ (~up /\ mblk # {} /\ ~rebuilt) => ~rxOn /\ \A i \in Slots : ~desc[i].dd
  /\ \A i \in Slots : ~desc[i].addr => devType = "advanced" /\ desc[i].dd

(* What Rearm leaves of the descriptors. *)
LEMMA RearmEffect ==
  ASSUME Typed, NEW addr \in BOOLEAN, Rearm(addr)
  PROVE  /\ rdt' = rxIdx /\ rxIdx' = Next1(rxIdx)
         /\ ~desc'[rxIdx].dd /\ desc'[rxIdx].addr = addr
         /\ \A i \in Slots \ {rxIdx} : desc'[i] = desc[i]
<1> DEFINE clean == [EmptyDesc EXCEPT !.addr = addr]
<1>1. ~clean.dd /\ clean.addr = addr
  <2>1. EmptyDesc \in Descriptors /\ ~EmptyDesc.dd
    BY DEF EmptyDesc, Descriptors
  <2> QED BY <2>1, OtherAddress
<1>2. desc' = [desc EXCEPT ![rxIdx] = clean] /\ rdt' = rxIdx /\ rxIdx' = Next1(rxIdx)
  BY DEF Rearm
<1> HIDE DEF clean
<1> QED BY <1>1, <1>2 DEF Typed, TypedRing

(* Every way to give the descriptor back keeps or restores its address. *)
LEMMA GivenBack ==
  ASSUME Typed, Holding, RxSkip \/ RxDeliver \/ PollReceive
  PROVE  Rearm(TRUE)
<1>1. CASE devType = "legacy"
  <2>1. desc[rxIdx].addr = TRUE
    <3>1. desc[rxIdx].addr \in BOOLEAN /\ rxIdx \in Slots
      BY DEF Typed, TypedRing, Descriptors
    <3>2. desc[rxIdx].addr
      BY <1>1, <3>1 DEF Holding
    <3> QED BY <3>1, <3>2
  <2> QED BY <1>1, <2>1 DEF RxSkip, SkipLegacy, SkipAdvanced, RxDeliver, PollReceive, PollReceiveLegacy,
                            PollReceiveAdvanced
<1>2. CASE devType = "advanced"
  BY <1>2 DEF RxSkip, SkipLegacy, SkipAdvanced, RxDeliver, PollReceive, PollReceiveLegacy,
              PollReceiveAdvanced
<1> QED BY <1>1, <1>2 DEF Typed, TypedRing

LEMMA HoldingStep ==
  ASSUME Typed, Standing, Holding, [Next]_vars
  PROVE  Holding'
<1> USE DEF chip, hw, buffers, lifeVars, blame
<1>1. CASE ChipReceive
  <2>1. desc' \in [Slots -> Descriptors] /\ rdh \in Slots
    BY <1>1, StepTypedRing DEF Typed, TypedRing
  <2>2. /\ desc'[rdh].dd
        /\ ~desc'[rdh].addr => devType = "advanced"
        /\ \A i \in Slots \ {rdh} : desc'[i] = desc[i]
    <3>1. PICK bad \in BOOLEAN :
            desc' = [desc EXCEPT ![rdh] = [dd |-> TRUE, n |-> frames + 1, bad |-> bad,
                                           addr |-> devType = "legacy"]]
      BY <1>1 DEF ChipReceive
    <3> DEFINE legacy == devType = "legacy"
    <3>2. desc'[rdh] = [dd |-> TRUE, n |-> frames + 1, bad |-> bad, addr |-> legacy]
      BY <3>1 DEF Typed, TypedRing
    <3>3. legacy \in BOOLEAN
      OBVIOUS
    <3> HIDE DEF legacy
    <3>4. desc'[rdh].dd = TRUE /\ desc'[rdh].addr = legacy
      BY <3>2, <3>3
    <3>5. desc'[rdh].dd /\ (~desc'[rdh].addr => devType = "advanced")
      BY <3>3, <3>4 DEF legacy, Typed, TypedRing
    <3> QED BY <3>1, <3>5 DEF Typed, TypedRing
  <2>3. up' = up /\ rxOn /\ UNCHANGED << rxOn, mblk, lost, ctl, leaky, badReset, rebuilt, devType >>
    BY <1>1 DEF ChipReceive
  <2>4. \A i \in Slots : ~desc'[i].addr => devType' = "advanced" /\ desc'[i].dd
    BY <2>2, <2>3 DEF Holding
  <2> QED BY <2>3, <2>4 DEF Holding
<1>2. CASE CableChanges
  BY <1>2 DEF Holding, CableChanges
<1>3. CASE Interrupt \/ Monitor
  BY <1>3 DEF Holding, Interrupt, EndInt, AltInt, Monitor
<1>4. CASE RxSkip \/ RxDeliver \/ PollReceive
  <2>1. /\ ~desc'[rxIdx].dd /\ desc'[rxIdx].addr = TRUE
        /\ \A i \in Slots \ {rxIdx} : desc'[i] = desc[i]
    BY <1>4, GivenBack, RearmEffect
  <2>2. UNCHANGED << up, rxOn, mblk, lost, ctl, leaky, badReset, rebuilt, devType >>
    BY <1>4 DEF RxSkip, RxDeliver, PollReceive
  <2> QED BY <2>1, <2>2 DEF Holding
<1>5. CASE JobStart \/ RxNull \/ RxDone \/ JobLink \/ JobLinkUpdate
  BY <1>5 DEF Holding, JobStart, RxNull, RxDone, JobLink, JobLinkUpdate
<1>6. CASE JobAgain \/ JobNoMore \/ JobLoad \/ JobUnmask \/ JobAfterFree
  BY <1>6 DEF Holding, JobAgain, JobNoMore, JobLoad, JobUnmask, JobAfterFree
<1>7. CASE MuxConnect
  BY <1>7 DEF Holding, MuxConnect
<1>8. CASE StartBegin
  <2>1. ~up /\ ctl # "starting" /\ up' = FALSE /\ UNCHANGED devType
    BY <1>8 DEF StartBegin, MayStart
  <2>2. \A i \in Slots : ~desc'[i].dd /\ desc'[i].addr
    BY <1>8 DEF StartBegin, EmptyDesc
  <2>3. ctl' = "starting" => FillRing(DescCnt) /\ UNCHANGED leaky
    BY <1>8 DEF StartBegin
  <2>4. ctl' # "starting" => leaky'
    BY <1>8 DEF StartBegin
  <2>5. ctl' = "starting" => mblk' = Slots
    BY <2>3 DEF FillRing, Slots, Typed, TypedRing
  <2>6. ~leaky' => ctl' = "starting" /\ ~leaky
    BY <2>3, <2>4
  <2>7. ~leaky' => lost' = 0
    <3> SUFFICES ASSUME ~leaky' PROVE lost' = 0
      OBVIOUS
    <3>1. mblk = {} /\ lost = 0
      BY <2>1, <2>6 DEF Holding
    <3>2. lost' = lost + Cardinality({} \cap (0 .. DescCnt - 1))
      BY <2>3, <2>6, <3>1 DEF FillRing
    <3>3. {} \cap (0 .. DescCnt - 1) = {}
      OBVIOUS
    <3> QED BY <3>1, <3>2, <3>3, FS_EmptySet
  <2>8. rebuilt' <=> rebuilt \/ rxOn'
    BY <1>8 DEF StartBegin
  <2>9. badReset' \/ (~rxOn' /\ badReset' = badReset)
    BY <1>8 DEF StartBegin, Reset, ResetWorks, ResetTimesOut
  <2>10. ~badReset' => ~rxOn' /\ ~rebuilt'
    BY <2>8, <2>9 DEF Holding
  <2> QED BY <2>1, <2>2, <2>5, <2>6, <2>7, <2>8, <2>10 DEF Holding
<1>9. CASE StartEnable
  BY <1>9 DEF Holding, StartEnable, RxFromStart
<1>10. CASE StopFree
  BY <1>10 DEF Holding, StopFree, Reset, ResetWorks, ResetTimesOut
<1>11. CASE StopMask(FALSE) \/ StopMask(TRUE)
  BY <1>11 DEF Holding, StopMask
<1>12. CASE StopDrained \/ StopExpires
  BY <1>12 DEF Holding, StopDrained, StopExpires
<1>13. CASE UnlinkStopped \/ Unload \/ UnlinkFree
  BY <1>13 DEF Holding, UnlinkStopped, Unload, UnlinkFree
<1>14. CASE PollStart \/ PollStop
  BY <1>14 DEF Holding, PollStart, PollStop
<1>15. CASE UNCHANGED vars
  BY <1>15 DEF Holding, vars
<1> QED BY <1>1, <1>2, <1>3, <1>4, <1>5, <1>6, <1>7, <1>8, <1>9, <1>10, <1>11, <1>12, <1>13,
           <1>14, <1>15 DEF Next, Chip, Job, Control, Stop, Unlink, Polled

LEMMA InitHolds == Init => Standing /\ Holding
<1> SUFFICES ASSUME Init PROVE Standing /\ Holding
  OBVIOUS
<1>1. Standing
  BY DEF Init, Standing
<1>2. \A i \in Slots : ~desc[i].dd /\ desc[i].addr
  BY DEF Init, EmptyDesc
<1>3. Holding
  BY <1>2 DEF Init, Holding
<1> QED BY <1>1, <1>3

LEMMA GroundHolds == Spec => [](Typed /\ Standing /\ Holding)
<1> DEFINE Ground == Typed /\ Standing /\ Holding
<1>1. Init => Ground
  BY InitTyped, InitHolds
<1>2. Ground /\ [Next]_vars => Ground'
  <2>1. Typed /\ [Next]_vars => Typed'
    BY StepTypedTasks, StepTypedFlags, StepTypedCauses, StepTypedRing, StepTypedHistories DEF Typed
  <2> QED BY <2>1, StandingStep, HoldingStep
<1> QED BY <1>1, <1>2, PTL DEF Spec

(***************************************************************************)
(* The handshake between interrupts, the job and a stop.  geiIntPending    *)
(* stands for the job up to where it is cleared; while there is a job      *)
(* nothing interrupts, so there is one job at a time; and a stop that      *)
(* neither gave up nor came between the last steps leaves no job behind.   *)
(***************************************************************************)
Calm ==
  /\ pending <=> (queued \/ job \in {"rx", "link", "devsem", "check"})
  /\ job # "idle" => ~queued
  /\ (queued \/ job # "idle") => ims = {} /\ saved = {}
  /\ polling => ims = {}
  /\ (~up \/ ctl \in {"draining", "stopping"}) => ims = {} /\ saved = {}
  /\ ctl \in {"draining", "stopping"} => intrs = {} /\ mask = {}
  /\ ctl = "stopping" => ~pending
  /\ ~up => ~queued /\ job = "idle"

(* A stop that expired or came late excuses everything after it. *)
InStep == ~expired /\ ~late

CalmStays == InStep => Calm /\ ~fault

(* While they are in step, no step of the job meets a ring or a control
   structure that was taken away. *)
LEMMA NoStalePointer ==
  ASSUME Typed, Standing, Holding, Calm
  PROVE  ~RxNull /\ ~JobAfterFree
<1>1. ~RxNull
  <2> SUFFICES ASSUME RxNull PROVE FALSE
    OBVIOUS
  <2>1. up
    BY DEF RxNull, InRxLoop, Calm
  <2>2. rxIdx \in mblk
    BY <2>1 DEF Holding, Typed, TypedRing
  <2> QED BY <2>2 DEF RxNull
<1>2. ~JobAfterFree
  BY DEF JobAfterFree, Standing, Calm
<1> QED BY <1>1, <1>2

LEMMA CalmStep ==
  ASSUME Typed, Standing, Holding, Calm, ~fault, [Next]_vars, InStep'
  PROVE  Calm' /\ ~fault'
<1> USE DEF Calm, lifeVars, jobVars, pollVars, chip, blame, TasksRun, JobRuns
<1>1. CASE Chip
  BY <1>1 DEF Chip, ChipReceive, CableChanges
<1>2. CASE EndInt
  <2>1. ims # {} /\ pending' /\ queued'
    BY <1>2 DEF EndInt, PostJob
  <2>2. up /\ ctl \notin {"draining", "stopping"} /\ job = "idle" /\ saved = {}
    BY <2>1 DEF Standing
  <2>3. ims' = {}
    BY <1>2 DEF EndInt, Mask, Typed, TypedCauses
  <2> QED BY <1>2, <2>1, <2>2, <2>3 DEF EndInt
<1>3. CASE AltInt
  <2>1. ims # {} /\ pending' /\ queued'
    BY <1>3 DEF AltInt, PostJob
  <2>2. up /\ ctl \notin {"draining", "stopping"} /\ job = "idle" /\ saved = {}
    BY <2>1 DEF Standing
  <2>3. ims' = {}
    BY <1>3 DEF AltInt, Mask, Typed, TypedCauses
  <2> QED BY <1>3, <2>1, <2>2, <2>3 DEF AltInt
<1>4. CASE Monitor
  BY <1>4 DEF Monitor, LinkUpdate, PhyReadFails, LinkLearned, IdleErrors
<1>5. CASE JobStart
  <2>1. job = "idle" /\ job' \in {"rx", "link"}
    BY <1>5 DEF JobStart
  <2> QED BY <1>5, <2>1 DEF JobStart
<1>6. CASE RxSkip
  BY <1>6 DEF RxSkip, InRxLoop
<1>7. CASE RxDeliver
  BY <1>7 DEF RxDeliver, InRxLoop
<1>8. CASE RxNull \/ JobAfterFree
  BY <1>8, NoStalePointer
<1>9. CASE RxDone
  BY <1>9 DEF RxDone
<1>10. CASE JobLink
  <2>1. job' \in {"devsem", "check"}
    BY <1>10 DEF JobLink
  <2> QED BY <1>10, <2>1 DEF JobLink
<1>11. CASE JobLinkUpdate
  BY <1>11 DEF JobLinkUpdate, LinkUpdate, PhyReadFails, LinkLearned, IdleErrors
<1>12. CASE JobAgain
  BY <1>12 DEF JobAgain
<1>13. CASE JobNoMore
  BY <1>13 DEF JobNoMore
<1>14. CASE JobLoad
  BY <1>14 DEF JobLoad
<1>15. CASE JobUnmask
  BY <1>15 DEF JobUnmask
<1>16. CASE MuxConnect
  BY <1>16 DEF MuxConnect, Standing
<1>17. CASE StartBegin
  <2>1. ~up /\ ims = {} /\ saved = {} /\ ~queued /\ job = "idle"
    BY <1>17 DEF StartBegin, MayStart
  <2>2. ims' = {}
    BY <1>17 DEF StartBegin, Reset, ResetWorks, ResetTimesOut
  <2>3. ctl' \in {"starting", "idle"} /\ ~pending' /\ ~up'
    BY <1>17, <2>1 DEF StartBegin
  <2> QED BY <1>17, <2>1, <2>2, <2>3 DEF StartBegin
<1>18. CASE StartEnable
  BY <1>18 DEF StartEnable, RxFromStart, Standing
<1>19. CASE StopMask(FALSE) \/ StopMask(TRUE)
  <2>1. job \notin {"load", "unmask"} /\ mask = {}
    BY <1>19 DEF StopMask, LastSteps, InStep, Standing
  <2>2. ims' = {} /\ saved' = {}
    BY <1>19 DEF StopMask, Mask, Typed, TypedCauses, Standing
  <2> QED BY <1>19, <2>1, <2>2 DEF StopMask
<1>20. CASE StopDrained
  BY <1>20 DEF StopDrained
<1>21. CASE StopExpires
  BY <1>21 DEF StopExpires, InStep
<1>22. CASE StopFree
  <2>1. ~queued /\ job = "idle"
    BY <1>22 DEF StopFree, LastSteps, InStep, Typed, TypedTasks
  <2>2. ims' = {} /\ ctl' \notin {"draining", "stopping"}
    BY <1>22 DEF StopFree, Reset, ResetWorks, ResetTimesOut
  <2> QED BY <1>22, <2>1, <2>2 DEF StopFree
<1>23. CASE UnlinkStopped \/ Unload \/ UnlinkFree
  BY <1>23 DEF UnlinkStopped, Unload, UnlinkFree
<1>24. CASE PollStart
  BY <1>24 DEF PollStart
<1>25. CASE PollReceive
  BY <1>25 DEF PollReceive
<1>26. CASE PollStop
  BY <1>26 DEF PollStop, Standing
<1>27. CASE UNCHANGED vars
  BY <1>27 DEF vars
<1> QED BY <1>1, <1>2, <1>3, <1>4, <1>5, <1>6, <1>7, <1>8, <1>9, <1>10, <1>11, <1>12, <1>13,
           <1>14, <1>15, <1>16, <1>17, <1>18, <1>19, <1>20, <1>21, <1>22, <1>23, <1>24, <1>25,
           <1>26, <1>27
        DEF Next, Interrupt, Job, Control, Stop, Unlink, Polled

(* A stop that expired or came late never stops having done so. *)
LEMMA InStepBefore ==
  ASSUME [Next]_vars, InStep'
  PROVE  InStep
<1> USE DEF InStep, blame
<1>1. CASE Chip \/ Interrupt \/ Monitor
  BY <1>1 DEF Chip, ChipReceive, CableChanges, Interrupt, EndInt, AltInt, Monitor
<1>2. CASE JobStart \/ RxNull \/ RxDone \/ JobLink
  BY <1>2 DEF JobStart, RxNull, RxDone, JobLink
<1>10. CASE RxSkip
  BY <1>10 DEF RxSkip
<1>11. CASE RxDeliver
  BY <1>11 DEF RxDeliver
<1>7. CASE JobLinkUpdate \/ JobAgain \/ JobNoMore \/ JobLoad \/ JobUnmask \/ JobAfterFree
  BY <1>7 DEF JobLinkUpdate, JobAgain, JobNoMore, JobLoad, JobUnmask, JobAfterFree
<1>3. CASE MuxConnect \/ StartBegin \/ StartEnable
  BY <1>3 DEF MuxConnect, StartBegin, StartEnable, RxFromStart
<1>4. CASE StopMask(FALSE) \/ StopMask(TRUE) \/ StopFree
  <2>1. (late' <=> late \/ LastSteps) /\ expired' = expired
    BY <1>4 DEF StopMask, StopFree
  <2> QED BY <2>1
<1>8. CASE StopDrained
  BY <1>8 DEF StopDrained
<1>12. CASE StopExpires
  BY <1>12 DEF StopExpires
<1>9. CASE UnlinkStopped \/ Unload \/ UnlinkFree
  BY <1>9 DEF UnlinkStopped, Unload, UnlinkFree
<1>5. CASE Polled
  BY <1>5 DEF Polled, PollStart, PollReceive, PollStop
<1>6. CASE UNCHANGED vars
  BY <1>6 DEF vars
<1> QED BY <1>1, <1>2, <1>3, <1>4, <1>5, <1>6, <1>7, <1>8, <1>9, <1>10, <1>11, <1>12
        DEF Next, Job, Control, Stop, Unlink

LEMMA CalmHolds == Spec => []CalmStays
<1>1. Init => CalmStays
  BY DEF Init, CalmStays, Calm
<1>2. Typed /\ Standing /\ Holding /\ CalmStays /\ [Next]_vars => CalmStays'
  <2> SUFFICES ASSUME Typed, Standing, Holding, CalmStays, [Next]_vars, InStep'
               PROVE  Calm' /\ ~fault'
    BY DEF CalmStays
  <2>1. Calm /\ ~fault
    BY InStepBefore DEF CalmStays
  <2> QED BY <2>1, CalmStep
<1> QED BY <1>1, <1>2, GroundHolds, PTL DEF Spec

(* The driver follows a null or stale pointer only after a stop that ran into
   GEI_TIMEOUT, or one that went between the job's last steps: waiting for
   geiIntPending is enough in every other order of interrupts, jobs, link
   changes, starts, stops, unlinking and polled mode. *)
THEOREM NoFaultHolds == Spec => []NoFault
<1>1. CalmStays => NoFault
  BY DEF CalmStays, InStep, NoFault
<1> QED BY <1>1, CalmHolds, PTL

(***************************************************************************)
(* Stretches of the ring, without remainders.                              *)
(***************************************************************************)
(* i lies in the stretch from a up to, not including, b. *)
Between(i, a, b) == IF a <= b THEN a <= i /\ i < b ELSE a <= i \/ i < b

(* The chip fills the slot at the end of the stretch. *)
LEMMA StretchGrows ==
  ASSUME NEW a \in Slots, NEW b \in Slots, NEW i \in Slots, Next1(b) # a
  PROVE  Between(i, a, Next1(b)) <=> Between(i, a, b) \/ i = b
  BY NextSlot DEF Between, Slots

(* The driver takes the slot at its beginning. *)
LEMMA StretchShrinks ==
  ASSUME NEW a \in Slots, NEW b \in Slots, NEW i \in Slots, a # b
  PROVE  Between(i, Next1(a), b) <=> Between(i, a, b) /\ i # a
  BY NextSlot DEF Between, Slots

LEMMA StretchEnds ==
  ASSUME NEW a \in Slots, NEW b \in Slots
  PROVE  ~Between(b, a, b) /\ ~Between(a, a, a) /\ (Between(a, a, b) <=> a # b)
  BY DEF Between, Slots

LEMMA NextIsOneToOne ==
  ASSUME NEW a \in Slots, NEW b \in Slots, Next1(a) = Next1(b)
  PROVE  a = b
  BY NextSlot DEF Slots

(***************************************************************************)
(* The ring itself: the frames are the stretch from geiRxIdx to RDH, and   *)
(* the tail is the slot before geiRxIdx.                                   *)
(***************************************************************************)
Ring ==
  (up /\ ~rebuilt) =>
    /\ Next1(rdt) = rxIdx
    /\ \A i \in Slots : desc[i].dd <=> Between(i, rxIdx, rdh)

(* What the chip does to a descriptor, but for the flag it leaves bad. *)
LEMMA ReceiveEffect ==
  ASSUME Typed, ChipReceive
  PROVE  /\ desc'[rdh].dd /\ desc'[rdh].n = frames + 1
         /\ \A i \in Slots \ {rdh} : desc'[i] = desc[i]
<1>1. PICK bad \in BOOLEAN :
        desc' = [desc EXCEPT ![rdh] = [dd |-> TRUE, n |-> frames + 1, bad |-> bad,
                                       addr |-> devType = "legacy"]]
  BY DEF ChipReceive
<1> DEFINE legacy == devType = "legacy"
<1>2. desc'[rdh] = [dd |-> TRUE, n |-> frames + 1, bad |-> bad, addr |-> legacy]
  BY <1>1 DEF Typed, TypedRing
<1> HIDE DEF legacy
<1>3. desc'[rdh].dd = TRUE /\ desc'[rdh].n = frames + 1
  BY <1>2
<1> QED BY <1>1, <1>3 DEF Typed, TypedRing

(* The driver gives back the frame at geiRxIdx, one way or another. *)
Taking == RxSkip \/ RxDeliver \/ PollReceive

LEMMA TakingEffect ==
  ASSUME Typed, Holding, Taking
  PROVE  /\ desc[rxIdx].dd
         /\ rdt' = rxIdx /\ rxIdx' = Next1(rxIdx) /\ rdh' = rdh
         /\ ~desc'[rxIdx].dd
         /\ \A i \in Slots \ {rxIdx} : desc'[i] = desc[i]
         /\ UNCHANGED << up, rebuilt, frames >>
<1>1. Rearm(TRUE)
  BY GivenBack DEF Taking
<1>2. desc[rxIdx].dd /\ rdh' = rdh
  BY DEF Taking, RxSkip, RxDeliver, PollReceive, InRxLoop
<1>3. UNCHANGED << up, rebuilt, frames >>
  BY DEF Taking, RxSkip, RxDeliver, PollReceive, lifeVars, blame, counts
<1> QED BY <1>1, <1>2, <1>3, RearmEffect

(* The steps that leave the ring alone. *)
LEMMA RingAlone ==
  ASSUME Next, ~ChipReceive, ~Taking, ~StartBegin, ~StartEnable, ~StopFree
  PROVE  UNCHANGED << up, rebuilt, badReset, rxIdx, rxOn, rdh, rdt, desc, frames, delivered, wild >>
<1> USE DEF lifeVars, blame, counts, chip
<1>1. CASE CableChanges \/ Interrupt \/ Monitor
  BY <1>1 DEF CableChanges, Interrupt, EndInt, AltInt, Monitor
<1>2. CASE JobStart \/ RxNull \/ RxDone \/ JobLink \/ JobLinkUpdate
  BY <1>2 DEF JobStart, RxNull, RxDone, JobLink, JobLinkUpdate
<1>3. CASE JobAgain \/ JobNoMore \/ JobLoad \/ JobUnmask \/ JobAfterFree
  BY <1>3 DEF JobAgain, JobNoMore, JobLoad, JobUnmask, JobAfterFree
<1>4. CASE MuxConnect
  BY <1>4 DEF MuxConnect
<1>5. CASE StopMask(FALSE) \/ StopMask(TRUE)
  BY <1>5 DEF StopMask
<1>6. CASE StopDrained \/ StopExpires
  BY <1>6 DEF StopDrained, StopExpires
<1>7. CASE UnlinkStopped \/ Unload \/ UnlinkFree
  BY <1>7 DEF UnlinkStopped, Unload, UnlinkFree
<1>8. CASE PollStart \/ PollStop
  BY <1>8 DEF PollStart, PollStop
<1> QED BY <1>1, <1>2, <1>3, <1>4, <1>5, <1>6, <1>7, <1>8
        DEF Next, Chip, Job, Control, Stop, Unlink, Polled, Taking

(* A start hands over an empty ring, unless the receiver ran meanwhile. *)
LEMMA StartEmpty ==
  ASSUME Typed, Standing, Holding, StartEnable, ~rebuilt
  PROVE  /\ rebuilt' = rebuilt /\ UNCHANGED << desc, frames, delivered >>
         /\ \A i \in Slots : ~desc[i].dd
<1>1. rebuilt' = rebuilt /\ UNCHANGED << desc, frames, delivered >>
  BY DEF StartEnable, RxFromStart, blame, counts
<1>2. ctl = "starting" /\ ~up
  BY DEF StartEnable, RxFromStart, Standing
<1>3. mblk # {}
  <2>1. 0 \in Slots
    BY DEF Slots
  <2> QED BY <1>2, <2>1 DEF Holding
<1> QED BY <1>1, <1>2, <1>3 DEF Holding

LEMMA RingStep ==
  ASSUME Typed, Standing, Holding, Ring, [Next]_vars
  PROVE  Ring'
<1> SUFFICES ASSUME up', ~rebuilt'
             PROVE  /\ Next1(rdt') = rxIdx'
                    /\ \A i \in Slots : desc'[i].dd <=> Between(i, rxIdx', rdh')
  BY DEF Ring
<1>1. CASE ChipReceive
  <2>1. /\ UNCHANGED << up, rebuilt, rdt, rxIdx >>
        /\ rdh # rdt /\ rdh' = Next1(rdh)
    BY <1>1 DEF ChipReceive, lifeVars
  <2>2. Next1(rdt) = rxIdx /\ \A i \in Slots : desc[i].dd <=> Between(i, rxIdx, rdh)
    BY <2>1 DEF Ring
  <2>3. Next1(rdh) # rxIdx
    BY <2>1, <2>2, NextIsOneToOne DEF Typed, TypedRing
  <2>4. desc'[rdh].dd /\ \A i \in Slots \ {rdh} : desc'[i] = desc[i]
    BY <1>1, ReceiveEffect
  <2>5. \A i \in Slots : Between(i, rxIdx, Next1(rdh)) <=> Between(i, rxIdx, rdh) \/ i = rdh
    BY <2>3, StretchGrows DEF Typed, TypedRing
  <2> QED BY <2>1, <2>2, <2>4, <2>5
<1>2. CASE Taking
  <2>1. /\ desc[rxIdx].dd
        /\ rdt' = rxIdx /\ rxIdx' = Next1(rxIdx) /\ rdh' = rdh
        /\ ~desc'[rxIdx].dd
        /\ \A i \in Slots \ {rxIdx} : desc'[i] = desc[i]
        /\ UNCHANGED << up, rebuilt >>
    BY <1>2, TakingEffect
  <2>2. \A i \in Slots : desc[i].dd <=> Between(i, rxIdx, rdh)
    <3>1. up /\ ~rebuilt
      BY <2>1
    <3> QED BY <3>1 DEF Ring
  <2>3. rxIdx # rdh
    BY <2>1, <2>2, StretchEnds DEF Typed, TypedRing
  <2>4. \A i \in Slots : Between(i, Next1(rxIdx), rdh) <=> Between(i, rxIdx, rdh) /\ i # rxIdx
    BY <2>3, StretchShrinks DEF Typed, TypedRing
  <2> QED BY <2>1, <2>2, <2>4
<1>3. CASE StartBegin \/ StopFree
  BY <1>3 DEF StartBegin, MayStart, StopFree
<1>4. CASE StartEnable
  <2>1. 0 \in Slots /\ DescCnt - 1 \in Slots
    BY DEF Slots
  <2>2. Next1(DescCnt - 1) = 0
    BY <2>1, NextSlot
  <2>3. rxIdx' = 0 /\ rdh' = 0 /\ rdt' = DescCnt - 1 /\ desc' = desc /\ ~rebuilt
    BY <1>4 DEF StartEnable, RxFromStart, blame
  <2>4. \A i \in Slots : ~desc[i].dd
    BY <1>4, <2>3, StartEmpty
  <2>5. \A i \in Slots : ~Between(i, 0, 0)
    BY DEF Between, Slots
  <2> QED BY <2>2, <2>3, <2>4, <2>5
<1>5. CASE Next /\ ~ChipReceive /\ ~Taking /\ ~StartBegin /\ ~StartEnable /\ ~StopFree
  BY <1>5, RingAlone DEF Ring
<1>6. CASE UNCHANGED vars
  BY <1>6 DEF vars, lifeVars, blame, chip, Ring
<1> QED BY <1>1, <1>2, <1>3, <1>4, <1>5, <1>6

LEMMA RingHolds == Spec => []Ring
<1>1. Init => Ring
  BY DEF Init, Ring
<1>2. Typed /\ Standing /\ Holding /\ Ring /\ [Next]_vars => Ring'
  BY RingStep
<1> QED BY <1>1, <1>2, GroundHolds, PTL DEF Spec

(***************************************************************************)
(* Buffers.                                                                *)
(***************************************************************************)
LEMMA NoWildStep ==
  ASSUME Typed, Standing, Holding, Ring, NoWildWrite, [Next]_vars
  PROVE  NoWildWrite'
<1> USE DEF blame
<1>1. CASE ChipReceive
  <2> SUFFICES ASSUME ~badReset PROVE ~wild'
    BY <1>1 DEF ChipReceive, NoWildWrite
  <2>1. rxOn /\ rdh \in Slots
    BY <1>1 DEF ChipReceive, Typed, TypedRing
  <2>2. up /\ ~rebuilt /\ mblk = Slots
    BY <2>1 DEF Holding
  <2>3. ~desc[rdh].dd
    BY <2>1, <2>2, StretchEnds DEF Ring, Typed, TypedRing
  <2>4. rdh \in mblk /\ desc[rdh].addr
    BY <2>1, <2>2, <2>3 DEF Holding
  <2>5. ~wild
    BY DEF NoWildWrite
  <2>6. wild' <=> wild \/ rdh \notin mblk \/ ~desc[rdh].addr
    BY <1>1 DEF ChipReceive
  <2> QED BY <2>4, <2>5, <2>6
<1>2. CASE RxSkip
  BY <1>2 DEF NoWildWrite, RxSkip
<1>3. CASE RxDeliver
  BY <1>3 DEF NoWildWrite, RxDeliver
<1>4. CASE PollReceive
  BY <1>4 DEF NoWildWrite, PollReceive
<1>5. CASE StartBegin
  <2>1. wild' = wild /\ (badReset' \/ badReset' = badReset)
    BY <1>5 DEF StartBegin, Reset, ResetWorks, ResetTimesOut
  <2> QED BY <2>1 DEF NoWildWrite
<1>6. CASE StartEnable
  BY <1>6 DEF NoWildWrite, StartEnable, RxFromStart
<1>7. CASE StopFree
  <2>1. wild' = wild /\ (badReset' \/ badReset' = badReset)
    BY <1>7 DEF StopFree, Reset, ResetWorks, ResetTimesOut
  <2> QED BY <2>1 DEF NoWildWrite
<1>8. CASE Next /\ ~ChipReceive /\ ~Taking /\ ~StartBegin /\ ~StartEnable /\ ~StopFree
  BY <1>8, RingAlone DEF NoWildWrite
<1>9. CASE UNCHANGED vars
  BY <1>9 DEF vars, NoWildWrite
<1> QED BY <1>1, <1>2, <1>3, <1>4, <1>5, <1>6, <1>7, <1>8, <1>9 DEF Taking

(* No buffer of the ring is lost but those of a start that failed half-way,
   and the chip writes only into buffers of the ring unless a reset failed:
   whatever stops, starts and polled mode come in between, however frames
   wrap around, and with the descriptors of both formats. *)
THEOREM BuffersHold == Spec => []BuffersAccounted
<1>1. Holding /\ Typed => BuffersReturned
  BY DEF Holding, BuffersReturned
<1>2. Init => NoWildWrite
  BY DEF Init, NoWildWrite
<1>3. Typed /\ Standing /\ Holding /\ Ring /\ NoWildWrite /\ [Next]_vars => NoWildWrite'
  BY NoWildStep
<1>4. BuffersReturned /\ NoWildWrite => BuffersAccounted
  BY DEF BuffersAccounted
<1> QED BY <1>1, <1>2, <1>3, <1>4, GroundHolds, RingHolds, PTL DEF Spec

(***************************************************************************)
(* The order of the frames.                                                *)
(***************************************************************************)
(* How far slot i is from slot r. *)
Place(i, r) == IF r <= i THEN i - r ELSE i - r + DescCnt

LEMMA PlaceInStretch ==
  ASSUME NEW a \in Slots, NEW b \in Slots, NEW i \in Slots, Between(i, a, b)
  PROVE  Place(i, a) < Place(b, a)
  BY DEF Between, Place, Slots

LEMMA PlaceFirst ==
  ASSUME NEW a \in Slots, NEW i \in Slots, i # a
  PROVE  /\ Place(a, a) < Place(i, a)
         /\ Place(i, Next1(a)) = Place(i, a) - 1
         /\ Place(i, a) \in Nat
  BY NextSlot DEF Place, Slots

(* What waits in the ring is newer than what was delivered, and lies there in
   order. *)
Ordered ==
  /\ delivered.last <= frames
  /\ \A i \in Slots : desc[i].dd => desc[i].n <= frames
  /\ (up /\ ~rebuilt) =>
       /\ \A i \in Slots : desc[i].dd => desc[i].n > delivered.last
       /\ \A i, j \in Slots :
            desc[i].dd /\ desc[j].dd /\ Place(i, rxIdx) < Place(j, rxIdx) => desc[i].n < desc[j].n
  /\ ~rebuilt => delivered.inOrder

LEMMA Numbers ==
  ASSUME Typed
  PROVE  frames \in Nat /\ delivered.last \in Nat /\ \A i \in Slots : desc[i].n \in Nat
  BY DEF Typed, TypedHistories, TypedRing, Descriptors

LEMMA OrderedReceive ==
  ASSUME Typed, Ring, Ordered, ChipReceive
  PROVE  Ordered'
<1>1. /\ UNCHANGED << up, rebuilt, rxIdx, delivered >>
      /\ frames' = frames + 1
  BY DEF ChipReceive, lifeVars
<1>2. /\ desc'[rdh].dd /\ desc'[rdh].n = frames + 1
      /\ \A i \in Slots \ {rdh} : desc'[i] = desc[i]
  BY ReceiveEffect
<1>3. \A i \in Slots : desc'[i].dd => desc'[i].n <= frames'
  BY <1>1, <1>2, Numbers DEF Ordered
<1>4. delivered.last <= frames + 1
  BY Numbers DEF Ordered
<1>5. ASSUME up, ~rebuilt
      PROVE  /\ \A i \in Slots : desc'[i].dd => desc'[i].n > delivered.last
             /\ \A i, j \in Slots :
                  desc'[i].dd /\ desc'[j].dd /\ Place(i, rxIdx) < Place(j, rxIdx)
                    => desc'[i].n < desc'[j].n
  <2>1. \A i \in Slots : desc'[i].dd => desc'[i].n > delivered.last
    BY <1>2, <1>5, Numbers DEF Ordered
  <2>2. \A i \in Slots : desc[i].dd => Place(i, rxIdx) < Place(rdh, rxIdx)
    BY <1>5, PlaceInStretch DEF Ring, Typed, TypedRing
  <2> SUFFICES ASSUME NEW i \in Slots, NEW j \in Slots, desc'[i].dd, desc'[j].dd,
                      Place(i, rxIdx) < Place(j, rxIdx)
               PROVE  desc'[i].n < desc'[j].n
    BY <2>1
  <2>3. Place(i, rxIdx) \in Int /\ Place(j, rxIdx) \in Int
    BY DEF Place, Slots, Typed, TypedRing
  <2>4. i # rdh
    BY <1>2, <2>2, <2>3
  <2>5. CASE j = rdh
    BY <1>2, <2>4, <2>5, Numbers DEF Ordered
  <2>6. CASE j # rdh
    BY <1>2, <1>5, <2>4, <2>6 DEF Ordered
  <2> QED BY <2>5, <2>6
<1> QED BY <1>1, <1>3, <1>4, <1>5 DEF Ordered

(* The frame at geiRxIdx is the oldest: what is left is newer. *)
LEMMA OrderedRest ==
  ASSUME Typed, Holding, Ring, Ordered, Taking, up, ~rebuilt
  PROVE  /\ desc[rxIdx].n > delivered.last
         /\ \A i \in Slots : desc'[i].dd => desc'[i].n > desc[rxIdx].n
         /\ \A i, j \in Slots :
              desc'[i].dd /\ desc'[j].dd /\ Place(i, rxIdx') < Place(j, rxIdx')
                => desc'[i].n < desc'[j].n
<1>1. /\ desc[rxIdx].dd /\ rxIdx' = Next1(rxIdx)
      /\ ~desc'[rxIdx].dd
      /\ \A i \in Slots \ {rxIdx} : desc'[i] = desc[i]
  BY TakingEffect
<1>2. rxIdx \in Slots
  BY DEF Typed, TypedRing
<1>3. \A i \in Slots : desc'[i].dd => i # rxIdx /\ desc[i].dd /\ desc'[i] = desc[i]
  BY <1>1
<1>4. \A i \in Slots : i # rxIdx => Place(rxIdx, rxIdx) < Place(i, rxIdx)
  BY <1>2, PlaceFirst
<1>5. \A i \in Slots : desc'[i].dd => desc'[i].n > desc[rxIdx].n
  BY <1>1, <1>2, <1>3, <1>4, Numbers DEF Ordered
<1>6. ASSUME NEW i \in Slots, NEW j \in Slots, desc'[i].dd, desc'[j].dd,
             Place(i, rxIdx') < Place(j, rxIdx')
      PROVE  desc'[i].n < desc'[j].n
  <2>1. i # rxIdx /\ j # rxIdx
    BY <1>3, <1>6
  <2>2. /\ Place(i, rxIdx') = Place(i, rxIdx) - 1 /\ Place(i, rxIdx) \in Nat
        /\ Place(j, rxIdx') = Place(j, rxIdx) - 1 /\ Place(j, rxIdx) \in Nat
    BY <1>1, <1>2, <2>1, PlaceFirst
  <2>3. Place(i, rxIdx) < Place(j, rxIdx)
    BY <1>6, <2>2
  <2> QED BY <1>3, <1>6, <2>3 DEF Ordered
<1>7. desc[rxIdx].n > delivered.last
  BY <1>1, <1>2 DEF Ordered
<1> QED BY <1>5, <1>6, <1>7

(* A step of the job that takes a frame is a step of a running interface, or
   one the ring is not to be trusted with. *)
LEMMA TakingUp ==
  ASSUME Typed, Standing, Holding, RxDeliver \/ PollReceive, ~rebuilt
  PROVE  up
<1>1. CASE RxDeliver
  <2>1. desc[rxIdx].dd /\ rxIdx \in mblk /\ rxIdx \in Slots
    BY <1>1 DEF RxDeliver, InRxLoop, Typed, TypedRing
  <2> QED BY <2>1 DEF Holding
<1>2. CASE PollReceive
  BY <1>2 DEF PollReceive, Standing
<1> QED BY <1>1, <1>2

LEMMA OrderedTake ==
  ASSUME Typed, Standing, Holding, Ring, Ordered, Taking
  PROVE  Ordered'
<1>1. /\ desc[rxIdx].dd /\ ~desc'[rxIdx].dd
      /\ \A i \in Slots \ {rxIdx} : desc'[i] = desc[i]
      /\ UNCHANGED << up, rebuilt, frames >>
  BY TakingEffect
<1>2. rxIdx \in Slots
  BY DEF Typed, TypedRing
<1>3. \A i \in Slots : desc'[i].dd => desc'[i].n <= frames'
  BY <1>1 DEF Ordered
<1>4. CASE delivered' = delivered
  <2>1. ASSUME up, ~rebuilt
        PROVE  \A i \in Slots : desc'[i].dd => desc'[i].n > delivered.last
    BY <1>1, <2>1 DEF Ordered
  <2> QED BY <1>1, <1>3, <1>4, <2>1, OrderedRest DEF Ordered
<1>5. CASE Deliver(desc[rxIdx].n) /\ (RxDeliver \/ PollReceive)
  <2> DEFINE n == desc[rxIdx].n
  <2> DEFINE newer == delivered.inOrder /\ n > delivered.last
  <2>1. delivered' = [last |-> n, inOrder |-> newer]
    BY <1>5 DEF Deliver
  <2>2. newer \in BOOLEAN
    OBVIOUS
  <2> HIDE DEF newer, n
  <2>3. delivered'.last = n /\ delivered'.inOrder = newer
    BY <2>1
  <2>4. n <= frames
    BY <1>1, <1>2 DEF Ordered, n
  <2>5. ~rebuilt => newer
    <3> SUFFICES ASSUME ~rebuilt PROVE newer
      OBVIOUS
    <3>1. up
      BY <1>5, TakingUp
    <3>2. n > delivered.last
      BY <3>1, OrderedRest DEF n
    <3> QED BY <3>2 DEF newer, Ordered
  <2>6. ~rebuilt => delivered'.inOrder
    BY <2>2, <2>3, <2>5
  <2>7. ASSUME up, ~rebuilt
        PROVE  \A i \in Slots : desc'[i].dd => desc'[i].n > delivered'.last
    BY <2>3, <2>7, OrderedRest DEF n
  <2> QED BY <1>1, <1>3, <2>3, <2>4, <2>6, <2>7, OrderedRest DEF Ordered
<1> QED BY <1>4, <1>5 DEF Taking, RxSkip, RxDeliver, DeliverLegacy, DeliverAdvanced, PollReceive

LEMMA OrderedStep ==
  ASSUME Typed, Standing, Holding, Ring, Ordered, [Next]_vars
  PROVE  Ordered'
<1>1. CASE ChipReceive
  BY <1>1, OrderedReceive
<1>2. CASE Taking
  BY <1>2, OrderedTake
<1>3. CASE StartBegin
  <2>1. ~up' /\ UNCHANGED << frames, delivered >> /\ (rebuilt' <=> rebuilt \/ rxOn')
    BY <1>3 DEF StartBegin, MayStart
  <2>2. \A i \in Slots : ~desc'[i].dd
    BY <1>3 DEF StartBegin, EmptyDesc
  <2> QED BY <2>1, <2>2 DEF Ordered
<1>4. CASE StartEnable
  <2>1. rebuilt' = rebuilt /\ UNCHANGED << frames, delivered, desc >>
    BY <1>4 DEF StartEnable, RxFromStart, counts, blame
  <2>2. ~rebuilt => \A i \in Slots : ~desc[i].dd
    BY <1>4, StartEmpty
  <2> QED BY <2>1, <2>2 DEF Ordered
<1>5. CASE StopFree
  <2>1. ~up' /\ UNCHANGED << frames, delivered, desc, rebuilt >>
    BY <1>5 DEF StopFree
  <2> QED BY <2>1 DEF Ordered
<1>6. CASE Next /\ ~ChipReceive /\ ~Taking /\ ~StartBegin /\ ~StartEnable /\ ~StopFree
  BY <1>6, RingAlone DEF Ordered
<1>7. CASE UNCHANGED vars
  BY <1>7 DEF vars, lifeVars, blame, chip, counts, Ordered
<1> QED BY <1>1, <1>2, <1>3, <1>4, <1>5, <1>6, <1>7

(* Frames reach the protocols in the order of the wire and none twice, by the
   job and in polled mode and when they take turns, unless a start rebuilt the
   ring while the receiver ran. *)
THEOREM OrderHolds == Spec => []DeliveredInOrder
<1>1. Init => Ordered
  BY DEF Init, EmptyDesc, Ordered
<1>2. Typed /\ Standing /\ Holding /\ Ring /\ Ordered /\ [Next]_vars => Ordered'
  BY OrderedStep
<1>3. Ordered => DeliveredInOrder
  BY DEF Ordered, DeliveredInOrder
<1> QED BY <1>1, <1>2, <1>3, GroundHolds, RingHolds, PTL DEF Spec

(***************************************************************************)
(* What is announced.                                                      *)
(***************************************************************************)
(* A frame that waits is announced by the chip or known to the software, and
   what the software knows of it a job remembers. *)
Announced ==
  /\ moreRx => (job = "idle" /\ queued) \/ (job \in {"link", "devsem", "check"} /\ left = 0)
  /\ (up /\ desc[rxIdx].dd /\ ~polled /\ ~rebuilt) => "rx" \in icr \/ moreRx \/ job = "rx"

LEMMA AnnouncedStep ==
  ASSUME Typed, Standing, Holding, Announced, [Next]_vars
  PROVE  Announced'
<1> USE DEF lifeVars, jobVars, blame, chip
<1>1. CASE ChipReceive
  BY <1>1 DEF ChipReceive, Announced
<1>2. CASE CableChanges
  BY <1>2 DEF CableChanges, Announced
<1>3. CASE EndInt
  BY <1>3 DEF EndInt, PostJob, Announced
<1>4. CASE AltInt
  BY <1>4 DEF AltInt, PostJob, Announced
<1>5. CASE Monitor
  BY <1>5 DEF Monitor, Announced
<1>6. CASE JobStart
  <2>1. UNCHANGED << up, desc, rxIdx, polled, rebuilt >> /\ job = "idle" /\ ~moreRx'
    BY <1>6 DEF JobStart
  <2>2. ("rx" \in icr \/ moreRx) => job' = "rx"
    BY <1>6 DEF JobStart
  <2> QED BY <2>1, <2>2 DEF Announced
<1>7. CASE RxSkip
  <2>1. job = "rx" /\ job' = "rx" /\ moreRx' = moreRx
    BY <1>7 DEF RxSkip, InRxLoop
  <2> QED BY <2>1 DEF Announced
<1>8. CASE RxDeliver
  <2>1. job = "rx" /\ job' = "rx" /\ moreRx' = moreRx
    BY <1>8 DEF RxDeliver, InRxLoop
  <2> QED BY <2>1 DEF Announced
<1>9. CASE RxNull
  BY <1>9 DEF RxNull, Announced
<1>10. CASE RxDone
  <2>1. /\ UNCHANGED << up, desc, rxIdx, polled, rebuilt, left >> /\ job' = "link"
        /\ moreRx' <=> left = 0
        /\ left = 0 \/ ~desc[rxIdx].dd
    BY <1>10 DEF RxDone
  <2> QED BY <2>1 DEF Announced
<1>11. CASE JobLink
  <2>1. job = "link" /\ job' \in {"devsem", "check"}
    BY <1>11 DEF JobLink
  <2> QED BY <1>11, <2>1 DEF JobLink, Announced
<1>12. CASE JobLinkUpdate
  BY <1>12 DEF JobLinkUpdate, Announced
<1>13. CASE JobAgain
  BY <1>13 DEF JobAgain, Announced
<1>14. CASE JobNoMore
  BY <1>14 DEF JobNoMore, MoreToDo, Announced
<1>15. CASE JobLoad \/ JobUnmask
  BY <1>15 DEF JobLoad, JobUnmask, Announced
<1>16. CASE JobAfterFree
  BY <1>16 DEF JobAfterFree, Announced
<1>17. CASE MuxConnect
  <2>1. ~up
    BY <1>17 DEF MuxConnect, Standing
  <2> QED BY <1>17, <2>1 DEF MuxConnect, Announced
<1>18. CASE StartBegin
  BY <1>18 DEF StartBegin, MayStart, Announced
<1>19. CASE StartEnable
  <2>1. moreRx' = FALSE /\ rxIdx' = 0 /\ desc' = desc /\ rebuilt' = rebuilt
    BY <1>19 DEF StartEnable, RxFromStart
  <2>2. ~rebuilt => \A i \in Slots : ~desc[i].dd
    BY <1>19, StartEmpty
  <2>3. 0 \in Slots
    BY DEF Slots
  <2> QED BY <2>1, <2>2, <2>3 DEF Announced
<1>20. CASE StopMask(FALSE) \/ StopMask(TRUE)
  BY <1>20 DEF StopMask, Announced
<1>21. CASE StopDrained \/ StopExpires
  BY <1>21 DEF StopDrained, StopExpires, Announced
<1>22. CASE StopFree
  BY <1>22 DEF StopFree, Announced
<1>23. CASE UnlinkStopped \/ Unload \/ UnlinkFree
  BY <1>23 DEF UnlinkStopped, Unload, UnlinkFree, Announced
<1>24. CASE PollStart \/ PollStop
  BY <1>24 DEF PollStart, PollStop, Announced
<1>25. CASE PollReceive
  BY <1>25 DEF PollReceive, Announced
<1>26. CASE UNCHANGED vars
  BY <1>26 DEF vars, Announced
<1> QED BY <1>1, <1>2, <1>3, <1>4, <1>5, <1>6, <1>7, <1>8, <1>9, <1>10, <1>11, <1>12, <1>13,
           <1>14, <1>15, <1>16, <1>17, <1>18, <1>19, <1>20, <1>21, <1>22, <1>23, <1>24, <1>25,
           <1>26
        DEF Next, Chip, Interrupt, Job, Control, Stop, Unlink, Polled

(* What is of interest interrupts once the job has run and polled mode is
   over: it is in IMS, or in what either of them will put back. *)
Interesting ==
  (up /\ ~queued /\ job \in {"unmask", "idle"}) => intrs \subseteq mask \cup ims \cup saved

LEMMA InterestingStep ==
  ASSUME Typed, Standing, Interesting, [Next]_vars
  PROVE  Interesting'
<1> USE DEF Interesting, lifeVars, jobVars, pollVars, chip
<1>1. CASE Chip
  BY <1>1 DEF Chip, ChipReceive, CableChanges
<1>2. CASE EndInt
  BY <1>2 DEF EndInt, PostJob
<1>3. CASE AltInt
  BY <1>3 DEF AltInt, PostJob
<1>4. CASE Monitor
  <2>1. intrs' \subseteq intrs
    BY <1>4 DEF Monitor, LinkUpdate, PhyReadFails, LinkLearned, IdleErrors
  <2> QED BY <1>4, <2>1 DEF Monitor
<1>5. CASE JobStart
  <2>1. job' \notin {"unmask", "idle"}
    BY <1>5 DEF JobStart
  <2> QED BY <2>1
<1>6. CASE RxSkip
  BY <1>6 DEF RxSkip, InRxLoop
<1>7. CASE RxDeliver
  BY <1>7 DEF RxDeliver, InRxLoop
<1>8. CASE RxNull \/ RxDone \/ JobLinkUpdate
  BY <1>8 DEF RxNull, RxDone, JobLinkUpdate
<1>9. CASE JobLink
  <2>1. job' \notin {"unmask", "idle"}
    BY <1>9 DEF JobLink
  <2> QED BY <2>1
<1>10. CASE JobAgain \/ JobNoMore
  BY <1>10 DEF JobAgain, JobNoMore
<1>11. CASE JobLoad
  BY <1>11 DEF JobLoad
<1>12. CASE JobUnmask
  BY <1>12 DEF JobUnmask
<1>13. CASE JobAfterFree
  BY <1>13 DEF JobAfterFree
<1>14. CASE MuxConnect
  <2>1. ~up /\ up' = up
    BY <1>14 DEF MuxConnect, Standing
  <2> QED BY <2>1
<1>15. CASE StartBegin
  BY <1>15 DEF StartBegin, MayStart
<1>16. CASE StartEnable
  BY <1>16 DEF StartEnable, RxFromStart
<1>17. CASE StopMask(FALSE) \/ StopMask(TRUE)
  BY <1>17 DEF StopMask
<1>18. CASE StopDrained \/ StopExpires
  BY <1>18 DEF StopDrained, StopExpires
<1>19. CASE StopFree
  BY <1>19 DEF StopFree
<1>20. CASE UnlinkStopped \/ Unload \/ UnlinkFree
  BY <1>20 DEF UnlinkStopped, Unload, UnlinkFree
<1>21. CASE PollStart
  BY <1>21 DEF PollStart, TasksRun, Standing
<1>22. CASE PollReceive
  BY <1>22 DEF PollReceive
<1>23. CASE PollStop
  BY <1>23 DEF PollStop
<1>24. CASE UNCHANGED vars
  BY <1>24 DEF vars
<1> QED BY <1>1, <1>2, <1>3, <1>4, <1>5, <1>6, <1>7, <1>8, <1>9, <1>10, <1>11, <1>12, <1>13,
           <1>14, <1>15, <1>16, <1>17, <1>18, <1>19, <1>20, <1>21, <1>22, <1>23, <1>24
        DEF Next, Interrupt, Job, Control, Stop, Unlink, Polled

LEMMA LinkLearnedOnce ==
  ASSUME Typed, LinkAnnounced, LinkUpdate, up' = up
  PROVE  LinkAnnounced'
  BY DEF LinkAnnounced, LinkUpdate, PhyReadFails, LinkLearned, IdleErrors, Typed, TypedFlags, IsFlag

LEMMA LinkStep ==
  ASSUME Typed, LinkAnnounced, [Next]_vars
  PROVE  LinkAnnounced'
<1> USE DEF lifeVars, linkVars
<1>1. CASE Chip \/ Interrupt
  BY <1>1 DEF Chip, ChipReceive, CableChanges, Interrupt, EndInt, AltInt, LinkAnnounced
<1>2. CASE Monitor \/ JobLinkUpdate
  BY <1>2, LinkLearnedOnce DEF Monitor, JobLinkUpdate
<1>3. CASE JobStart \/ RxNull \/ RxDone \/ JobLink
  BY <1>3 DEF JobStart, RxNull, RxDone, JobLink, LinkAnnounced
<1>4. CASE RxSkip
  BY <1>4 DEF RxSkip, LinkAnnounced
<1>5. CASE RxDeliver
  BY <1>5 DEF RxDeliver, LinkAnnounced
<1>6. CASE JobAgain \/ JobNoMore \/ JobLoad \/ JobUnmask \/ JobAfterFree
  BY <1>6 DEF JobAgain, JobNoMore, JobLoad, JobUnmask, JobAfterFree, LinkAnnounced
<1>7. CASE MuxConnect
  BY <1>7 DEF MuxConnect, LinkAnnounced
<1>8. CASE StartBegin
  BY <1>8 DEF StartBegin, LinkAnnounced
<1>9. CASE StartEnable
  BY <1>9 DEF StartEnable, RxFromStart, LinkAnnounced
<1>10. CASE StopMask(FALSE) \/ StopMask(TRUE)
  BY <1>10 DEF StopMask, LinkAnnounced
<1>11. CASE StopDrained \/ StopExpires
  BY <1>11 DEF StopDrained, StopExpires, LinkAnnounced
<1>12. CASE StopFree
  BY <1>12 DEF StopFree, LinkAnnounced
<1>13. CASE UnlinkStopped \/ Unload \/ UnlinkFree
  BY <1>13 DEF UnlinkStopped, Unload, UnlinkFree, LinkAnnounced
<1>14. CASE PollStart \/ PollStop
  BY <1>14 DEF PollStart, PollStop, LinkAnnounced
<1>15. CASE PollReceive
  BY <1>15 DEF PollReceive, LinkAnnounced
<1>16. CASE UNCHANGED vars
  BY <1>16 DEF vars, LinkAnnounced
<1> QED BY <1>1, <1>2, <1>3, <1>4, <1>5, <1>6, <1>7, <1>8, <1>9, <1>10, <1>11, <1>12, <1>13,
           <1>14, <1>15, <1>16
        DEF Next, Job, Control, Stop, Unlink, Polled

(***************************************************************************)
(* From stretches to remainders.                                           *)
(***************************************************************************)
LEMMA ModSmall ==
  ASSUME NEW d \in Nat \ {0}, NEW x \in 0 .. d - 1
  PROVE  x % d = x
  BY SMT

LEMMA ModOnce ==
  ASSUME NEW d \in Nat \ {0}, NEW x \in d .. 2 * d - 1
  PROVE  x % d = x - d
  BY SMT

LEMMA ModBelow ==
  ASSUME NEW d \in Nat \ {0}, NEW x \in -d .. -1
  PROVE  x % d = x + d
  BY SMT

LEMMA StretchLength ==
  ASSUME NEW a \in Slots, NEW b \in Slots
  PROVE  (b - a) % DescCnt = Place(b, a)
<1>1. CASE a <= b
  <2>1. b - a \in 0 .. DescCnt - 1
    BY <1>1 DEF Slots
  <2> QED BY <1>1, <2>1, ModSmall DEF Place
<1>2. CASE ~(a <= b)
  <2>1. b - a \in -DescCnt .. -1
    BY <1>2 DEF Slots
  <2> QED BY <1>2, <2>1, ModBelow DEF Place
<1> QED BY <1>1, <1>2

LEMMA StretchSlot ==
  ASSUME NEW a \in Slots, NEW k \in Slots
  PROVE  (a + k) % DescCnt = (IF a + k < DescCnt THEN a + k ELSE a + k - DescCnt)
<1>1. CASE a + k < DescCnt
  <2>1. a + k \in 0 .. DescCnt - 1
    BY <1>1 DEF Slots
  <2> QED BY <1>1, <2>1, ModSmall
<1>2. CASE ~(a + k < DescCnt)
  <2> DEFINE x == a + k
  <2>1. x \in DescCnt .. 2 * DescCnt - 1 /\ DescCnt \in Nat \ {0}
    BY <1>2 DEF Slots
  <2> HIDE DEF x
  <2>2. x % DescCnt = x - DescCnt
    BY ONLY <2>1, ModOnce
  <2> QED BY <1>2, <2>2 DEF x, Slots
<1> QED BY <1>1, <1>2

(* The stretch from a to b, as RingAgrees has it. *)
LEMMA StretchAsSet ==
  ASSUME NEW a \in Slots, NEW b \in Slots
  PROVE  {i \in Slots : Between(i, a, b)} = {(a + k) % DescCnt : k \in 0 .. ((b - a) % DescCnt) - 1}
<1>1. (b - a) % DescCnt = Place(b, a) /\ Place(b, a) \in Slots
  BY StretchLength DEF Place, Slots
<1>2. ASSUME NEW i \in Slots, Between(i, a, b)
      PROVE  \E k \in 0 .. Place(b, a) - 1 : i = (a + k) % DescCnt
  <2>1. Place(i, a) \in Slots /\ Place(i, a) \in 0 .. Place(b, a) - 1
    BY <1>2 DEF Place, Between, Slots
  <2>2. (a + Place(i, a)) % DescCnt = i
    <3>1. (a + Place(i, a)) % DescCnt
            = (IF a + Place(i, a) < DescCnt THEN a + Place(i, a) ELSE a + Place(i, a) - DescCnt)
      BY <2>1, StretchSlot
    <3>2. i = (IF a + Place(i, a) < DescCnt THEN a + Place(i, a) ELSE a + Place(i, a) - DescCnt)
      BY DEF Place, Slots
    <3> QED BY <3>1, <3>2
  <2> QED BY <2>1, <2>2
<1>3. ASSUME NEW k \in 0 .. Place(b, a) - 1
      PROVE  (a + k) % DescCnt \in Slots /\ Between((a + k) % DescCnt, a, b)
  <2>1. k \in Slots
    BY <1>1, <1>3 DEF Slots
  <2>2. (a + k) % DescCnt = (IF a + k < DescCnt THEN a + k ELSE a + k - DescCnt)
    BY <2>1, StretchSlot
  <2> DEFINE s == IF a + k < DescCnt THEN a + k ELSE a + k - DescCnt
  <2>3. s \in Slots /\ Between(s, a, b)
    BY <1>3, <2>1 DEF Place, Between, Slots
  <2> QED BY <2>2, <2>3
<1> QED BY <1>1, <1>2, <1>3

LEMMA RingIsAgreed ==
  ASSUME Typed, Holding, Ring
  PROVE  RingAgrees
<1> SUFFICES ASSUME up, ~rebuilt
             PROVE  /\ mblk = Slots
                    /\ Next1(rdt) = rxIdx
                    /\ {i \in Slots : desc[i].dd} =
                         {(rxIdx + k) % DescCnt : k \in 0 .. ((rdh - rxIdx) % DescCnt) - 1}
  BY DEF RingAgrees
<1>1. mblk = Slots /\ Next1(rdt) = rxIdx
  BY DEF Holding, Ring
<1>2. {i \in Slots : desc[i].dd} = {i \in Slots : Between(i, rxIdx, rdh)}
  BY DEF Ring
<1> QED BY <1>1, <1>2, StretchAsSet DEF Typed, TypedRing

(* Driver, chip, job queue and MUX agree whatever interrupts, starts, stops
   and polled mode come in between: on the ring, on what is to be taken from
   it, on what interrupts and on the link. *)
THEOREM AgreementHolds == Spec => []AllAgree
<1>1. Init => Announced /\ Interesting /\ LinkAnnounced
  BY DEF Init, Announced, Interesting, LinkAnnounced
<1>2. Typed /\ Standing /\ Holding /\ Announced /\ [Next]_vars => Announced'
  BY AnnouncedStep
<1>3. Typed /\ Standing /\ Interesting /\ [Next]_vars => Interesting'
  BY InterestingStep
<1>4. Typed /\ LinkAnnounced /\ [Next]_vars => LinkAnnounced'
  BY LinkStep
<1>5. Typed /\ Standing /\ Holding /\ Ring /\ Announced /\ Interesting /\ LinkAnnounced => AllAgree
  <2> SUFFICES ASSUME Typed, Standing, Holding, Ring, Announced, Interesting, LinkAnnounced
               PROVE  AllAgree
    OBVIOUS
  <2>1. FrameAnnounced
    BY DEF FrameAnnounced, Announced
  <2>2. Unmasked
    BY DEF Unmasked, Interesting, Standing
  <2> QED BY <2>1, <2>2, TypedIsTypeOK, RingIsAgreed DEF AllAgree
<1> QED BY <1>1, <1>2, <1>3, <1>4, <1>5, GroundHolds, RingHolds, PTL DEF Spec
=============================================================================
