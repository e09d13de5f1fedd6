--------------------------- MODULE RxRing_proofs ---------------------------
(***************************************************************************)
(* Proofs about RxRing, for a ring of any size, any budget and any frames. *)
(***************************************************************************)
EXTENDS RxRing, TLAPS

(* What the device's operations have built so far, and have taken away. *)
Empty == dev = "closed" => \A i \in Slots : databuff[i] = FALSE /\ desc[i].eor = FALSE

Filling ==
    dev = "fill" => \A i \in Slots : (databuff[i] = TRUE <=> i < dk) /\ desc[i].eor = FALSE

Built ==
    dev \notin {"closed", "fill"} =>
        \A i \in Slots : databuff[i] = TRUE /\ (desc[i].eor = TRUE <=> i = NumRxDesc - 1)

(* Where the poll and the chip are known to be stopped. *)
Quiet ==
    dev \in {"closed", "fill", "filled", "rx_close", "hw_reset", "indexes", "clear",
             "mark", "asleep"}
        => rpc = "idle" /\ napi = "off"

ChipOff ==
    dev \in {"closed", "fill", "filled", "asleep", "indexes", "clear", "mark"}
        => nic.on = FALSE

(* What rtl_rx remembers of the descriptor it is releasing. *)
Remembers ==
    /\ rpc = "hand" => rp.eor = desc[Entry].eor
    /\ rpc \notin {"idle", "status"} => rp.count < Budget

Shaped == Empty /\ Filling /\ Built
Placed == Quiet /\ ChipOff /\ Remembers

IInv == TypeOK /\ Shaped /\ Placed

-----------------------------------------------------------------------------
(* The ring index stays in range and always names a descriptor. *)
LEMMA EntryInSlots ==
  ASSUME cur_rx \in Index
  PROVE  Entry \in Slots /\ (cur_rx + 1) % U32 \in Index /\ 0 \in Index
  BY RxRingAssumption DEF Entry, Slots, Index

(* Handing a descriptor to the chip keeps the ring's shape: the bit that    *)
(* closes the ring is the one that was there (rtl8169_mark_to_asic).        *)
LEMMA MarkKeepsEnd ==
  ASSUME desc \in RingType, NEW i \in Slots
  PROVE  /\ ClearTag(desc, i) \in RingType
         /\ \A end \in BOOLEAN : HandOver(desc, i, end) \in RingType
         /\ MarkToAsic(desc, i) \in RingType
         /\ \A j \in Slots :
              /\ ClearTag(desc, i)[j].eor = desc[j].eor
              /\ HandOver(desc, i, desc[i].eor)[j].eor = desc[j].eor
              /\ MarkToAsic(desc, i)[j].eor = desc[j].eor
<1>1. ASSUME NEW d \in DescType, NEW end \in BOOLEAN
      PROVE  /\ [d EXCEPT !.tag = NoFrame] \in DescType
             /\ [d EXCEPT !.tag = NoFrame].eor = d.eor
             /\ [d EXCEPT !.own = TRUE, !.eor = end, !.status = NoFrame] \in DescType
             /\ [d EXCEPT !.own = TRUE, !.eor = end, !.status = NoFrame].eor = end
  BY DEF DescType, FrameOrNo
<1>2. ASSUME NEW ds \in RingType, NEW end \in BOOLEAN
      PROVE  /\ HandOver(ds, i, end) \in RingType
             /\ HandOver(ds, i, end)[i].eor = end
             /\ \A j \in Slots \ {i} : HandOver(ds, i, end)[j] = ds[j]
  <2> DEFINE new == [ds[i] EXCEPT !.own = TRUE, !.eor = end, !.status = NoFrame]
  <2>1. HandOver(ds, i, end) = [ds EXCEPT ![i] = new]
    BY DEF HandOver, RingType
  <2>2. new \in DescType /\ new.eor = end
    BY <1>1 DEF RingType
  <2> HIDE DEF new
  <2> QED
    BY <2>1, <2>2 DEF RingType
<1>3. /\ ClearTag(desc, i) \in RingType
      /\ \A j \in Slots : ClearTag(desc, i)[j].eor = desc[j].eor
  <2> DEFINE new == [desc[i] EXCEPT !.tag = NoFrame]
  <2>1. ClearTag(desc, i) = [desc EXCEPT ![i] = new]
    BY DEF ClearTag, RingType
  <2>2. new \in DescType /\ new.eor = desc[i].eor
    BY <1>1 DEF RingType
  <2> HIDE DEF new
  <2> QED
    BY <2>1, <2>2 DEF RingType
<1>4. desc[i].eor \in BOOLEAN
  BY DEF RingType, DescType
<1>5. \A ds \in RingType : \A j \in Slots :
        ds[j].eor = desc[j].eor => HandOver(ds, i, desc[i].eor)[j].eor = desc[j].eor
  BY <1>2, <1>4
<1> QED
  BY <1>2, <1>3, <1>4, <1>5 DEF MarkToAsic

(* Freeing the pages allocated so far, up to the first missing one, frees   *)
(* all of them when they were allocated in order (rtl8169_rx_clear).        *)
LEMMA ClearFreesAll ==
  ASSUME NEW n \in 0 .. NumRxDesc, NEW b \in [Slots -> BOOLEAN],
         \A i \in Slots : b[i] = TRUE <=> i < n
  PROVE  /\ RxClear(b) \in [Slots -> BOOLEAN]
         /\ \A i \in Slots : RxClear(b)[i] = FALSE
<1>1. ASSUME NEW i \in Slots PROVE b[i] => Before(b, i)
  BY <1>1, RxRingAssumption DEF Before, Slots
<1>2. \A i \in Slots : RxClear(b)[i] = FALSE
  BY <1>1 DEF RxClear
<1> QED
  BY <1>2 DEF RxClear

-----------------------------------------------------------------------------
(* The invariant holds before the first open. *)
LEMMA InitInv == Init => IInv
<1> SUFFICES ASSUME Init PROVE IInv
  OBVIOUS
<1>1. NoDesc \in DescType /\ NoRp \in RpType
  BY RxRingAssumption DEF NoDesc, NoRp, DescType, RpType, FrameOrNo
<1>2. nic \in NicType /\ handed \in HandedType
  BY RxRingAssumption DEF Init, NicType, HandedType, FrameOrNo, Slots
<1>3. desc \in RingType /\ cur_rx \in Index /\ dk \in 0 .. NumRxDesc /\ ops \in 0 .. MaxOps
  BY <1>1, RxRingAssumption DEF Init, RingType, Index
<1>4. TypeOK
  BY <1>1, <1>2, <1>3 DEF Init, TypeOK, FrameOrNo, DevPlaces, PollPlaces
<1> QED
  BY <1>4
  DEF Init, IInv, Shaped, Placed, Empty, Filling, Built, Quiet, ChipOff, Remembers, NoDesc

-----------------------------------------------------------------------------
(* Every step keeps the types. *)
LEMMA TypeStep == IInv /\ [Next]_vars => TypeOK'
<1> SUFFICES ASSUME IInv, [Next]_vars PROVE TypeOK'
  OBVIOUS
<1> USE DEF IInv, Shaped, Placed
<1>0. NumRxDesc \in Nat \ {0} /\ 0 \in Slots
  BY RxRingAssumption DEF Slots
<1>a. Entry \in Slots /\ (cur_rx + 1) % U32 \in Index /\ 0 \in Index
  BY EntryInSlots DEF TypeOK
<1>b. /\ ClearTag(desc, Entry) \in RingType /\ HandOver(desc, Entry, rp.eor) \in RingType
      /\ [i \in Slots |-> NoDesc] \in RingType
  <2>1. rp.eor \in BOOLEAN
    BY DEF TypeOK, RpType
  <2> QED
    BY <1>a, <2>1, MarkKeepsEnd DEF TypeOK, RingType, NoDesc, DescType, FrameOrNo
<1>c. \A i \in Slots : desc[i] \in DescType /\ page[i] \in FrameOrNo
  BY DEF TypeOK, RingType
<1>1. ASSUME PollBegin PROVE TypeOK'
  <2>1. NoRp \in RpType
    BY RxRingAssumption DEF NoRp, RpType, FrameOrNo
  <2> QED
    BY <1>1, <2>1 DEF PollBegin, TypeOK, PollPlaces, ringv, devv
<1>2. ASSUME ReadStatus PROVE TypeOK'
  <2>1. rp' \in RpType
    BY <1>2, <1>a, <1>c DEF ReadStatus, TypeOK, RpType, DescType
  <2> QED
    BY <1>2, <2>1 DEF ReadStatus, TypeOK, PollPlaces, ringv, devv
<1>3. ASSUME Judge PROVE TypeOK'
  BY <1>3 DEF Judge, TypeOK, DevPlaces, PollPlaces, ringv, pollv, devv
<1>4. ASSUME NoSkb PROVE TypeOK'
  BY <1>4 DEF NoSkb, TypeOK, DevPlaces, PollPlaces, ringv, pollv, devv
<1>5. ASSUME Copy PROVE TypeOK'
  <2>1. rp' \in RpType
    BY <1>5, <1>a, <1>c DEF Copy, TypeOK, RpType
  <2> QED
    BY <1>5, <2>1 DEF Copy, TypeOK, PollPlaces, ringv, devv
<1>6. ASSUME Deliver PROVE TypeOK'
  <2>1. handed' \in HandedType
    BY <1>6, <1>a, <1>c DEF Deliver, TypeOK, RpType, DescType, HandedType
  <2> QED
    BY <1>6, <2>1 DEF Deliver, TypeOK, PollPlaces, ringv, devv
<1>7. ASSUME ReleaseTag PROVE TypeOK'
  <2>1. rp' \in RpType
    BY <1>7, <1>a, <1>c DEF ReleaseTag, TypeOK, RpType, DescType
  <2> QED
    BY <1>7, <1>b, <2>1 DEF ReleaseTag, TypeOK, PollPlaces, devv
<1>8. ASSUME ReleaseOwn PROVE TypeOK'
  <2>1. rp.count + 1 \in 0 .. Budget
    BY <1>8, RxRingAssumption DEF ReleaseOwn, Remembers, TypeOK, RpType
  <2>2. rp' \in RpType
    BY <1>8, <2>1 DEF ReleaseOwn, TypeOK, RpType
  <2> QED
    BY <1>8, <1>a, <1>b, <2>2 DEF ReleaseOwn, TypeOK, PollPlaces, devv
<1>9. ASSUME Open PROVE TypeOK'
  <2>1. 0 \in 0 .. NumRxDesc
    BY RxRingAssumption
  <2> QED
    BY <1>9, <1>a, <2>1 DEF Open, TypeOK, DevPlaces, pollv
<1>10. ASSUME AllocRxData PROVE TypeOK'
  <2>1. dk \in Slots /\ dk + 1 \in 0 .. NumRxDesc
    BY <1>10, <1>0 DEF AllocRxData, TypeOK, Slots
  <2>2. MarkToAsic(desc, dk) \in RingType
    BY <2>1, MarkKeepsEnd DEF TypeOK
  <2>3. databuff' \in [Slots -> BOOLEAN]
    BY <1>10 DEF AllocRxData, TypeOK
  <2> QED
    BY <1>10, <2>1, <2>2, <2>3 DEF AllocRxData, TypeOK, pollv
<1>11. ASSUME OpenFails PROVE TypeOK'
  <2>1. databuff' \in [Slots -> BOOLEAN] /\ page' \in [Slots -> FrameOrNo]
    BY <1>11 DEF OpenFails, FreeRing, RxClear, TypeOK, FrameOrNo
  <2> QED
    BY <1>11, <1>b, <2>1 DEF OpenFails, FreeRing, TypeOK, DevPlaces, pollv
<1>12. ASSUME RingFilled PROVE TypeOK'
  <2>1. NumRxDesc - 1 \in Slots
    BY RxRingAssumption DEF Slots
  <2>2. [desc[NumRxDesc - 1] EXCEPT !.eor = TRUE] \in DescType
    BY <1>c, <2>1 DEF DescType
  <2>3. desc' \in RingType
    BY <1>12, <2>1, <2>2 DEF RingFilled, TypeOK, RingType
  <2> QED
    BY <1>12, <2>3 DEF RingFilled, TypeOK, DevPlaces, pollv
<1>13. ASSUME Up PROVE TypeOK'
  <2>1. nic' \in NicType
    BY <1>13 DEF Up, TypeOK, NicType, FrameOrNo
  <2> QED
    BY <1>13, <2>1 DEF Up, TypeOK, DevPlaces, ringv, pollv
<1>14. ASSUME FeaturesSet PROVE TypeOK'
  <2>1. (~rxall) \in BOOLEAN
    OBVIOUS
  <2> QED
    BY <1>14, <2>1 DEF FeaturesSet, TypeOK, DevPlaces, ringv, pollv
<1>15. ASSUME NapiDisable PROVE TypeOK'
  BY <1>15 DEF NapiDisable, TypeOK, DevPlaces, PollPlaces, ringv, pollv, devv
<1>16. ASSUME Drained PROVE TypeOK'
  BY <1>16 DEF Drained, TypeOK, DevPlaces, PollPlaces, ringv, pollv, devv
<1>17. ASSUME RxClose PROVE TypeOK'
  <2>1. nic' \in NicType
    BY <1>17 DEF RxClose, TypeOK, NicType, FrameOrNo
  <2> QED
    BY <1>17, <2>1 DEF RxClose, TypeOK, DevPlaces, ringv, pollv
<1>18. ASSUME HwReset PROVE TypeOK'
  <2>1. nic' \in NicType
    BY <1>18 DEF HwReset, TypeOK, NicType, FrameOrNo
  <2> QED
    BY <1>18, <2>1 DEF HwReset, TypeOK, DevPlaces, ringv, pollv
<1>19. ASSUME InitRingIndexes PROVE TypeOK'
  <2>1. 0 \in 0 .. NumRxDesc
    BY RxRingAssumption
  <2> QED
    BY <1>19, <1>a, <2>1 DEF InitRingIndexes, AfterCleanup, TypeOK, DevPlaces, pollv
<1>20. ASSUME Clear PROVE TypeOK'
  <2>1. databuff' \in [Slots -> BOOLEAN] /\ page' \in [Slots -> FrameOrNo]
    BY <1>20 DEF Clear, FreeRing, RxClear, TypeOK, FrameOrNo
  <2> QED
    BY <1>20, <1>b, <2>1 DEF Clear, FreeRing, TypeOK, DevPlaces, pollv
<1>21. ASSUME Mark PROVE TypeOK'
  <2>1. dk \in Slots /\ dk + 1 \in 0 .. NumRxDesc
    BY <1>21, <1>0 DEF Mark, TypeOK, Slots
  <2>2. MarkToAsic(desc, dk) \in RingType
    BY <2>1, MarkKeepsEnd DEF TypeOK
  <2> QED
    BY <1>21, <2>1, <2>2 DEF Mark, TypeOK, pollv
<1>22. ASSUME NapiEnable PROVE TypeOK'
  BY <1>22 DEF NapiEnable, TypeOK, DevPlaces, PollPlaces, ringv, pollv, devv
<1>23. ASSUME HwStart PROVE TypeOK'
  <2>1. nic' \in NicType
    BY <1>23, <1>0 DEF HwStart, TypeOK, NicType
  <2> QED
    BY <1>23, <2>1 DEF HwStart, TypeOK, DevPlaces, ringv, pollv
<1>24. ASSUME SetRxMode PROVE TypeOK'
  <2>1. nic' \in NicType
    BY <1>24 DEF SetRxMode, TypeOK, NicType, FrameOrNo
  <2> QED
    BY <1>24, <2>1 DEF SetRxMode, TypeOK, DevPlaces, ringv, pollv
<1>25. ASSUME SetFeatures PROVE TypeOK'
  <2>1. (~rxall) \in BOOLEAN
    OBVIOUS
  <2>2. nic' \in NicType
    BY <1>25, <2>1 DEF SetFeatures, TypeOK, NicType
  <2>3. ops' \in 0 .. MaxOps
    BY <1>25, RxRingAssumption DEF SetFeatures, Begin, TypeOK
  <2> QED
    BY <1>25, <2>2, <2>3 DEF SetFeatures, TypeOK, DevPlaces, ringv, pollv
<1>26. ASSUME ChipWriteBack PROVE TypeOK'
  <2>1. nic.pos \in Slots /\ nic.mid \in FrameOrNo /\ dev \notin {"closed", "fill"}
    BY <1>26 DEF ChipWriteBack, TypeOK, NicType, ChipOff
  <2>2. (IF desc[nic.pos].eor THEN 0 ELSE nic.pos + 1) \in Slots
    BY <2>1, <1>0 DEF Built, Slots
  <2>3. nic' \in NicType
    BY <1>26, <2>2 DEF ChipWriteBack, TypeOK, NicType, FrameOrNo
  <2>4. desc[nic.pos].eor \in BOOLEAN
    BY <2>1, <1>c DEF DescType
  <2>5. desc' \in RingType
    <3> DEFINE new == [own |-> FALSE, eor |-> desc[nic.pos].eor,
                       status |-> nic.mid, tag |-> nic.mid]
    <3>1. new \in DescType
      BY <2>1, <2>4 DEF DescType
    <3>2. desc' = [desc EXCEPT ![nic.pos] = new]
      BY <1>26 DEF ChipWriteBack
    <3> HIDE DEF new
    <3> QED
      BY <2>1, <3>1, <3>2 DEF TypeOK, RingType
  <2> QED
    BY <1>26, <2>3, <2>5 DEF ChipWriteBack, TypeOK, devv, pollv
<1>27. ASSUME NEW kind \in {"reset", "sleep", "close"}, Teardown(kind) PROVE TypeOK'
  <2>1. (kind = "reset") \in BOOLEAN
    OBVIOUS
  <2>2. nic' \in NicType
    BY <1>27, <2>1 DEF Teardown, TypeOK, NicType
  <2>3. ops' \in 0 .. MaxOps
    BY <1>27, RxRingAssumption DEF Teardown, Begin, TypeOK
  <2> QED
    BY <1>27, <2>2, <2>3 DEF Teardown, TypeOK, DevPlaces, ringv, pollv
<1>28. ASSUME NEW f \in Frames, ChipReceive(f) PROVE TypeOK'
  <2>1. nic' \in NicType
    BY <1>28 DEF ChipReceive, TypeOK, NicType, FrameOrNo
  <2>2. page' \in [Slots -> FrameOrNo]
    BY <1>28 DEF ChipReceive, TypeOK, FrameOrNo
  <2> QED
    BY <1>28, <2>1, <2>2 DEF ChipReceive, TypeOK, devv, pollv
<1>29. ASSUME UNCHANGED vars PROVE TypeOK'
  BY <1>29 DEF vars, TypeOK, ringv, pollv, devv
<1> QED
  BY <1>1, <1>2, <1>3, <1>4, <1>5, <1>6, <1>7, <1>8, <1>9, <1>10, <1>11,
     <1>12, <1>13, <1>14, <1>15, <1>16, <1>17, <1>18, <1>19, <1>20, <1>21,
     <1>22, <1>23, <1>24, <1>25, <1>26, <1>27, <1>28, <1>29
  DEF Next, Poll, Device

-----------------------------------------------------------------------------
(* Every step keeps the ring in the shape that the operation under way has given it. *)
LEMMA ShapeStep == IInv /\ [Next]_vars => Shaped'
<1> SUFFICES ASSUME IInv, [Next]_vars PROVE Shaped'
  OBVIOUS
<1> USE DEF IInv, Shaped, Placed
<1>0. NumRxDesc \in Nat \ {0} /\ 0 \in Slots
  BY RxRingAssumption DEF Slots
<1>a. Entry \in Slots
  BY EntryInSlots DEF TypeOK
<1>b. \A i \in Slots : \A j \in Slots :
        /\ ClearTag(desc, i)[j].eor = desc[j].eor
        /\ HandOver(desc, i, desc[i].eor)[j].eor = desc[j].eor
        /\ MarkToAsic(desc, i)[j].eor = desc[j].eor
  BY MarkKeepsEnd DEF TypeOK
<1>1. ASSUME PollBegin PROVE Shaped'
  BY <1>1 DEF PollBegin, TypeOK, Empty, Filling, Built, ringv, pollv, devv
<1>2. ASSUME ReadStatus PROVE Shaped'
  BY <1>2 DEF ReadStatus, TypeOK, Empty, Filling, Built, ringv, pollv, devv
<1>3. ASSUME Judge PROVE Shaped'
  BY <1>3 DEF Judge, TypeOK, Empty, Filling, Built, ringv, pollv, devv
<1>4. ASSUME NoSkb PROVE Shaped'
  BY <1>4 DEF NoSkb, TypeOK, Empty, Filling, Built, ringv, pollv, devv
<1>5. ASSUME Copy PROVE Shaped'
  BY <1>5 DEF Copy, TypeOK, Empty, Filling, Built, ringv, pollv, devv
<1>6. ASSUME Deliver PROVE Shaped'
  BY <1>6 DEF Deliver, TypeOK, Empty, Filling, Built, ringv, pollv, devv
<1>7. ASSUME ReleaseTag PROVE Shaped'
  BY <1>7, <1>a, <1>b DEF ReleaseTag, Empty, Filling, Built, devv
<1>8. ASSUME ReleaseOwn PROVE Shaped'
  <2>1. rp.eor = desc[Entry].eor
    BY <1>8 DEF ReleaseOwn, Remembers
  <2> QED
    BY <1>8, <1>a, <1>b, <2>1 DEF ReleaseOwn, Empty, Filling, Built, devv
<1>9. ASSUME Open PROVE Shaped'
  BY <1>9, <1>0 DEF Open, TypeOK, Empty, Filling, Built, Slots
<1>10. ASSUME AllocRxData PROVE Shaped'
  <2>1. dk \in Slots /\ dk' = dk + 1 /\ dev' = "fill"
    BY <1>10, <1>0 DEF AllocRxData, TypeOK, Slots
  <2>2. \A i \in Slots : databuff'[i] = TRUE <=> i < dk + 1
    BY <1>10, <2>1 DEF AllocRxData, TypeOK, Filling, Slots
  <2>3. \A i \in Slots : desc'[i].eor = FALSE
    BY <1>10, <1>b, <2>1 DEF AllocRxData, Filling
  <2> QED
    BY <2>1, <2>2, <2>3 DEF Empty, Filling, Built
<1>11. ASSUME OpenFails PROVE Shaped'
  <2>1. \A i \in Slots : databuff'[i] = FALSE
    <3>1. PICK n \in 0 .. NumRxDesc : \A i \in Slots : databuff[i] = TRUE <=> i < n
      <4>1. CASE dev = "fill"
        BY <4>1 DEF Filling, TypeOK
      <4>2. CASE dev = "filled"
        BY <4>2, <1>0 DEF Built, Slots
      <4> QED
        BY <1>11, <4>1, <4>2 DEF OpenFails
    <3> QED
      BY <1>11, <3>1, ClearFreesAll DEF OpenFails, FreeRing, TypeOK
  <2> QED
    BY <1>11, <2>1 DEF OpenFails, FreeRing, NoDesc, Empty, Filling, Built
<1>12. ASSUME RingFilled PROVE Shaped'
  <2>1. \A i \in Slots : databuff[i] = TRUE /\ desc[i].eor = FALSE
    BY <1>12, <1>0 DEF RingFilled, Filling, Slots
  <2>2. \A i \in Slots : desc'[i].eor = TRUE <=> i = NumRxDesc - 1
    <3>1. desc' = [desc EXCEPT ![NumRxDesc - 1] = [desc[NumRxDesc - 1] EXCEPT !.eor = TRUE]]
      BY <1>12 DEF RingFilled
    <3>2. NumRxDesc - 1 \in Slots /\ desc[NumRxDesc - 1] \in DescType
      BY RxRingAssumption DEF TypeOK, RingType, Slots
    <3>3. [desc[NumRxDesc - 1] EXCEPT !.eor = TRUE].eor = TRUE
      BY <3>2 DEF DescType
    <3> QED
      BY <2>1, <3>1, <3>2, <3>3 DEF TypeOK, RingType
  <2> QED
    BY <1>12, <2>1, <2>2 DEF RingFilled, Empty, Filling, Built
<1>13. ASSUME Up PROVE Shaped'
  BY <1>13 DEF Up, TypeOK, Empty, Filling, Built, ringv, pollv, devv
<1>14. ASSUME FeaturesSet PROVE Shaped'
  BY <1>14 DEF FeaturesSet, TypeOK, Empty, Filling, Built, ringv, pollv, devv
<1>15. ASSUME NapiDisable PROVE Shaped'
  BY <1>15 DEF NapiDisable, TypeOK, Empty, Filling, Built, ringv, pollv, devv
<1>16. ASSUME Drained PROVE Shaped'
  BY <1>16 DEF Drained, TypeOK, Empty, Filling, Built, ringv, pollv, devv
<1>17. ASSUME RxClose PROVE Shaped'
  BY <1>17 DEF RxClose, TypeOK, Empty, Filling, Built, ringv, pollv, devv
<1>18. ASSUME HwReset PROVE Shaped'
  BY <1>18 DEF HwReset, TypeOK, Empty, Filling, Built, ringv, pollv, devv
<1>19. ASSUME InitRingIndexes PROVE Shaped'
  BY <1>19 DEF InitRingIndexes, AfterCleanup, Empty, Filling, Built
<1>20. ASSUME Clear PROVE Shaped'
  <2>1. \A i \in Slots : databuff[i] = TRUE <=> i < NumRxDesc
    BY <1>20, <1>0 DEF Clear, Built, Slots
  <2>2. NumRxDesc \in 0 .. NumRxDesc /\ databuff \in [Slots -> BOOLEAN]
    BY <1>0 DEF TypeOK
  <2>3. \A i \in Slots : databuff'[i] = FALSE
    BY <1>20, <2>1, <2>2, ClearFreesAll DEF Clear, FreeRing
  <2> QED
    BY <1>20, <2>3 DEF Clear, FreeRing, NoDesc, Empty, Filling, Built
<1>21. ASSUME Mark PROVE Shaped'
  <2>1. dk \in Slots
    BY <1>21, <1>0 DEF Mark, TypeOK, Slots
  <2> QED
    BY <1>21, <1>b, <2>1 DEF Mark, Empty, Filling, Built
<1>22. ASSUME NapiEnable PROVE Shaped'
  BY <1>22 DEF NapiEnable, TypeOK, Empty, Filling, Built, ringv, pollv, devv
<1>23. ASSUME HwStart PROVE Shaped'
  BY <1>23 DEF HwStart, TypeOK, Empty, Filling, Built, ringv, pollv, devv
<1>24. ASSUME SetRxMode PROVE Shaped'
  BY <1>24 DEF SetRxMode, TypeOK, Empty, Filling, Built, ringv, pollv, devv
<1>25. ASSUME SetFeatures PROVE Shaped'
  BY <1>25 DEF SetFeatures, Begin, TypeOK, Empty, Filling, Built, ringv, pollv, devv
<1>26. ASSUME ChipWriteBack PROVE Shaped'
  <2>1. nic.pos \in Slots /\ desc \in RingType
    BY DEF TypeOK, NicType
  <2>2. \A i \in Slots : desc'[i].eor = desc[i].eor
    BY <1>26, <2>1 DEF ChipWriteBack, RingType
  <2> QED
    BY <1>26, <2>2 DEF ChipWriteBack, Empty, Filling, Built, devv
<1>27. ASSUME NEW kind \in {"reset", "sleep", "close"}, Teardown(kind) PROVE Shaped'
  BY <1>27 DEF Teardown, Begin, TypeOK, Empty, Filling, Built, ringv, pollv, devv
<1>28. ASSUME NEW f \in Frames, ChipReceive(f) PROVE Shaped'
  BY <1>28 DEF ChipReceive, TypeOK, Empty, Filling, Built, ringv, pollv, devv
<1>29. ASSUME UNCHANGED vars PROVE Shaped'
  BY <1>29 DEF vars, TypeOK, Empty, Filling, Built, ringv, pollv, devv
<1> QED
  BY <1>1, <1>2, <1>3, <1>4, <1>5, <1>6, <1>7, <1>8, <1>9, <1>10, <1>11,
     <1>12, <1>13, <1>14, <1>15, <1>16, <1>17, <1>18, <1>19, <1>20, <1>21,
     <1>22, <1>23, <1>24, <1>25, <1>26, <1>27, <1>28, <1>29
  DEF Next, Poll, Device

-----------------------------------------------------------------------------
(* Every step keeps the poll and the chip away from a ring under construction. *)
LEMMA PlaceStep == IInv /\ [Next]_vars => Placed'
<1> SUFFICES ASSUME IInv, [Next]_vars PROVE Placed'
  OBVIOUS
<1> USE DEF IInv, Shaped, Placed
<1>1. ASSUME PollBegin PROVE Placed'
  BY <1>1 DEF PollBegin, TypeOK, Quiet, ChipOff, Remembers, Entry, ringv, pollv, devv
<1>2. ASSUME ReadStatus PROVE Placed'
  BY <1>2 DEF ReadStatus, TypeOK, RpType, Quiet, ChipOff, Remembers, devv
<1>3. ASSUME Judge PROVE Placed'
  BY <1>3 DEF Judge, TypeOK, Quiet, ChipOff, Remembers, Entry, ringv, pollv, devv
<1>4. ASSUME NoSkb PROVE Placed'
  BY <1>4 DEF NoSkb, TypeOK, Quiet, ChipOff, Remembers, Entry, ringv, pollv, devv
<1>5. ASSUME Copy PROVE Placed'
  BY <1>5 DEF Copy, TypeOK, Quiet, ChipOff, Remembers, Entry, ringv, pollv, devv
<1>6. ASSUME Deliver PROVE Placed'
  BY <1>6 DEF Deliver, TypeOK, Quiet, ChipOff, Remembers, Entry, ringv, pollv, devv
<1>7. ASSUME ReleaseTag PROVE Placed'
  <2>1. desc'[Entry].eor = desc[Entry].eor /\ Entry' = Entry
    BY <1>7, EntryInSlots, MarkKeepsEnd DEF ReleaseTag, TypeOK, Entry
  <2>2. rp'.eor = desc[Entry].eor /\ rp'.count = rp.count
    BY <1>7 DEF ReleaseTag, TypeOK, RpType
  <2> QED
    BY <1>7, <2>1, <2>2 DEF ReleaseTag, Quiet, ChipOff, Remembers, devv
<1>8. ASSUME ReleaseOwn PROVE Placed'
  BY <1>8 DEF ReleaseOwn, TypeOK, Quiet, ChipOff, Remembers, Entry, ringv, pollv, devv
<1>9. ASSUME Open PROVE Placed'
  BY <1>9 DEF Open, TypeOK, Quiet, ChipOff, Remembers, Entry, ringv, pollv, devv
<1>10. ASSUME AllocRxData PROVE Placed'
  BY <1>10 DEF AllocRxData, TypeOK, Quiet, ChipOff, Remembers, Entry, ringv, pollv, devv
<1>11. ASSUME OpenFails PROVE Placed'
  BY <1>11 DEF OpenFails, TypeOK, Quiet, ChipOff, Remembers, Entry, ringv, pollv, devv
<1>12. ASSUME RingFilled PROVE Placed'
  BY <1>12 DEF RingFilled, TypeOK, Quiet, ChipOff, Remembers, Entry, ringv, pollv, devv
<1>13. ASSUME Up PROVE Placed'
  BY <1>13 DEF Up, TypeOK, Quiet, ChipOff, Remembers, Entry, ringv, pollv, devv
<1>14. ASSUME FeaturesSet PROVE Placed'
  BY <1>14 DEF FeaturesSet, TypeOK, Quiet, ChipOff, Remembers, Entry, ringv, pollv, devv
<1>15. ASSUME NapiDisable PROVE Placed'
  BY <1>15 DEF NapiDisable, TypeOK, Quiet, ChipOff, Remembers, Entry, ringv, pollv, devv
<1>16. ASSUME Drained PROVE Placed'
  BY <1>16 DEF Drained, TypeOK, Quiet, ChipOff, Remembers, Entry, ringv, pollv, devv
<1>17. ASSUME RxClose PROVE Placed'
  BY <1>17 DEF RxClose, TypeOK, Quiet, ChipOff, Remembers, Entry, ringv, pollv, devv
<1>18. ASSUME HwReset PROVE Placed'
  BY <1>18 DEF HwReset, TypeOK, Quiet, ChipOff, Remembers, Entry, ringv, pollv, devv
<1>19. ASSUME InitRingIndexes PROVE Placed'
  BY <1>19 DEF InitRingIndexes, TypeOK, Quiet, ChipOff, Remembers, Entry, ringv, pollv, devv
<1>20. ASSUME Clear PROVE Placed'
  BY <1>20 DEF Clear, TypeOK, Quiet, ChipOff, Remembers, Entry, ringv, pollv, devv
<1>21. ASSUME Mark PROVE Placed'
  BY <1>21 DEF Mark, TypeOK, Quiet, ChipOff, Remembers, Entry, ringv, pollv, devv
<1>22. ASSUME NapiEnable PROVE Placed'
  BY <1>22 DEF NapiEnable, TypeOK, Quiet, ChipOff, Remembers, Entry, ringv, pollv, devv
<1>23. ASSUME HwStart PROVE Placed'
  BY <1>23 DEF HwStart, TypeOK, Quiet, ChipOff, Remembers, Entry, ringv, pollv, devv
<1>24. ASSUME SetRxMode PROVE Placed'
  BY <1>24 DEF SetRxMode, TypeOK, Quiet, ChipOff, Remembers, Entry, ringv, pollv, devv
<1>25. ASSUME SetFeatures PROVE Placed'
  BY <1>25 DEF SetFeatures, Begin, TypeOK, Quiet, ChipOff, Remembers, Entry, ringv, pollv, devv
<1>26. ASSUME ChipWriteBack PROVE Placed'
  BY <1>26 DEF ChipWriteBack, TypeOK, Quiet, ChipOff, Remembers, Entry, ringv, pollv, devv
<1>27. ASSUME NEW kind \in {"reset", "sleep", "close"}, Teardown(kind) PROVE Placed'
  BY <1>27 DEF Teardown, Begin, TypeOK, Quiet, ChipOff, Remembers, Entry, ringv, pollv, devv
<1>28. ASSUME NEW f \in Frames, ChipReceive(f) PROVE Placed'
  BY <1>28 DEF ChipReceive, TypeOK, Quiet, ChipOff, Remembers, Entry, ringv, pollv, devv
<1>29. ASSUME UNCHANGED vars PROVE Placed'
  BY <1>29 DEF vars, TypeOK, Quiet, ChipOff, Remembers, Entry, ringv, pollv, devv
<1> QED
  BY <1>1, <1>2, <1>3, <1>4, <1>5, <1>6, <1>7, <1>8, <1>9, <1>10, <1>11,
     <1>12, <1>13, <1>14, <1>15, <1>16, <1>17, <1>18, <1>19, <1>20, <1>21,
     <1>22, <1>23, <1>24, <1>25, <1>26, <1>27, <1>28, <1>29
  DEF Next, Poll, Device

-----------------------------------------------------------------------------
(* The inductive invariant holds throughout. *)
LEMMA Invariant == Spec => []IInv
<1>1. IInv /\ [Next]_vars => IInv'
  BY TypeStep, ShapeStep, PlaceStep DEF IInv
<1> QED
  BY InitInv, <1>1, PTL DEF Spec

(* Every reachable state of the receive path is well typed; that the chip's *)
(* position is one of the ring's slots rests on the bit that closes it.     *)
THEOREM RxTypeCorrect == Spec => []TypeOK
  BY Invariant, PTL DEF IInv

(* Whatever is received and however often the ring is reset, stopped and    *)
(* freed, a running chip has a page behind every descriptor and turns round *)
(* at the last one.                                                         *)
THEOREM RingStaysClosed == Spec => []RingClosed
<1>1. IInv => RingClosed
  BY DEF IInv, Shaped, Placed, Built, ChipOff, RingClosed
<1> QED
  BY Invariant, <1>1, PTL

(* Wherever an open fails, and at every close, all pages are freed. *)
THEOREM EveryPageFreed == Spec => []NoPageLeft
<1>1. IInv => NoPageLeft
  BY DEF IInv, Shaped, Empty, NoPageLeft
<1> QED
  BY Invariant, <1>1, PTL

-----------------------------------------------------------------------------
(* A descriptor the host owns is of one frame with its page, until rtl_rx     *)
(* clears its tag; what rtl_rx has read of it is still there; and the chip    *)
(* writes only where it owns.                                                 *)
Intact ==
    \A i \in Slots : desc[i].own = FALSE /\ ~(rpc = "hand" /\ i = Entry)
                        => desc[i].status = page[i] /\ desc[i].tag = page[i]

Reading ==
    /\ rpc \in {"judge", "copy", "deliver", "clear", "hand"} => desc[Entry].own = FALSE
    /\ rpc \in {"judge", "copy", "deliver"} => rp.status = desc[Entry].status
    /\ rpc = "deliver" => rp.data = page[Entry]

Writing ==
    /\ nic.mid # NoFrame => desc[nic.pos].own = TRUE /\ page[nic.pos] = nic.mid
    /\ nic.on = FALSE => nic.mid = NoFrame
    /\ dev = "hw_start" => nic.on = FALSE

FInv == Intact /\ Reading /\ Writing /\ OneFrame

(* What the stores of rtl8169_mark_to_asic do to ownership and frame. *)
LEMMA MarkHandsOver ==
  ASSUME desc \in RingType, NEW i \in Slots, NEW end \in BOOLEAN
  PROVE  /\ \A j \in Slots \ {i} : /\ ClearTag(desc, i)[j] = desc[j]
                                   /\ HandOver(desc, i, end)[j] = desc[j]
                                   /\ MarkToAsic(desc, i)[j] = desc[j]
         /\ ClearTag(desc, i)[i].own = desc[i].own
         /\ ClearTag(desc, i)[i].status = desc[i].status
         /\ HandOver(desc, i, end)[i].own = TRUE
         /\ MarkToAsic(desc, i)[i].own = TRUE
<1>1. ASSUME NEW ds \in RingType, NEW e \in BOOLEAN
      PROVE  /\ \A j \in Slots \ {i} : HandOver(ds, i, e)[j] = ds[j]
             /\ HandOver(ds, i, e)[i].own = TRUE
  <2> DEFINE new == [ds[i] EXCEPT !.own = TRUE, !.eor = e, !.status = NoFrame]
  <2>1. HandOver(ds, i, e) = [ds EXCEPT ![i] = new]
    BY DEF HandOver, RingType
  <2>2. new.own = TRUE
    BY DEF RingType, DescType
  <2> HIDE DEF new
  <2> QED
    BY <2>1, <2>2 DEF RingType
<1>2. /\ \A j \in Slots \ {i} : ClearTag(desc, i)[j] = desc[j]
      /\ ClearTag(desc, i)[i].own = desc[i].own
      /\ ClearTag(desc, i)[i].status = desc[i].status
  <2> DEFINE new == [desc[i] EXCEPT !.tag = NoFrame]
  <2>1. ClearTag(desc, i) = [desc EXCEPT ![i] = new]
    BY DEF ClearTag, RingType
  <2>2. new.own = desc[i].own /\ new.status = desc[i].status
    BY DEF RingType, DescType
  <2> HIDE DEF new
  <2> QED
    BY <2>1, <2>2 DEF RingType
<1>3. ClearTag(desc, i) \in RingType /\ desc[i].eor \in BOOLEAN
  BY MarkKeepsEnd DEF RingType, DescType
<1> QED
  BY <1>1, <1>2, <1>3 DEF MarkToAsic

(* A step that neither reads nor writes a frame. *)
Aside ==
    /\ UNCHANGED <<desc, page, cur_rx, rpc, rp, handed>>
    /\ nic'.mid = nic.mid /\ nic'.pos = nic.pos /\ nic'.on = nic.on
    /\ dev' = "hw_start" => dev = "hw_start"

(* Steps that leave descriptors, poll and chip alone keep frames apart.      *)
LEMMA AsideKeeps == ASSUME FInv, Aside PROVE FInv'
BY DEF FInv, Intact, Reading, Writing, OneFrame, Aside, Entry

(* So does every other step.                                                 *)
LEMMA FrameStep == IInv /\ FInv /\ [Next]_vars => FInv'
<1> SUFFICES ASSUME IInv, FInv, [Next]_vars PROVE FInv'
  OBVIOUS
<1> USE DEF IInv, Placed
<1>a. Entry \in Slots /\ desc \in RingType /\ nic.pos \in Slots
  BY EntryInSlots DEF TypeOK, NicType
<1>1. ASSUME PollBegin \/ Judge \/ NoSkb PROVE FInv'
  BY <1>1 DEF PollBegin, Judge, NoSkb, FInv, Intact, Reading, Writing, OneFrame, Entry, ringv, devv
<1>2. ASSUME ReadStatus PROVE FInv'
  <2>1. CASE rp.count < Budget /\ ~desc[Entry].own
    <3>1. rp'.status = desc[Entry].status /\ rpc' = "judge"
      BY <1>2, <2>1 DEF ReadStatus, TypeOK, RpType
    <3>2. desc[Entry].own = FALSE
      BY <1>a, <2>1 DEF RingType, DescType
    <3> QED
      BY <1>2, <3>1, <3>2 DEF ReadStatus, FInv, Intact, Reading, Writing, OneFrame, Entry, ringv, devv
  <2>2. CASE ~(rp.count < Budget /\ ~desc[Entry].own)
    BY <1>2, <2>2 DEF ReadStatus, FInv, Intact, Reading, Writing, OneFrame, Entry, ringv, devv
  <2> QED
    BY <2>1, <2>2
<1>3. ASSUME Copy PROVE FInv'
  <2>1. rp'.data = page[Entry] /\ rp'.status = rp.status
    BY <1>3 DEF Copy, TypeOK, RpType
  <2> QED
    BY <1>3, <2>1 DEF Copy, FInv, Intact, Reading, Writing, OneFrame, Entry, ringv, devv
<1>4. ASSUME Deliver PROVE FInv'
  <2>1. handed'.data = rp.data /\ handed'.status = rp.status /\ handed'.tag = desc[Entry].tag
    BY <1>4 DEF Deliver
  <2>2. desc[Entry].status = page[Entry] /\ desc[Entry].tag = page[Entry]
    BY <1>4, <1>a DEF Deliver, FInv, Intact, Reading
  <2>3. rp.data = page[Entry] /\ rp.status = page[Entry]
    BY <1>4, <2>2 DEF Deliver, FInv, Reading
  <2> QED
    BY <1>4, <2>1, <2>2, <2>3 DEF Deliver, FInv, Intact, Reading, Writing, OneFrame, Entry, ringv, devv
<1>5. ASSUME ReleaseTag PROVE FInv'
  <2>1. /\ \A j \in Slots \ {Entry} : desc'[j] = desc[j]
        /\ desc'[Entry].own = desc[Entry].own
    BY <1>5, <1>a, MarkHandsOver DEF ReleaseTag
  <2> QED
    BY <1>5, <1>a, <2>1 DEF ReleaseTag, FInv, Intact, Reading, Writing, OneFrame, Entry, devv
<1>6. ASSUME ReleaseOwn PROVE FInv'
  <2>1. rp.eor \in BOOLEAN
    BY DEF TypeOK, RpType
  <2>2. /\ \A j \in Slots \ {Entry} : desc'[j] = desc[j]
        /\ desc'[Entry].own = TRUE
    BY <1>6, <1>a, <2>1, MarkHandsOver DEF ReleaseOwn
  <2>3. Intact'
    BY <1>6, <1>a, <2>2 DEF ReleaseOwn, FInv, Intact
  <2>4. Writing' /\ OneFrame' /\ Reading'
    BY <1>6, <1>a, <2>2 DEF ReleaseOwn, FInv, Reading, Writing, OneFrame, devv
  <2> QED
    BY <2>3, <2>4 DEF FInv
<1>7. ASSUME Open \/ InitRingIndexes PROVE FInv'
  <2>1. rpc = "idle" /\ (dev = "hw_start" \/ dev' # "hw_start")
    BY <1>7 DEF Open, InitRingIndexes, AfterCleanup, Quiet
  <2> QED
    BY <1>7, <2>1 DEF Open, InitRingIndexes, FInv, Intact, Reading, Writing, OneFrame, pollv
<1>8. ASSUME AllocRxData \/ Mark PROVE FInv'
  <2>1. dk \in Slots
    BY <1>8, RxRingAssumption DEF AllocRxData, Mark, TypeOK, Slots
  <2>2. rpc = "idle" /\ nic.on = FALSE
    BY <1>8 DEF AllocRxData, Mark, Quiet, ChipOff
  <2>3. /\ \A j \in Slots \ {dk} : desc'[j] = desc[j]
        /\ desc'[dk].own = TRUE
    <3>1. desc' = MarkToAsic(desc, dk)
      BY <1>8 DEF AllocRxData, Mark
    <3>2. /\ \A j \in Slots \ {dk} : MarkToAsic(desc, dk)[j] = desc[j]
          /\ MarkToAsic(desc, dk)[dk].own = TRUE
      <4>1. TRUE \in BOOLEAN
        OBVIOUS
      <4>2. desc \in RingType
        BY <1>a
      <4> QED
        BY <2>1, <4>1, <4>2, MarkHandsOver
    <3> QED
      BY <3>1, <3>2
  <2> QED
    BY <1>8, <2>1, <2>2, <2>3 DEF AllocRxData, Mark, FInv, Intact, Reading, Writing, OneFrame, pollv
<1>9. ASSUME OpenFails \/ Clear PROVE FInv'
  <2>1. rpc = "idle" /\ nic.on = FALSE
    BY <1>9 DEF OpenFails, Clear, Quiet, ChipOff
  <2> QED
    BY <1>9, <2>1 DEF OpenFails, Clear, FreeRing, NoDesc, FInv, Intact, Reading, Writing, OneFrame, pollv
<1>10. ASSUME RingFilled PROVE FInv'
  <2>1. rpc = "idle" /\ nic.on = FALSE
    BY <1>10 DEF RingFilled, Quiet, ChipOff
  <2>2. \A j \in Slots : /\ desc'[j].own = desc[j].own /\ desc'[j].status = desc[j].status
                        /\ desc'[j].tag = desc[j].tag
    <3>1. NumRxDesc - 1 \in Slots
      BY RxRingAssumption DEF Slots
    <3> QED
      BY <1>10, <1>a, <3>1 DEF RingFilled, RingType, DescType
  <2> QED
    BY <1>10, <2>1, <2>2 DEF RingFilled, FInv, Intact, Reading, Writing, OneFrame, pollv
<1>11. ASSUME HwReset PROVE FInv'
  <2>1. nic'.mid = NoFrame
    BY <1>11 DEF HwReset, TypeOK, NicType
  <2> QED
    BY <1>11, <2>1 DEF HwReset, FInv, Intact, Reading, Writing, OneFrame, Entry, ringv, pollv
<1>12. ASSUME HwStart PROVE FInv'
  <2>1. nic'.mid = nic.mid /\ nic'.on = TRUE
    BY <1>12 DEF HwStart, TypeOK, NicType
  <2> QED
    BY <1>12, <2>1 DEF HwStart, FInv, Intact, Reading, Writing, OneFrame, Entry, ringv, pollv
<1>13. ASSUME NapiEnable PROVE FInv'
  <2>1. nic.on = FALSE
    BY <1>13 DEF NapiEnable, ChipOff
  <2> QED
    BY <1>13, <2>1 DEF NapiEnable, FInv, Intact, Reading, Writing, OneFrame, Entry, ringv, pollv
<1>14. ASSUME NapiDisable \/ Drained \/ FeaturesSet PROVE FInv'
  <2>1. Aside
    BY <1>14 DEF NapiDisable, Drained, FeaturesSet, Aside, ringv, pollv
  <2> QED
    BY <2>1, AsideKeeps
<1>15. ASSUME Up \/ RxClose \/ SetRxMode \/ SetFeatures PROVE FInv'
  <2>1. /\ UNCHANGED <<desc, page, cur_rx, rpc, rp, handed>> /\ dev' # "hw_start"
        /\ nic'.mid = nic.mid /\ nic'.pos = nic.pos /\ nic'.on = nic.on
    BY <1>15 DEF Up, RxClose, SetRxMode, SetFeatures, TypeOK, NicType, ringv, pollv
  <2> QED
    BY <2>1, AsideKeeps DEF Aside
<1>16. ASSUME NEW kind \in {"reset", "sleep", "close"}, Teardown(kind) PROVE FInv'
  <2>1. /\ UNCHANGED <<desc, page, cur_rx, rpc, rp, handed>> /\ dev' # "hw_start"
        /\ nic'.mid = nic.mid /\ nic'.pos = nic.pos /\ nic'.on = nic.on
    BY <1>16 DEF Teardown, TypeOK, NicType, ringv, pollv
  <2> QED
    BY <2>1, AsideKeeps DEF Aside
<1>17. ASSUME NEW f \in Frames, ChipReceive(f) PROVE FInv'
  <2>1. nic'.mid = f /\ nic'.pos = nic.pos /\ nic'.on = nic.on /\ f # NoFrame
    BY <1>17, RxRingAssumption DEF ChipReceive, TypeOK, NicType
  <2>2. /\ \A j \in Slots \ {nic.pos} : page'[j] = page[j]
        /\ page'[nic.pos] = f
    BY <1>17, <1>a DEF ChipReceive, TypeOK
  <2>3. desc[nic.pos].own = TRUE /\ nic.on = TRUE
    BY <1>17, <1>a DEF ChipReceive, TypeOK, NicType, RingType, DescType
  <2>4. Writing'
    BY <1>17, <2>1, <2>2, <2>3 DEF ChipReceive, FInv, Writing, devv
  <2>5. Intact' /\ Reading' /\ OneFrame'
    BY <1>17, <1>a, <2>2, <2>3 DEF ChipReceive, FInv, Intact, Reading, OneFrame, Entry, pollv, devv
  <2> QED
    BY <2>4, <2>5 DEF FInv
<1>18. ASSUME ChipWriteBack PROVE FInv'
  <2>1. nic'.mid = NoFrame
    BY <1>18 DEF ChipWriteBack, TypeOK, NicType
  <2>2. /\ \A j \in Slots \ {nic.pos} : desc'[j] = desc[j]
        /\ desc'[nic.pos].status = nic.mid /\ desc'[nic.pos].tag = nic.mid
    BY <1>18, <1>a DEF ChipWriteBack, RingType
  <2>3. desc[nic.pos].own = TRUE /\ page[nic.pos] = nic.mid
    BY <1>18 DEF ChipWriteBack, FInv, Writing
  <2> QED
    BY <1>18, <1>a, <2>1, <2>2, <2>3 DEF ChipWriteBack, FInv, Intact, Reading, Writing, OneFrame, Entry, pollv, devv
<1>19. ASSUME UNCHANGED vars PROVE FInv'
  BY <1>19 DEF vars, FInv, Intact, Reading, Writing, OneFrame, Entry, ringv, pollv, devv
<1> QED
  BY <1>1, <1>2, <1>3, <1>4, <1>5, <1>6, <1>7, <1>8, <1>9, <1>10, <1>11, <1>12, <1>13, <1>14, <1>15, <1>16, <1>17, <1>18, <1>19
  DEF Next, Poll, Device

(* The bytes, the status and the tag the stack gets are of one frame, for any *)
(* ring, any budget, any frames, and a poll at any moment NAPI allows.        *)
THEOREM FramesKeptApart == Spec => []OneFrame
<1>1. Init => FInv
  BY DEF Init, NoDesc, FInv, Intact, Reading, Writing, OneFrame
<1>2. FInv => OneFrame
  BY DEF FInv
<1> QED
  BY Invariant, FrameStep, <1>1, <1>2, PTL DEF Spec

-----------------------------------------------------------------------------
(* Who has what.  How far slot i is ahead of the one rtl_rx reads next, going *)
(* round the ring...                                                          *)
Off(i) == IF i >= Entry THEN i - Entry ELSE i - Entry + NumRxDesc

(* ... and the first n of them are the host's, the others the chip's, which is *)
(* at the oldest of its own.                                                   *)
Shared(n) ==
    /\ nic.pos = IF Entry + n < NumRxDesc THEN Entry + n ELSE Entry + n - NumRxDesc
    /\ \A i \in Slots : desc[i].own = TRUE <=> Off(i) >= n

(* A reset starts both from the same slot: the host's index is back at the    *)
(* first one and the chip owns all it has marked.                             *)
Fresh ==
    /\ dev = "mark" => cur_rx = 0 /\ \A i \in Slots : i < dk => desc[i].own = TRUE
    /\ dev = "hw_start" => /\ cur_rx = 0 /\ rpc \in {"idle", "status"}
                           /\ \A i \in Slots : desc[i].own = TRUE

AInv == Fresh /\ (nic.on = TRUE => \E n \in 0 .. NumRxDesc : Shared(n))

(* Division by the size of the ring. *)
LEMMA Div ==
  \A x \in Int : /\ x = NumRxDesc * (x \div NumRxDesc) + (x % NumRxDesc)
                 /\ x % NumRxDesc \in 0 .. NumRxDesc - 1 /\ x \div NumRxDesc \in Int
  BY RxRingAssumption

(* A remainder is unique... *)
LEMMA ModIs ==
  ASSUME NEW q \in Int, NEW r \in 0 .. NumRxDesc - 1
  PROVE  (NumRxDesc * q + r) % NumRxDesc = r
<1> DEFINE x == NumRxDesc * q + r
           p == x \div NumRxDesc
           s == x % NumRxDesc
<1>1. NumRxDesc \in Nat /\ NumRxDesc >= 1
  BY RxRingAssumption
<1>2. x \in Int
  BY <1>1
<1>3. x = NumRxDesc * p + s /\ s \in 0 .. NumRxDesc - 1 /\ p \in Int
  BY <1>2, Div
<1>4. x = NumRxDesc * q + r
  OBVIOUS
<1> HIDE DEF p, s, x
<1>5. ASSUME NEW z \in Int, z >= 1 PROVE NumRxDesc * z >= NumRxDesc
  BY <1>1, <1>5
<1>6. NumRxDesc * (q - p) = s - r /\ NumRxDesc * (p - q) = r - s
  BY <1>1, <1>3, <1>4
<1>7. CASE q - p >= 1
  BY <1>1, <1>3, <1>5, <1>6, <1>7
<1>8. CASE p - q >= 1
  BY <1>1, <1>3, <1>5, <1>6, <1>8
<1>9. r = s
  BY <1>1, <1>3, <1>6, <1>7, <1>8
<1> QED
  BY <1>9 DEF s, x

(* ... so that going n places on from an index goes n slots round the ring. *)
LEMMA AddMod ==
  ASSUME NEW x \in Index, NEW n \in 0 .. NumRxDesc
  PROVE  (x + n) % NumRxDesc = IF (x % NumRxDesc) + n < NumRxDesc
                               THEN (x % NumRxDesc) + n
                               ELSE (x % NumRxDesc) + n - NumRxDesc
<1> DEFINE p == x \div NumRxDesc
           s == x % NumRxDesc
<1>1. NumRxDesc \in Nat /\ NumRxDesc >= 1 /\ x \in Int
  BY RxRingAssumption DEF Index
<1>2. x = NumRxDesc * p + s /\ s \in 0 .. NumRxDesc - 1 /\ p \in Int
  BY <1>1, Div
<1> HIDE DEF p, s
<1>3. CASE s + n < NumRxDesc
  <2>1. x + n = NumRxDesc * p + (s + n) /\ s + n \in 0 .. NumRxDesc - 1
    BY <1>1, <1>2, <1>3
  <2>2. (x + n) % NumRxDesc = s + n
    BY <1>2, <2>1, ModIs
  <2> QED
    BY <1>3, <2>2 DEF s
<1>4. CASE ~(s + n < NumRxDesc)
  <2>1. /\ x + n = NumRxDesc * (p + 1) + (s + n - NumRxDesc)
        /\ s + n - NumRxDesc \in 0 .. NumRxDesc - 1 /\ p + 1 \in Int
    BY <1>1, <1>2, <1>4
  <2>2. (x + n) % NumRxDesc = s + n - NumRxDesc
    BY <2>1, ModIs
  <2> QED
    BY <1>4, <2>2 DEF s
<1> QED
  BY <1>3, <1>4

(* The next index stands for the next slot: the ring divides 2^32. *)
LEMMA NextSlot ==
  ASSUME cur_rx \in Index
  PROVE  ((cur_rx + 1) % U32) % NumRxDesc = IF Entry + 1 < NumRxDesc THEN Entry + 1 ELSE 0
<1>1. /\ NumRxDesc \in Nat /\ NumRxDesc >= 1 /\ U32 \in Nat /\ U32 >= 1 /\ U32 % NumRxDesc = 0
      /\ cur_rx \in Int /\ cur_rx >= 0 /\ cur_rx < U32 /\ 1 \in 0 .. NumRxDesc
  BY RxRingAssumption DEF Index
<1>2. (cur_rx + 1) % NumRxDesc = IF Entry + 1 < NumRxDesc THEN Entry + 1 ELSE Entry + 1 - NumRxDesc
  BY <1>1, AddMod DEF Entry
<1>3. Entry \in 0 .. NumRxDesc - 1
  BY <1>1, Div DEF Entry
<1>4. CASE cur_rx + 1 < U32
  <2>1. (cur_rx + 1) % U32 = cur_rx + 1
    BY <1>1, <1>4
  <2> QED
    BY <1>1, <1>2, <1>3, <2>1
<1>5. CASE cur_rx + 1 = U32
  <2>1. (cur_rx + 1) % U32 = 0
    BY <1>1, <1>5
  <2>2. 0 % NumRxDesc = 0
    BY <1>1
  <2>3. (cur_rx + 1) % NumRxDesc = 0
    BY <1>1, <1>5
  <2> QED
    BY <1>1, <1>2, <1>3, <2>1, <2>2, <2>3
<1> QED
  BY <1>1, <1>4, <1>5

(* Off numbers the slots, from the one rtl_rx reads next on. *)
LEMMA OffNumbers ==
  ASSUME cur_rx \in Index
  PROVE  /\ Entry \in Slots /\ Off(Entry) = 0
         /\ \A i \in Slots : Off(i) \in 0 .. NumRxDesc - 1
         /\ \A i, j \in Slots : Off(i) = Off(j) => i = j
         /\ \A k \in 0 .. NumRxDesc - 1 : /\ (cur_rx + k) % NumRxDesc \in Slots
                                          /\ Off((cur_rx + k) % NumRxDesc) = k
<1>1. NumRxDesc \in Nat /\ NumRxDesc >= 1 /\ Entry \in 0 .. NumRxDesc - 1
  BY RxRingAssumption, EntryInSlots DEF Slots
<1>2. ASSUME NEW k \in 0 .. NumRxDesc - 1
      PROVE  (cur_rx + k) % NumRxDesc = IF Entry + k < NumRxDesc THEN Entry + k
                                        ELSE Entry + k - NumRxDesc
  BY <1>1, AddMod DEF Entry
<1>3. ASSUME NEW k \in 0 .. NumRxDesc - 1
      PROVE  /\ (cur_rx + k) % NumRxDesc \in Slots
             /\ Off((cur_rx + k) % NumRxDesc) = k
  BY <1>1, <1>2 DEF Off, Slots
<1>4. \A i \in Slots : Off(i) \in 0 .. NumRxDesc - 1
  BY <1>1 DEF Off, Slots
<1>5. \A i, j \in Slots : Off(i) = Off(j) => i = j
  BY <1>1 DEF Off, Slots
<1>6. Entry \in Slots /\ Off(Entry) = 0
  BY <1>1 DEF Off, Slots
<1> QED
  BY <1>3, <1>4, <1>5, <1>6

(* A descriptor that rtl_rx hands over leaves the host one fewer... *)
LEMMA ReleaseShares ==
  ASSUME IInv, FInv, ReleaseOwn, NEW n \in 0 .. NumRxDesc, Shared(n)
  PROVE  n - 1 \in 0 .. NumRxDesc /\ Shared(n - 1)'
<1>a. /\ TypeOK /\ Entry \in Slots /\ desc \in RingType
      /\ NumRxDesc \in Nat /\ NumRxDesc >= 1 /\ cur_rx \in Index /\ Slots' = Slots
  BY EntryInSlots, RxRingAssumption DEF IInv, TypeOK, Slots
<1>1. /\ rpc = "hand" /\ UNCHANGED nic /\ cur_rx' = (cur_rx + 1) % U32
      /\ desc' = HandOver(desc, Entry, rp.eor)
  BY DEF ReleaseOwn
<1>2. /\ \A j \in Slots \ {Entry} : desc'[j] = desc[j]
      /\ desc'[Entry].own = TRUE
  <2>1. rp.eor \in BOOLEAN
    BY <1>a DEF TypeOK, RpType
  <2> QED
    BY <1>a, <1>1, <2>1, MarkHandsOver
<1>3. desc[Entry].own = FALSE
  BY <1>1 DEF FInv, Reading
<1>4. Entry' = IF Entry + 1 < NumRxDesc THEN Entry + 1 ELSE 0
  BY <1>a, <1>1, NextSlot DEF Entry
<1>5. n >= 1
  BY <1>a, <1>3, OffNumbers DEF Shared
<1>6. /\ Entry \in 0 .. NumRxDesc - 1
      /\ \A i \in Slots : Off(i)' = IF i = Entry THEN NumRxDesc - 1 ELSE Off(i) - 1
  BY <1>a, <1>4 DEF Off, Slots
<1>7. nic'.pos = IF Entry' + (n - 1) < NumRxDesc THEN Entry' + (n - 1)
                 ELSE Entry' + (n - 1) - NumRxDesc
  BY <1>a, <1>1, <1>4, <1>5, <1>6 DEF Shared
<1>8. ASSUME NEW i \in Slots PROVE desc'[i].own = TRUE <=> Off(i)' >= n - 1
  <2>1. Off(i) \in 0 .. NumRxDesc - 1 /\ (desc[i].own = TRUE <=> Off(i) >= n)
    BY <1>a, OffNumbers DEF Shared
  <2> QED
    BY <1>a, <1>2, <1>5, <1>6, <2>1
<1>9. n - 1 \in 0 .. NumRxDesc
  BY <1>a, <1>5
<1>10. Shared(n - 1)'
  BY <1>a, <1>7, <1>8 DEF Shared
<1> QED
  BY <1>9, <1>10

(* ... and one that the chip writes back, the oldest of its own, one more. *)
LEMMA WriteShares ==
  ASSUME IInv, FInv, ChipWriteBack, NEW n \in 0 .. NumRxDesc, Shared(n)
  PROVE  n + 1 \in 0 .. NumRxDesc /\ Shared(n + 1)' /\ Off(nic.pos) = n
<1>a. /\ TypeOK /\ Entry \in Slots /\ desc \in RingType /\ nic \in NicType /\ nic.pos \in Slots
      /\ NumRxDesc \in Nat /\ NumRxDesc >= 1 /\ cur_rx \in Index /\ Slots' = Slots
      /\ ChipOff /\ Built
  BY EntryInSlots, RxRingAssumption DEF IInv, Shaped, Placed, TypeOK, NicType, Slots
<1>1. /\ cur_rx' = cur_rx /\ nic.on = TRUE /\ nic.mid # NoFrame
      /\ nic'.pos = IF desc[nic.pos].eor THEN 0 ELSE nic.pos + 1
  BY <1>a DEF ChipWriteBack, NicType
<1>2. /\ \A j \in Slots \ {nic.pos} : desc'[j] = desc[j]
      /\ desc'[nic.pos].own = FALSE
  BY <1>a DEF ChipWriteBack, RingType
<1>3. desc[nic.pos].eor <=> nic.pos = NumRxDesc - 1
  BY <1>a, <1>1 DEF ChipOff, Built
<1>4. desc[nic.pos].own = TRUE
  BY <1>1 DEF FInv, Writing
<1>5. Entry' = Entry /\ \A i \in Slots : Off(i)' = Off(i)
  BY <1>1 DEF Entry, Off
<1>6. Off(nic.pos) >= n /\ Off(nic.pos) \in 0 .. NumRxDesc - 1
  BY <1>a, <1>4, OffNumbers DEF Shared
<1>7. n < NumRxDesc /\ Entry \in 0 .. NumRxDesc - 1
  BY <1>a, <1>6 DEF Slots
<1>8. Off(nic.pos) = n
  BY <1>a, <1>7 DEF Shared, Off
<1>9. nic'.pos = IF Entry' + (n + 1) < NumRxDesc THEN Entry' + (n + 1)
                 ELSE Entry' + (n + 1) - NumRxDesc
  BY <1>a, <1>1, <1>3, <1>5, <1>7 DEF Shared
<1>10. ASSUME NEW i \in Slots PROVE desc'[i].own = TRUE <=> Off(i)' >= n + 1
  <2>1. Off(i) \in 0 .. NumRxDesc - 1 /\ (desc[i].own = TRUE <=> Off(i) >= n)
        /\ (Off(i) = Off(nic.pos) => i = nic.pos)
    BY <1>a, OffNumbers DEF Shared
  <2> QED
    BY <1>a, <1>2, <1>5, <1>7, <1>8, <2>1
<1>11. n + 1 \in 0 .. NumRxDesc
  BY <1>a, <1>7
<1>12. Shared(n + 1)'
  BY <1>a, <1>9, <1>10 DEF Shared
<1> QED
  BY <1>8, <1>11, <1>12

(* A step that moves neither of them, nor a descriptor from one to the other. *)
LEMMA AsideAgrees ==
  ASSUME AInv, cur_rx' = cur_rx, nic'.pos = nic.pos, nic'.on = nic.on,
         \A i \in Slots : desc'[i].own = desc[i].own,
         \/ dev' \notin {"mark", "hw_start"}
         \/ dev' = dev /\ dk' = dk /\ rpc' \in {rpc, "idle", "status"}
  PROVE  AInv'
<1>1. Entry' = Entry /\ Slots' = Slots
  BY DEF Entry, Slots
<1>2. Fresh'
  BY DEF AInv, Fresh, Slots
<1>3. ASSUME NEW n \in 0 .. NumRxDesc, Shared(n) PROVE Shared(n)'
  BY <1>1, <1>3 DEF Shared, Off
<1> QED
  BY <1>2, <1>3 DEF AInv

(* A step while the chip is off, or that switches it off. *)
LEMMA OffAgrees ==
  ASSUME nic'.on = FALSE, Fresh' PROVE AInv'
  BY DEF AInv

(* Before the first open both are stopped. *)
LEMMA AgreeInit == Init => AInv
  BY DEF Init, AInv, Fresh

(* Every step keeps the agreement. *)
LEMMA AgreeStep == IInv /\ FInv /\ AInv /\ [Next]_vars => AInv'
<1> SUFFICES ASSUME IInv, FInv, AInv, [Next]_vars PROVE AInv'
  OBVIOUS
<1>a. /\ TypeOK /\ Entry \in Slots /\ desc \in RingType /\ nic \in NicType /\ nic.pos \in Slots
      /\ NumRxDesc \in Nat /\ NumRxDesc >= 1 /\ cur_rx \in Index /\ dk \in 0 .. NumRxDesc
      /\ Quiet /\ ChipOff /\ Built
  BY EntryInSlots, RxRingAssumption DEF IInv, Shaped, Placed, TypeOK, NicType
<1>b. Fresh
  BY DEF AInv
<1>c. Slots' = Slots
  BY DEF Slots
<1>1. ASSUME PollBegin \/ ReadStatus PROVE AInv'
  <2>1. dev' = dev /\ dk' = dk /\ UNCHANGED <<cur_rx, desc, nic>>
    BY <1>1 DEF PollBegin, ReadStatus, ringv, devv
  <2>2. dev = "hw_start" => desc[Entry].own = TRUE
    BY <1>a, <1>b DEF Fresh
  <2>3. dev \in {"mark", "hw_start"} => rpc' \in {rpc, "idle", "status"}
    BY <1>1, <1>a, <2>2 DEF PollBegin, ReadStatus, Quiet
  <2> QED
    BY <2>1, <2>3, AsideAgrees
<1>2. ASSUME Judge \/ NoSkb \/ Copy \/ Deliver PROVE AInv'
  <2>1. /\ dev' = dev /\ dk' = dk /\ UNCHANGED <<cur_rx, desc, nic>>
        /\ rpc \in {"judge", "copy", "deliver"}
    BY <1>2 DEF Judge, NoSkb, Copy, Deliver, ringv, devv
  <2>2. dev \notin {"mark", "hw_start"}
    BY <1>a, <1>b, <2>1 DEF Fresh, Quiet
  <2> QED
    BY <2>1, <2>2, AsideAgrees
<1>3. ASSUME ReleaseTag PROVE AInv'
  <2>1. dev' = dev /\ UNCHANGED <<cur_rx, nic>> /\ rpc = "clear" /\ desc' = ClearTag(desc, Entry)
    BY <1>3 DEF ReleaseTag, devv
  <2>2. dev \notin {"mark", "hw_start"}
    BY <1>a, <1>b, <2>1 DEF Fresh, Quiet
  <2>3. \A i \in Slots : desc'[i].own = desc[i].own
    <3>1. TRUE \in BOOLEAN
      OBVIOUS
    <3> QED
      BY <1>a, <2>1, <3>1, MarkHandsOver
  <2> QED
    BY <2>1, <2>2, <2>3, AsideAgrees
<1>4. ASSUME ReleaseOwn PROVE AInv'
  <2>1. rpc = "hand" /\ dev' = dev /\ UNCHANGED nic
    BY <1>4 DEF ReleaseOwn, devv
  <2>2. dev \notin {"mark", "hw_start"}
    BY <1>a, <1>b, <2>1 DEF Fresh, Quiet
  <2>3. Fresh'
    BY <2>1, <2>2 DEF Fresh
  <2>4. ASSUME NEW n \in 0 .. NumRxDesc, Shared(n)
        PROVE  n - 1 \in 0 .. NumRxDesc /\ Shared(n - 1)'
    BY <1>4, <2>4, ReleaseShares
  <2> QED
    BY <2>1, <2>3, <2>4 DEF AInv
<1>5. ASSUME Open \/ OpenFails \/ RingFilled \/ AllocRxData \/ Clear \/ Up PROVE AInv'
  <2>1. nic.on = FALSE /\ dev' \notin {"mark", "hw_start"}
    BY <1>5, <1>a DEF Open, OpenFails, RingFilled, AllocRxData, Clear, Up, ChipOff
  <2>2. nic'.on = nic.on
    BY <1>5, <1>a DEF Open, OpenFails, RingFilled, AllocRxData, Clear, Up, NicType
  <2>3. Fresh'
    BY <2>1 DEF Fresh
  <2> QED
    BY <2>1, <2>2, <2>3, OffAgrees
<1>6. ASSUME FeaturesSet \/ NapiDisable \/ Drained \/ RxClose \/ SetRxMode \/ SetFeatures PROVE AInv'
  <2>1. /\ UNCHANGED <<desc, cur_rx>> /\ dev' \notin {"mark", "hw_start"}
        /\ nic'.pos = nic.pos /\ nic'.on = nic.on
    BY <1>6, <1>a DEF FeaturesSet, NapiDisable, Drained, RxClose, SetRxMode, SetFeatures, NicType, ringv
  <2> QED
    BY <2>1, AsideAgrees
<1>7. ASSUME NEW kind \in {"reset", "sleep", "close"}, Teardown(kind) PROVE AInv'
  <2>1. /\ UNCHANGED <<desc, cur_rx>> /\ dev' \notin {"mark", "hw_start"}
        /\ nic'.pos = nic.pos /\ nic'.on = nic.on
    BY <1>7, <1>a DEF Teardown, NicType, ringv
  <2> QED
    BY <2>1, AsideAgrees
<1>8. ASSUME HwReset PROVE AInv'
  <2>1. nic'.on = FALSE /\ dev' = "indexes"
    BY <1>8, <1>a DEF HwReset, NicType
  <2> QED
    BY <2>1, OffAgrees DEF Fresh
<1>9. ASSUME InitRingIndexes PROVE AInv'
  <2>1. nic' = nic /\ nic.on = FALSE /\ dev' # "hw_start" /\ cur_rx' = 0 /\ dk' = 0
    BY <1>9, <1>a DEF InitRingIndexes, AfterCleanup, ChipOff
  <2>2. Fresh'
    BY <1>a, <1>c, <2>1 DEF Fresh, Slots
  <2> QED
    BY <2>1, <2>2, OffAgrees
<1>10. ASSUME Mark PROVE AInv'
  <2>1. /\ dev = "mark" /\ dev' = "mark" /\ nic' = nic /\ nic.on = FALSE /\ cur_rx' = 0
        /\ dk' = dk + 1 /\ desc' = MarkToAsic(desc, dk) /\ dk \in Slots
    BY <1>10, <1>a, <1>b DEF Mark, ChipOff, Fresh, Slots
  <2>2. /\ \A j \in Slots \ {dk} : desc'[j] = desc[j]
        /\ desc'[dk].own = TRUE
    <3>1. TRUE \in BOOLEAN
      OBVIOUS
    <3> QED
      BY <1>a, <2>1, <3>1, MarkHandsOver
  <2>3. Fresh'
    BY <1>a, <1>b, <1>c, <2>1, <2>2 DEF Fresh, Slots
  <2> QED
    BY <2>1, <2>3, OffAgrees
<1>11. ASSUME NapiEnable PROVE AInv'
  <2>1. nic' = nic /\ nic.on = FALSE /\ rpc' = "idle" /\ UNCHANGED <<cur_rx, desc>> /\ dk = NumRxDesc
    BY <1>11, <1>a DEF NapiEnable, ChipOff, Quiet, ringv, pollv
  <2>2. Fresh'
    BY <1>11, <1>a, <1>b, <1>c, <2>1 DEF NapiEnable, Fresh, Slots
  <2> QED
    BY <2>1, <2>2, OffAgrees
<1>12. ASSUME HwStart PROVE AInv'
  <2>1. /\ dev = "hw_start" /\ dev' = "rx_mode" /\ UNCHANGED <<cur_rx, desc>> /\ nic'.pos = 0
        /\ cur_rx = 0 /\ \A i \in Slots : desc[i].own = TRUE
    BY <1>12, <1>a, <1>b DEF HwStart, NicType, Fresh, ringv
  <2>2. Entry = 0 /\ Entry' = 0
    BY <1>a, <2>1 DEF Entry
  <2>3. \A i \in Slots : Off(i)' >= 0
    BY <1>a, <2>2 DEF Off, Slots
  <2>4. Shared(0)' /\ 0 \in 0 .. NumRxDesc
    BY <1>a, <1>c, <2>1, <2>2, <2>3 DEF Shared
  <2> QED
    BY <2>1, <2>4 DEF AInv, Fresh
<1>13. ASSUME NEW f \in Frames, ChipReceive(f) PROVE AInv'
  <2>1. /\ UNCHANGED <<desc, cur_rx, dev, dk, rpc>> /\ nic'.pos = nic.pos /\ nic'.on = nic.on
    BY <1>13, <1>a DEF ChipReceive, NicType, devv, pollv
  <2> QED
    BY <2>1, AsideAgrees
<1>14. ASSUME ChipWriteBack PROVE AInv'
  <2>1. /\ UNCHANGED <<cur_rx, dev, dk, rpc>> /\ nic.on = TRUE /\ nic'.on = TRUE
    BY <1>14, <1>a DEF ChipWriteBack, NicType, devv, pollv
  <2>2. Fresh'
    BY <1>a, <2>1 DEF Fresh, ChipOff, FInv, Writing
  <2>3. ASSUME NEW n \in 0 .. NumRxDesc, Shared(n)
        PROVE  n + 1 \in 0 .. NumRxDesc /\ Shared(n + 1)'
    BY <1>14, <2>3, WriteShares
  <2> QED
    BY <2>1, <2>2, <2>3 DEF AInv
<1>15. ASSUME UNCHANGED vars PROVE AInv'
  BY <1>15, AsideAgrees DEF vars, ringv, pollv, devv
<1> QED
  BY <1>1, <1>2, <1>3, <1>4, <1>5, <1>6, <1>7, <1>8, <1>9, <1>10, <1>11, <1>12, <1>13, <1>14, <1>15
  DEF Next, Poll, Device

(* The inductive invariants hold together. *)
LEMMA AgreementInvariant == Spec => [](IInv /\ FInv /\ AInv)
<1>1. Init => FInv
  BY DEF Init, NoDesc, FInv, Intact, Reading, Writing, OneFrame
<1> QED
  BY Invariant, FrameStep, AgreeInit, AgreeStep, <1>1, PTL DEF Spec

(* Chip and host never disagree on whose a descriptor is, nor on where the    *)
(* other one will go on, through any number of frames, resets and sleeps.     *)
THEOREM ChipAndHostAgree == Spec => []Agreed
<1>1. IInv /\ AInv => Agreed
  <2> SUFFICES ASSUME IInv, AInv, nic.on PROVE Agreed
    BY DEF Agreed
  <2>1. /\ cur_rx \in Index /\ desc \in RingType /\ nic.on = TRUE /\ Entry \in Slots
        /\ NumRxDesc \in Nat /\ NumRxDesc >= 1
    BY EntryInSlots, RxRingAssumption DEF IInv, TypeOK, NicType
  <2>2. PICK n \in 0 .. NumRxDesc : Shared(n)
    BY <2>1 DEF AInv
  <2>3. nic.pos = (cur_rx + n) % NumRxDesc
    BY <2>1, <2>2, AddMod DEF Shared, Entry
  <2>4. ASSUME NEW j \in Slots PROVE desc[(cur_rx + j) % NumRxDesc].own <=> j >= n
    <3>1. j \in 0 .. NumRxDesc - 1
      BY DEF Slots
    <3>2. /\ (cur_rx + j) % NumRxDesc \in Slots /\ Off((cur_rx + j) % NumRxDesc) = j
      BY <2>1, <3>1, OffNumbers
    <3>3. desc[(cur_rx + j) % NumRxDesc].own \in BOOLEAN
      BY <2>1, <3>2 DEF RingType, DescType
    <3> QED
      BY <2>2, <3>2, <3>3 DEF Shared
  <2> QED
    BY <2>1, <2>2, <2>3, <2>4 DEF Agreed
<1> QED
  BY AgreementInvariant, <1>1, PTL

-----------------------------------------------------------------------------
(* The queue that RxQueue specifies.  Nothing polls a chip that is off, the   *)
(* frame in DMA is in no descriptor yet, and rtl_rx copies no broken frame.   *)
QInv ==
    /\ rpc # "idle" => nic.on = TRUE
    /\ nic.mid # NoFrame => \A i \in Slots : desc[i].status # nic.mid
    /\ rpc \in {"copy", "deliver"} => rp.status \notin Broken

(* Handing a descriptor over leaves no status in it; its tag alone says nothing. *)
LEMMA MarkBlanks ==
  ASSUME desc \in RingType, NEW i \in Slots, NEW end \in BOOLEAN
  PROVE  /\ \A j \in Slots : ClearTag(desc, i)[j].status = desc[j].status
         /\ HandOver(desc, i, end)[i].status = NoFrame
         /\ MarkToAsic(desc, i)[i].status = NoFrame
<1>1. ASSUME NEW ds \in RingType, NEW e \in BOOLEAN
      PROVE  HandOver(ds, i, e)[i].status = NoFrame
  <2> DEFINE new == [ds[i] EXCEPT !.own = TRUE, !.eor = e, !.status = NoFrame]
  <2>1. HandOver(ds, i, e) = [ds EXCEPT ![i] = new]
    BY DEF HandOver, RingType
  <2>2. new.status = NoFrame
    BY DEF RingType, DescType
  <2> HIDE DEF new
  <2> QED
    BY <2>1, <2>2 DEF RingType
<1>2. ClearTag(desc, i) \in RingType /\ desc[i].eor \in BOOLEAN
  BY MarkKeepsEnd DEF RingType, DescType
<1>3. \A j \in Slots : ClearTag(desc, i)[j].status = desc[j].status
  BY MarkHandsOver
<1> QED
  BY <1>1, <1>2, <1>3 DEF MarkToAsic

(* A step that leaves the poll, the frame in DMA and the statuses alone. *)
LEMMA AsideQueues ==
  ASSUME QInv, UNCHANGED <<rpc, rp>>, nic'.on = nic.on \/ rpc = "idle", nic'.mid = nic.mid,
         \A i \in Slots : desc'[i].status \in {desc[i].status, NoFrame} \/ nic.mid = NoFrame
  PROVE  QInv'
BY DEF QInv, Slots

(* Every step keeps these. *)
LEMMA QueueStep ==
  ASSUME ~BusyPoll, IInv, FInv, QInv, [Next]_vars PROVE QInv'
<1>a. /\ TypeOK /\ Entry \in Slots /\ desc \in RingType /\ nic \in NicType /\ rp \in RpType
      /\ Quiet /\ ChipOff /\ Slots' = Slots
      /\ nic.on = FALSE => nic.mid = NoFrame
  BY EntryInSlots DEF IInv, Placed, TypeOK, Slots, FInv, Writing
<1>1. ASSUME PollBegin PROVE QInv'
  <2>1. /\ nic.on = TRUE /\ UNCHANGED <<nic, desc>> /\ rpc' = "status"
    BY <1>1, <1>a DEF PollBegin, NicType, ringv
  <2> QED
    BY <1>a, <2>1 DEF QInv
<1>2. ASSUME ReadStatus \/ Judge \/ NoSkb \/ Copy \/ Deliver PROVE QInv'
  <2>1. /\ UNCHANGED <<nic, desc>> /\ rpc # "idle"
        /\ rpc' \in {"copy", "deliver"} => rp'.status = rp.status /\ rp.status \notin Broken
    BY <1>2, <1>a DEF ReadStatus, Judge, NoSkb, Copy, Deliver, Refused, QInv, RpType, ringv
  <2> QED
    BY <1>a, <2>1 DEF QInv
<1>3. ASSUME ReleaseTag PROVE QInv'
  <2>1. /\ UNCHANGED nic /\ rpc = "clear" /\ rpc' = "hand" /\ desc' = ClearTag(desc, Entry)
    BY <1>3 DEF ReleaseTag
  <2>2. \A j \in Slots : desc'[j].status = desc[j].status
    <3>1. TRUE \in BOOLEAN
      OBVIOUS
    <3> QED
      BY <1>a, <2>1, <3>1, MarkBlanks
  <2> QED
    BY <1>a, <2>1, <2>2 DEF QInv
<1>4. ASSUME ReleaseOwn PROVE QInv'
  <2>1. /\ UNCHANGED nic /\ rpc = "hand" /\ rpc' = "status"
        /\ desc' = HandOver(desc, Entry, rp.eor) /\ rp.eor \in BOOLEAN
    BY <1>4, <1>a DEF ReleaseOwn, RpType
  <2>2. /\ desc'[Entry].status = NoFrame
        /\ \A j \in Slots \ {Entry} : desc'[j] = desc[j]
    BY <1>a, <2>1, MarkBlanks, MarkHandsOver
  <2> QED
    BY <1>a, <2>1, <2>2 DEF QInv
<1>5. ASSUME Open \/ OpenFails \/ RingFilled \/ AllocRxData \/ Clear \/ Mark PROVE QInv'
  <2>1. /\ nic.on = FALSE /\ UNCHANGED <<nic, rpc, rp>>
    BY <1>5, <1>a DEF Open, OpenFails, RingFilled, AllocRxData, Clear, Mark, ChipOff, pollv
  <2> QED
    BY <1>a, <2>1, AsideQueues
<1>6. ASSUME Up \/ FeaturesSet \/ NapiDisable \/ Drained \/ RxClose \/ SetRxMode \/ SetFeatures
             \/ InitRingIndexes \/ NapiEnable
      PROVE QInv'
  <2>1. /\ UNCHANGED <<desc, rpc, rp>> /\ nic'.mid = nic.mid /\ nic'.on = nic.on
    BY <1>6, <1>a DEF Up, FeaturesSet, NapiDisable, Drained, RxClose, SetRxMode, SetFeatures,
                      InitRingIndexes, NapiEnable, NicType, ringv, pollv
  <2> QED
    BY <2>1, AsideQueues
<1>7. ASSUME NEW kind \in {"reset", "sleep", "close"}, Teardown(kind) PROVE QInv'
  <2>1. /\ UNCHANGED <<desc, rpc, rp>> /\ nic'.mid = nic.mid /\ nic'.on = nic.on
    BY <1>7, <1>a DEF Teardown, NicType, ringv, pollv
  <2> QED
    BY <2>1, AsideQueues
<1>8. ASSUME HwReset PROVE QInv'
  <2>1. nic'.mid = NoFrame /\ rpc' = "idle"
    BY <1>8, <1>a DEF HwReset, NicType, Quiet, pollv
  <2> QED
    BY <2>1 DEF QInv
<1>9. ASSUME HwStart PROVE QInv'
  <2>1. /\ UNCHANGED <<desc, rpc, rp>> /\ nic'.mid = nic.mid /\ nic'.on = TRUE
    BY <1>9, <1>a DEF HwStart, NicType, ringv, pollv
  <2> QED
    BY <1>a, <2>1 DEF QInv
<1>10. ASSUME NEW f \in Frames, ChipReceive(f) PROVE QInv'
  <2>1. /\ UNCHANGED <<desc, rpc, rp>> /\ nic'.mid = f /\ nic'.on = nic.on
        /\ \A i \in Slots : desc[i].status # f
    BY <1>10, <1>a DEF ChipReceive, NicType, pollv
  <2> QED
    BY <1>a, <2>1 DEF QInv
<1>11. ASSUME ChipWriteBack PROVE QInv'
  <2>1. UNCHANGED <<rpc, rp>> /\ nic'.mid = NoFrame /\ nic'.on = TRUE
    BY <1>11, <1>a DEF ChipWriteBack, NicType, pollv
  <2> QED
    BY <2>1 DEF QInv
<1>12. ASSUME UNCHANGED vars PROVE QInv'
  BY <1>12, AsideQueues DEF vars, ringv, pollv
<1> QED
  BY <1>1, <1>2, <1>3, <1>4, <1>5, <1>6, <1>7, <1>8, <1>9, <1>10, <1>11, <1>12
  DEF Next, Poll, Device

(* The place k after the one rtl_rx reads next, and the frames from the       *)
(* oldest one of n that it is not done with.                                  *)
Place(k) == (cur_rx + k) % NumRxDesc
Oldest(n) == [j \in 1 .. n - Done |-> desc[Place(Done + j - 1)].status]

WaitingShown ==
    TypeOK /\ nic.on = TRUE =>
        \A n \in 0 .. NumRxDesc : Shared(n) => Waiting = Oldest(n)

(* Every place is a slot of the ring. *)
LEMMA PlaceInSlots ==
  ASSUME cur_rx \in Index, desc \in RingType
  PROVE  \A k \in Int : Place(k) \in Slots /\ desc[Place(k)].status \in FrameOrNo
<1>1. \A k \in Int : cur_rx + k \in Int
  BY DEF Index
<1>2. \A k \in Int : Place(k) \in Slots
  BY <1>1, Div DEF Place, Slots
<1> QED
  BY <1>2 DEF RingType, DescType

(* Those are what waits, in a ring of which the host has n descriptors. *)
LEMMA WaitingIs == WaitingShown
<1> SUFFICES ASSUME TypeOK, nic.on = TRUE, NEW n \in 0 .. NumRxDesc, Shared(n)
             PROVE  Waiting = Oldest(n)
  BY DEF WaitingShown
<1>a. /\ cur_rx \in Index /\ desc \in RingType /\ NumRxDesc \in Nat /\ NumRxDesc >= 1
  BY RxRingAssumption DEF TypeOK
<1>1. ASSUME NEW j \in 0 .. NumRxDesc - 1 PROVE ~desc[Place(j)].own <=> j < n
  <2>1. Place(j) \in Slots /\ Off(Place(j)) = j
    BY <1>a, OffNumbers DEF Place
  <2>2. desc[Place(j)].own \in BOOLEAN
    BY <1>a, <2>1 DEF RingType, DescType
  <2> QED
    BY <1>a, <2>1, <2>2 DEF Shared
<1>2. ASSUME NEW m \in 0 .. NumRxDesc PROVE m \in Held <=> m <= n
  <2>1. m \in Held <=> \A j \in 0 .. m - 1 : ~desc[Place(j)].own
    BY DEF Held, Place
  <2>2. CASE m <= n
    BY <1>a, <1>1, <2>1, <2>2
  <2>3. CASE m > n
    <3>1. n \in 0 .. m - 1 /\ n \in 0 .. NumRxDesc - 1
      BY <1>a, <2>3
    <3> QED
      BY <1>a, <1>1, <2>1, <2>3, <3>1
  <2> QED
    BY <1>a, <2>2, <2>3
<1>3. n \in Held /\ \A m \in Held : m \in 0 .. NumRxDesc /\ m <= n
  BY <1>a, <1>2 DEF Held
<1>4. Written \in Held /\ n <= Written
  <2>1. \E w \in Held : \A m \in Held : m <= w
    BY <1>3
  <2> QED
    BY <1>3, <2>1 DEF Written
<1>5. Written = n
  BY <1>a, <1>3, <1>4
<1>6. Done \in {0, 1} /\ cur_rx \in Int
  BY <1>a DEF Done, Index
<1>7. \A j \in 1 .. n - Done : (cur_rx + Done + j - 1) % NumRxDesc = Place(Done + j - 1)
  <2>1. ASSUME NEW j \in 1 .. n - Done PROVE cur_rx + Done + j - 1 = cur_rx + (Done + j - 1)
    BY <1>a, <1>6
  <2> QED
    BY <2>1 DEF Place
<1>8. Waiting = [j \in 1 .. n - Done |-> desc[(cur_rx + Done + j - 1) % NumRxDesc].status]
  BY <1>5 DEF Waiting
<1> QED
  BY <1>7, <1>8 DEF Oldest

(* ... and so it is after a step. *)
LEMMA WaitingNext == WaitingShown'
  BY WaitingIs, PTL

(* What waits stays as it is when the ring does. *)
LEMMA SameWaits ==
  ASSUME IInv, cur_rx' = cur_rx, nic'.on = nic.on, Done' = Done,
         \A i \in Slots : desc'[i].own = desc[i].own /\ desc'[i].status = desc[i].status
  PROVE  Waiting' = Waiting
<1>1. \A k \in Int : (cur_rx + k) % NumRxDesc \in Slots
  <2>1. cur_rx \in Int
    BY DEF IInv, TypeOK, Index
  <2> QED
    BY <2>1, Div DEF Slots
<1>2. Held' = Held
  <2>1. ASSUME NEW m \in 0 .. NumRxDesc
        PROVE  (\A j \in 0 .. m - 1 : ~desc'[(cur_rx + j) % NumRxDesc].own)
               <=> \A j \in 0 .. m - 1 : ~desc[(cur_rx + j) % NumRxDesc].own
    BY <1>1
  <2> QED
    BY <2>1 DEF Held
<1>3. Written' = Written
  BY <1>2 DEF Written
<1>4. \A j \in Int : desc'[(cur_rx + Done + j - 1) % NumRxDesc].status
                    = desc[(cur_rx + Done + j - 1) % NumRxDesc].status
  <2>1. \A j \in Int : cur_rx + Done + j - 1 = cur_rx + (Done + j - 1) /\ Done + j - 1 \in Int
    BY DEF IInv, TypeOK, Index, Done
  <2> QED
    BY <1>1, <2>1
<1>5. \A w \in 1 .. Written - Done : w \in Int
  OBVIOUS
<1>6. Waiting' = IF ~nic.on THEN <<>>
                 ELSE [j \in 1 .. Written - Done
                         |-> desc'[(cur_rx + Done + j - 1) % NumRxDesc].status]
  BY <1>3 DEF Waiting
<1> QED
  BY <1>4, <1>5, <1>6 DEF Waiting

(* The head and the tail of a sequence given by its elements, and one more.   *)
LEMMA Elements ==
  ASSUME NEW S, NEW g \in [Nat -> S], NEW n \in Nat, NEW s, s = [j \in 1 .. n |-> g[j]]
  PROVE  /\ n >= 1 => s # <<>> /\ Head(s) = g[1]
         /\ n >= 1 => Tail(s) = [j \in 1 .. n - 1 |-> g[j + 1]]
         /\ \A x \in S : Append(s, x) = [j \in 1 .. n + 1 |-> IF j = n + 1 THEN x ELSE g[j]]
<1>1. s \in Seq(S) /\ Len(s) = n /\ \A j \in 1 .. n : s[j] = g[j]
  OBVIOUS
<1>2. ASSUME n >= 1 PROVE s # <<>> /\ Head(s) = g[1]
  BY <1>1, <1>2
<1>3. ASSUME n >= 1 PROVE Tail(s) = [j \in 1 .. n - 1 |-> g[j + 1]]
  BY <1>1, <1>3
<1>4. ASSUME NEW x \in S
      PROVE  Append(s, x) = [j \in 1 .. n + 1 |-> IF j = n + 1 THEN x ELSE g[j]]
  <2>1. Append(s, x) = [j \in 1 .. Len(s) + 1 |-> IF j = Len(s) + 1 THEN x ELSE s[j]]
    BY <1>1
  <2> QED
    BY <1>1, <2>1
<1> QED
  BY <1>2, <1>3, <1>4

(* What the poll has read, and is about to hand over or drop, is the head of  *)
(* the queue, and leaves it when rtl_rx is done with it.                      *)
LEMMA HeadLeaves ==
  ASSUME IInv, FInv, AInv, QInv, TypeOK', rpc \in {"judge", "copy", "deliver"},
         UNCHANGED <<cur_rx, desc, nic>>, rpc' = "clear"
  PROVE  /\ Waiting # <<>> /\ Head(Waiting) = desc[Entry].status
         /\ Waiting' = Tail(Waiting)
<1>a. /\ cur_rx \in Index /\ desc \in RingType /\ NumRxDesc \in Nat /\ NumRxDesc >= 1
      /\ nic.on = TRUE /\ Done = 0 /\ Done' = 1 /\ desc[Entry].own = FALSE /\ cur_rx \in Int
      /\ TypeOK
  BY RxRingAssumption DEF IInv, TypeOK, QInv, FInv, Reading, Done, Index
<1>1. PICK n \in 0 .. NumRxDesc : Shared(n)
  BY <1>a DEF AInv
<1>2. n >= 1 /\ n \in Nat
  BY <1>a, <1>1, OffNumbers DEF Shared
<1> DEFINE g == [j \in Nat |-> desc[Place(j - 1)].status]
<1>3. \A k \in Int : Place(k) \in Slots /\ desc[Place(k)].status \in FrameOrNo
  BY <1>a, PlaceInSlots
<1>4. g \in [Nat -> FrameOrNo]
  BY <1>3
<1>5. Waiting = [j \in 1 .. n |-> g[j]]
  <2>1. Waiting = [j \in 1 .. n - 0 |-> desc[Place(0 + j - 1)].status]
    BY <1>a, <1>1, WaitingIs DEF WaitingShown, Oldest
  <2>2. \A j \in 1 .. n : 0 + j - 1 = j - 1 /\ j \in Nat
    BY <1>2
  <2> QED
    BY <1>2, <2>1, <2>2
<1>6. Waiting' = [j \in 1 .. n - 1 |-> g[j + 1]]
  <2>1. Shared(n)'
    BY <1>1 DEF Shared, Off, Entry, Slots
  <2>2. Waiting' = Oldest(n)'
    BY <1>a, <2>1, WaitingNext DEF WaitingShown
  <2>3. Oldest(n)' = [j \in 1 .. n - 1 |-> desc[Place(1 + j - 1)].status]
    BY <1>a DEF Oldest, Place
  <2>4. \A j \in 1 .. n - 1 : 1 + j - 1 = (j + 1) - 1 /\ j + 1 \in Nat
    BY <1>2
  <2> QED
    BY <2>2, <2>3, <2>4
<1>7. g[1] = desc[Entry].status
  BY <1>a DEF Place, Entry
<1> HIDE DEF g
<1> QED
  BY <1>2, <1>4, <1>5, <1>6, <1>7, Elements

(* Handing the descriptor over makes no difference to what waits. *)
LEMMA ReleaseWaits ==
  ASSUME IInv, FInv, AInv, QInv, TypeOK', ReleaseOwn
  PROVE  Waiting' = Waiting
<1>a. /\ cur_rx \in Index /\ desc \in RingType /\ NumRxDesc \in Nat /\ NumRxDesc >= 1
      /\ nic.on = TRUE /\ nic'.on = TRUE /\ Done = 1 /\ Done' = 0 /\ cur_rx \in Int
      /\ TypeOK /\ Entry \in 0 .. NumRxDesc - 1
  BY RxRingAssumption, EntryInSlots DEF IInv, TypeOK, QInv, ReleaseOwn, Done, Index, Slots
<1>1. PICK n \in 0 .. NumRxDesc : Shared(n)
  BY <1>a DEF AInv
<1>2. n - 1 \in 0 .. NumRxDesc /\ Shared(n - 1)' /\ n <= NumRxDesc
  BY <1>a, <1>1, ReleaseShares
<1>3. /\ Waiting = [j \in 1 .. n - 1 |-> desc[Place(1 + j - 1)].status]
      /\ Waiting' = [j \in 1 .. n - 1 - 0 |-> desc'[Place(0 + j - 1)'].status]
  <2>1. Waiting = Oldest(n)
    BY <1>a, <1>1, WaitingIs DEF WaitingShown
  <2>2. Waiting' = Oldest(n - 1)'
    BY <1>a, <1>2, WaitingNext DEF WaitingShown
  <2>3. Oldest(n - 1)' = [j \in 1 .. n - 1 - 0 |-> desc'[Place(0 + j - 1)'].status]
    BY <1>a DEF Oldest, Place
  <2> QED
    BY <1>a, <2>1, <2>2, <2>3 DEF Oldest
<1>4. ASSUME NEW j \in 1 .. n - 1
      PROVE  desc[Place(1 + j - 1)].status = desc'[Place(0 + j - 1)'].status
  <2>1. j \in 1 .. NumRxDesc - 1 /\ j - 1 \in 0 .. NumRxDesc - 1 /\ 0 + j - 1 = j - 1 /\ 1 + j - 1 = j
    BY <1>a, <1>2
  <2>2. Place(j) = IF Entry + j < NumRxDesc THEN Entry + j ELSE Entry + j - NumRxDesc
    <3>1. cur_rx \in Index /\ j \in 0 .. NumRxDesc
      BY <1>a, <2>1
    <3> QED
      BY <3>1, AddMod DEF Place, Entry
  <2>3. /\ cur_rx' \in Index /\ cur_rx' = (cur_rx + 1) % U32
        /\ Entry' = IF Entry + 1 < NumRxDesc THEN Entry + 1 ELSE 0
    BY <1>a, NextSlot, EntryInSlots DEF ReleaseOwn, Entry
  <2>4. Place(j - 1)' = IF Entry' + (j - 1) < NumRxDesc THEN Entry' + (j - 1)
                        ELSE Entry' + (j - 1) - NumRxDesc
    <3>1. \A x \in Index, k \in 0 .. NumRxDesc :
            (x + k) % NumRxDesc = IF (x % NumRxDesc) + k < NumRxDesc
                                  THEN (x % NumRxDesc) + k
                                  ELSE (x % NumRxDesc) + k - NumRxDesc
      BY AddMod
    <3> QED
      BY <1>a, <2>1, <2>3, <3>1 DEF Place, Entry
  <2>5. Place(j - 1)' = Place(j) /\ Place(j) \in Slots \ {Entry}
    BY <1>a, <2>1, <2>2, <2>3, <2>4 DEF Slots
  <2>6. \A i \in Slots \ {Entry} : desc'[i] = desc[i]
    <3>1. rp.eor \in BOOLEAN /\ Entry \in Slots
      BY <1>a DEF TypeOK, RpType, Slots
    <3> QED
      BY <1>a, <3>1, MarkHandsOver DEF ReleaseOwn
  <2> QED
    BY <2>1, <2>5, <2>6
<1>5. n - 1 - 0 = n - 1
  BY <1>2
<1> QED
  BY <1>3, <1>4, <1>5

(* A frame that the chip writes back joins the queue. *)
LEMMA WriteJoins ==
  ASSUME IInv, FInv, AInv, QInv, TypeOK', ChipWriteBack
  PROVE  /\ Waiting' = Append(Waiting, nic.mid)
         /\ \A k \in DOMAIN Waiting : Waiting[k] # nic.mid
<1>a. /\ cur_rx \in Index /\ desc \in RingType /\ NumRxDesc \in Nat /\ NumRxDesc >= 1
      /\ nic.on = TRUE /\ nic'.on = TRUE /\ nic.mid # NoFrame /\ nic.mid \in FrameOrNo
      /\ Done \in {0, 1} /\ Done' = Done /\ cur_rx \in Int /\ cur_rx' = cur_rx
      /\ TypeOK /\ Entry \in Slots
  BY RxRingAssumption, EntryInSlots
  DEF IInv, TypeOK, NicType, ChipWriteBack, pollv, Done, Index
<1>1. PICK n \in 0 .. NumRxDesc : Shared(n)
  BY <1>a DEF AInv
<1>2. n + 1 \in 0 .. NumRxDesc /\ Shared(n + 1)' /\ Off(nic.pos) = n /\ n \in 0 .. NumRxDesc - 1
  BY <1>a, <1>1, WriteShares
<1>3. n >= Done
  <2>1. CASE Done = 1
    <3>1. desc[Entry].own = FALSE
      BY <1>a, <2>1 DEF Done, FInv, Reading
    <3> QED
      BY <1>a, <1>1, <2>1, <3>1, OffNumbers DEF Shared
  <2> QED
    BY <1>a, <2>1
<1> DEFINE g == [j \in Nat |-> desc[Place(Done + j - 1)].status]
           d == n - Done
<1>4. \A k \in Int : Place(k) \in Slots /\ desc[Place(k)].status \in FrameOrNo
  BY <1>a, PlaceInSlots
<1>5. g \in [Nat -> FrameOrNo] /\ d \in Nat /\ \A j \in Nat : g[j] # nic.mid
  <2>1. \A j \in Nat : Done + j - 1 \in Int
    BY <1>a
  <2>2. \A j \in Nat : g[j] = desc[Place(Done + j - 1)].status
    OBVIOUS
  <2>3. \A j \in Nat : g[j] \in FrameOrNo /\ g[j] # nic.mid
    BY <1>a, <1>4, <2>1, <2>2 DEF QInv
  <2>4. g \in [Nat -> FrameOrNo]
    BY <2>2, <2>3
  <2>5. d \in Nat
    BY <1>a, <1>3
  <2> QED
    BY <2>3, <2>4, <2>5
<1>6. Waiting = [j \in 1 .. d |-> g[j]]
  <2>1. Waiting = [j \in 1 .. n - Done |-> desc[Place(Done + j - 1)].status]
    BY <1>a, <1>1, WaitingIs DEF WaitingShown, Oldest
  <2> QED
    BY <2>1
<1>7. Place(n) = nic.pos
  <2>1. nic.pos = IF Entry + n < NumRxDesc THEN Entry + n ELSE Entry + n - NumRxDesc
    BY <1>1 DEF Shared
  <2> QED
    BY <1>a, <1>2, <2>1, AddMod DEF Place, Entry
<1>8. /\ \A i \in Slots \ {nic.pos} : desc'[i] = desc[i]
      /\ desc'[nic.pos].status = nic.mid
  <2>1. nic.pos \in Slots
    BY <1>a DEF TypeOK, NicType
  <2> QED
    BY <1>a, <2>1 DEF ChipWriteBack, RingType
<1>9. ASSUME NEW j \in 1 .. n + 1 - Done
      PROVE  desc'[Place(Done + j - 1)].status = IF j = d + 1 THEN nic.mid ELSE g[j]
  <2>1. CASE j = d + 1
    <3>1. Done + j - 1 = n
      BY <1>a, <2>1
    <3> QED
      BY <1>7, <1>8, <2>1, <3>1
  <2>2. CASE j # d + 1
    <3>1. Done + j - 1 \in 0 .. NumRxDesc - 1 /\ Done + j - 1 # n /\ n \in 0 .. NumRxDesc - 1
      BY <1>a, <1>2, <2>2
    <3>2. Off(Place(Done + j - 1)) = Done + j - 1 /\ Off(Place(n)) = n
      BY <1>a, <3>1, OffNumbers DEF Place
    <3>3. Place(Done + j - 1) \in Slots \ {nic.pos}
      BY <1>4, <1>7, <3>1, <3>2
    <3>4. j \in Nat
      BY <1>a
    <3> QED
      BY <1>8, <2>2, <3>3, <3>4
  <2> QED
    BY <2>1, <2>2
<1>10. Waiting' = [j \in 1 .. n + 1 - Done |-> desc'[Place(Done + j - 1)].status]
  <2>1. Waiting' = Oldest(n + 1)'
    BY <1>a, <1>2, WaitingNext DEF WaitingShown
  <2> QED
    BY <1>a, <2>1 DEF Oldest, Place
<1>11. n + 1 - Done = d + 1
  BY <1>a
<1>12. Waiting' = [j \in 1 .. d + 1 |-> IF j = d + 1 THEN nic.mid ELSE g[j]]
  <2> HIDE DEF g, d
  <2> QED
    BY <1>9, <1>10, <1>11
<1> HIDE DEF g, d
<1>13. Waiting' = Append(Waiting, nic.mid)
  BY <1>a, <1>5, <1>6, <1>12, Elements
<1>14. \A k \in DOMAIN Waiting : Waiting[k] # nic.mid
  BY <1>5, <1>6
<1> QED
  BY <1>13, <1>14

(* A step that changes nothing the queue depends on is none of the queue's. *)
LEMMA Stutters ==
  ASSUME Waiting' = Waiting, handed' = handed
  PROVE  [Queue!Next]_(Queue!rv)
BY DEF Queue!rv

(* Every step of the receive path is one of the queue's, or none. *)
LEMMA StepRefines ==
  ASSUME ~BusyPoll, IInv, FInv, AInv, QInv, TypeOK', [Next]_vars
  PROVE  [Queue!Next]_(Queue!rv)
<1>a. /\ TypeOK /\ Entry \in Slots /\ desc \in RingType /\ nic \in NicType /\ rp \in RpType
      /\ Quiet /\ ChipOff
  BY EntryInSlots DEF IInv, Placed, TypeOK
<1>1. ASSUME PollBegin \/ ReadStatus \/ Copy PROVE [Queue!Next]_(Queue!rv)
  <2>1. UNCHANGED <<cur_rx, desc, nic, handed>> /\ Done' = Done
    BY <1>1 DEF PollBegin, ReadStatus, Copy, Done, ringv
  <2> QED
    BY <2>1, SameWaits, Stutters
<1>2. ASSUME Judge PROVE [Queue!Next]_(Queue!rv)
  <2>1. UNCHANGED <<cur_rx, desc, nic, handed>> /\ rpc = "judge"
    BY <1>2 DEF Judge, ringv
  <2>2. CASE Refused(rp.status)
    <3>1. rpc' = "clear" /\ rp.status = desc[Entry].status
      BY <1>2, <2>2 DEF Judge, FInv, Reading
    <3>2. /\ Waiting # <<>> /\ Head(Waiting) = desc[Entry].status
          /\ Waiting' = Tail(Waiting)
      BY <2>1, <3>1, HeadLeaves
    <3>3. Head(Waiting) \notin Good
      BY <2>2, <3>1, <3>2, RxRingAssumption DEF Refused
    <3> QED
      BY <2>1, <3>2, <3>3 DEF Queue!Next, Queue!Leave, Queue!Discard
  <2>3. CASE ~Refused(rp.status)
    <3>1. Done' = Done
      BY <1>2, <2>3 DEF Judge, Done
    <3> QED
      BY <2>1, <3>1, SameWaits, Stutters
  <2> QED
    BY <2>2, <2>3
<1>3. ASSUME NoSkb PROVE [Queue!Next]_(Queue!rv)
  <2>1. UNCHANGED <<cur_rx, desc, nic, handed>> /\ rpc = "copy" /\ rpc' = "clear" /\ Lossy
    BY <1>3 DEF NoSkb, ringv
  <2>2. Waiting # <<>> /\ Waiting' = Tail(Waiting)
    BY <2>1, HeadLeaves
  <2> QED
    BY <2>1, <2>2 DEF Queue!Next, Queue!Leave, Queue!Discard
<1>4. ASSUME Deliver PROVE [Queue!Next]_(Queue!rv)
  <2>1. /\ UNCHANGED <<cur_rx, desc, nic>> /\ rpc = "deliver" /\ rpc' = "clear"
        /\ handed' = [data |-> rp.data, status |-> rp.status, tag |-> desc[Entry].tag]
    BY <1>4 DEF Deliver, ringv
  <2>2. /\ Waiting # <<>> /\ Head(Waiting) = desc[Entry].status
        /\ Waiting' = Tail(Waiting)
    BY <2>1, HeadLeaves
  <2>3. /\ rp.status = desc[Entry].status /\ rp.data = page[Entry]
        /\ desc[Entry].status = page[Entry] /\ desc[Entry].tag = page[Entry]
    BY <1>a, <2>1 DEF FInv, Reading, Intact
  <2>4. Head(Waiting) \notin Broken /\ handed' = Queue!Whole(Head(Waiting))
    BY <2>1, <2>2, <2>3 DEF QInv, Queue!Whole
  <2> QED
    BY <2>2, <2>4 DEF Queue!Next, Queue!Leave, Queue!Deliver
<1>5. ASSUME ReleaseTag PROVE [Queue!Next]_(Queue!rv)
  <2>1. /\ UNCHANGED <<cur_rx, nic, handed>> /\ Done' = Done /\ desc' = ClearTag(desc, Entry)
    BY <1>5 DEF ReleaseTag, Done
  <2>2. \A i \in Slots : desc'[i].own = desc[i].own /\ desc'[i].status = desc[i].status
    <3>1. TRUE \in BOOLEAN
      OBVIOUS
    <3> QED
      BY <1>a, <2>1, <3>1, MarkHandsOver
  <2> QED
    BY <2>1, <2>2, SameWaits, Stutters
<1>6. ASSUME ReleaseOwn PROVE [Queue!Next]_(Queue!rv)
  <2>1. handed' = handed
    BY <1>6 DEF ReleaseOwn
  <2> QED
    BY <1>6, <2>1, ReleaseWaits, Stutters
<1>7. ASSUME Open \/ OpenFails \/ RingFilled \/ AllocRxData \/ Clear \/ Mark \/ Up
             \/ InitRingIndexes \/ NapiEnable
      PROVE  [Queue!Next]_(Queue!rv)
  <2>1. nic.on = FALSE /\ nic'.on = FALSE /\ handed' = handed
    BY <1>7, <1>a DEF Open, OpenFails, RingFilled, AllocRxData, Clear, Mark, Up,
                      InitRingIndexes, NapiEnable, ChipOff, NicType
  <2> QED
    BY <2>1, Stutters DEF Waiting
<1>8. ASSUME FeaturesSet \/ NapiDisable \/ Drained \/ RxClose \/ SetRxMode \/ SetFeatures
      PROVE  [Queue!Next]_(Queue!rv)
  <2>1. UNCHANGED <<cur_rx, desc, rpc, handed>> /\ nic'.on = nic.on
    BY <1>8, <1>a DEF FeaturesSet, NapiDisable, Drained, RxClose, SetRxMode, SetFeatures,
                      NicType, ringv, pollv
  <2> QED
    BY <2>1, SameWaits, Stutters DEF Done
<1>9. ASSUME NEW kind \in {"reset", "sleep", "close"}, Teardown(kind)
      PROVE  [Queue!Next]_(Queue!rv)
  <2>1. UNCHANGED <<cur_rx, desc, rpc, handed>> /\ nic'.on = nic.on
    BY <1>9, <1>a DEF Teardown, NicType, ringv, pollv
  <2> QED
    BY <2>1, SameWaits, Stutters DEF Done
<1>10. ASSUME HwReset PROVE [Queue!Next]_(Queue!rv)
  <2>1. nic'.on = FALSE /\ handed' = handed
    BY <1>10, <1>a DEF HwReset, NicType
  <2>2. Waiting' = <<>>
    BY <2>1 DEF Waiting
  <2> QED
    BY <2>1, <2>2, Stutters DEF Queue!Next, Queue!Leave, Queue!Flush
<1>11. ASSUME HwStart PROVE [Queue!Next]_(Queue!rv)
  <2>1. /\ dev = "hw_start" /\ UNCHANGED <<cur_rx, desc, rpc, handed>> /\ nic'.on = TRUE
        /\ nic'.pos = 0
    BY <1>11, <1>a DEF HwStart, NicType, ringv, pollv
  <2>2. /\ nic.on = FALSE /\ cur_rx = 0 /\ Done' = 0 /\ \A i \in Slots : desc'[i].own = TRUE
    BY <1>a, <2>1 DEF AInv, Fresh, FInv, Writing, Done
  <2>3. 0 \in 0 .. NumRxDesc /\ Shared(0)'
    <3>1. NumRxDesc \in Nat /\ NumRxDesc >= 1
      BY RxRingAssumption
    <3>2. Entry' = 0 /\ Slots' = Slots
      BY <2>1, <2>2, <3>1 DEF Entry, Slots
    <3>3. \A i \in Slots : Off(i)' >= 0
      BY <3>1, <3>2 DEF Off, Slots
    <3> QED
      BY <2>1, <2>2, <3>1, <3>2, <3>3 DEF Shared
  <2>4. Waiting' = Oldest(0)'
    BY <2>1, <2>3, WaitingNext DEF WaitingShown
  <2>5. Oldest(0)' = <<>>
    BY <2>2 DEF Oldest
  <2> QED
    BY <2>1, <2>2, <2>4, <2>5, Stutters DEF Waiting
<1>12. ASSUME NEW f \in Frames, ChipReceive(f) PROVE [Queue!Next]_(Queue!rv)
  <2>1. UNCHANGED <<cur_rx, desc, rpc, handed>> /\ nic'.on = nic.on
    BY <1>12, <1>a DEF ChipReceive, NicType, pollv
  <2> QED
    BY <2>1, SameWaits, Stutters DEF Done
<1>13. ASSUME ChipWriteBack PROVE [Queue!Next]_(Queue!rv)
  <2>1. handed' = handed /\ nic.mid \in Frames
    BY <1>13, <1>a DEF ChipWriteBack, NicType, FrameOrNo
  <2>2. /\ Waiting' = Append(Waiting, nic.mid)
        /\ \A k \in DOMAIN Waiting : Waiting[k] # nic.mid
    BY <1>13, WriteJoins
  <2>3. Queue!Arrive(nic.mid)
    BY <2>1, <2>2 DEF Queue!Arrive
  <2> QED
    BY <2>1, <2>3 DEF Queue!Next, Queue!Frames, Frames
<1>14. ASSUME UNCHANGED vars PROVE [Queue!Next]_(Queue!rv)
  <2>1. UNCHANGED <<cur_rx, desc, nic, rpc, handed>>
    BY <1>14 DEF vars, ringv, pollv
  <2> QED
    BY <2>1, SameWaits, Stutters DEF Done
<1> QED
  BY <1>1, <1>2, <1>3, <1>4, <1>5, <1>6, <1>7, <1>8, <1>9, <1>10, <1>11, <1>12, <1>13, <1>14
  DEF Next, Poll, Device

(* The receive path implements RxQueue, for any ring, budget and frames and   *)
(* through resets, sleeps and closes: what the stack gets are the frames the  *)
(* chip has written, in their order, each once and whole, and none that is    *)
(* faultless is lost but to a teardown or a failed allocation.  Only a socket *)
(* that polls a stopped chip, reading what a suspend left behind, is outside. *)
THEOREM ImplementsRxQueue == ASSUME ~BusyPoll PROVE Spec => Queue!Safety
<1>1. Init => QInv
  BY DEF Init, QInv
<1>2. Init => Queue!Init
  BY DEF Init, Queue!Init, Queue!Whole, Waiting
<1>3. IInv /\ FInv /\ QInv /\ [Next]_vars => QInv'
  BY QueueStep
<1>4. IInv /\ FInv /\ AInv /\ QInv /\ [Next]_vars => [Queue!Next]_(Queue!rv)
  BY TypeStep, StepRefines
<1> QED
  BY AgreementInvariant, <1>1, <1>2, <1>3, <1>4, PTL DEF Spec, Queue!Safety
=============================================================================
