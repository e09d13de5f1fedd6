--------------------------- MODULE TxRing_proofs ---------------------------
(* Theorems about TxRing, for every size of the ring, every number of      *)
(* fragments and every set of packets.                                     *)
EXTENDS TxRing, TLAPS, FiniteSetTheorems

-----------------------------------------------------------------------------
(* The slot of an index is a slot of the ring. *)
LEMMA ModInSlots == \A x \in Int : x % NumTxDesc \in Slots
  BY TxRingAssumption DEF Slots

(* u32 arithmetic stays in range. *)
LEMMA WrapInIndex == \A x \in Int : -U32 <= x /\ x < 2 * U32 => Wrap(x) \in Index
  BY TxRingAssumption DEF Wrap, Index

(* The ring after one of its slots is written or some are cleared. *)
LEMMA RingTypes ==
  ASSUME TypeOK
  PROVE  /\ \A i \in Slots, s \in SkbOrNo, own \in BOOLEAN : TxMap(desc, i, s, own) \in RingType
         /\ \A R : ClearDesc(R) \in RingType
         /\ \A R : ClearSkb(R) \in [Slots -> SkbOrNo]
         /\ \A F : Freed(F) \in [Skbs -> {"stack", "driver"}]
         /\ \A k \in Nat : Entry(k) \in Slots
<1>1. \A k \in Nat : Entry(k) \in Slots
  <2>1. xm.entry \in Int
    BY DEF TypeOK, XmType, Slots
  <2> QED
    BY <2>1, ModInSlots DEF Entry
<1>2. ASSUME NEW R PROVE ClearDesc(R) \in RingType
  BY DEF TypeOK, RingType, DescType, ClearDesc, NoDesc, SkbOrNo
<1>3. ASSUME NEW R PROVE ClearSkb(R) \in [Slots -> SkbOrNo]
  BY DEF TypeOK, ClearSkb, SkbOrNo
<1>4. ASSUME NEW F PROVE Freed(F) \in [Skbs -> {"stack", "driver"}]
  BY DEF TypeOK, Freed
<1>5. ASSUME NEW i \in Slots, NEW s \in SkbOrNo, NEW own \in BOOLEAN
      PROVE  TxMap(desc, i, s, own) \in RingType
  <2>1. (i = NumTxDesc - 1) \in BOOLEAN
    OBVIOUS
  <2> QED
    BY <2>1 DEF TypeOK, RingType, DescType, TxMap
<1> QED
  BY <1>1, <1>2, <1>3, <1>4, <1>5

(* The locals and the chip's state, wherever an action changes them. *)
LEMMA LocalTypes ==
  ASSUME TypeOK
  PROVE  /\ NoXm \in XmType /\ NoRp \in RpType
         /\ xm.skb \in SkbOrNo /\ xm.entry \in Slots /\ xm.frags \in 0 .. MaxSkbFrags
         /\ xm.k \in Nat /\ xm.more \in BOOLEAN
         /\ rp.d \in Index /\ rp.pkts \in Nat
         /\ Avail \in Int
         /\ Doorbell => nic' \in NicType
         /\ Wakes \in PastType /\ Settled \in PastType
         /\ \A b \in BOOLEAN : [past EXCEPT !.spoiled = b] \in PastType
         /\ past.linkUps \in Nat /\ past.woken \in BOOLEAN /\ past.spoiled \in BOOLEAN
<1>1. NoXm \in XmType /\ NoRp \in RpType
  BY TxRingAssumption DEF NoXm, XmType, NoRp, RpType, Index, Slots, SkbOrNo
<1>2. /\ xm.skb \in SkbOrNo /\ xm.entry \in Slots /\ xm.frags \in 0 .. MaxSkbFrags
      /\ xm.k \in Nat /\ xm.more \in BOOLEAN
      /\ rp.d \in Index /\ rp.pkts \in Nat
  BY DEF TypeOK, XmType, RpType
<1>3. Avail \in Int
  BY TxRingAssumption DEF Avail, Wrap, TypeOK, Index
<1>4. Doorbell => nic' \in NicType
  BY DEF Doorbell, TypeOK, NicType
<1>5. past \in PastType
  BY DEF TypeOK
<1>6. /\ Settled \in PastType
      /\ \A b \in BOOLEAN : [past EXCEPT !.spoiled = b] \in PastType
      /\ past.linkUps \in Nat /\ past.woken \in BOOLEAN /\ past.spoiled \in BOOLEAN
  BY <1>5 DEF Settled, PastType
<1>7. Wakes \in PastType
  <2>1. (past.woken \/ (xoff /\ Avail < StopThrs)) \in BOOLEAN
    OBVIOUS
  <2>2. \A b \in BOOLEAN : [past EXCEPT !.woken = b] \in PastType
    BY <1>5 DEF PastType
  <2> QED
    BY <2>1, <2>2 DEF Wakes
<1> QED
  BY <1>1, <1>2, <1>3, <1>4, <1>6, <1>7

(* The initial state is well-typed. *)
LEMMA TypeInit == Init => TypeOK
<1> SUFFICES ASSUME Init PROVE TypeOK
  OBVIOUS
<1> USE DEF Init
<1>1. cur_tx \in Index /\ dirty_tx \in Index
  BY TxRingAssumption DEF Index
<1>2. desc \in RingType /\ tx_skb \in [Slots -> SkbOrNo]
  BY DEF RingType, DescType, NoDesc, SkbOrNo
<1>3. xm \in XmType /\ rp \in RpType
  BY TxRingAssumption DEF NoXm, XmType, NoRp, RpType, Index, Slots, SkbOrNo
<1>4. nic \in NicType
  BY DEF NicType
<1> QED
  <2>1. owner \in [Skbs -> {"stack", "driver"}]
    OBVIOUS
  <2>2. xpc \in XmitPcs /\ rpc \in ReapPcs /\ spc \in ResetPcs
    BY DEF XmitPcs, ReapPcs, ResetPcs
  <2> QED
    <3>1. xoff \in BOOLEAN /\ active \in BOOLEAN /\ burst \in BOOLEAN
      OBVIOUS
    <3>2. bql \in Int /\ resets \in Nat /\ past \in PastType
      BY DEF PastType
    <3>3. sk \in {"none", "task", "reopen"}
      OBVIOUS
    <3> HIDE DEF Init
    <3> QED
      BY <1>1, <1>2, <1>3, <1>4, <2>1, <2>2, <3>1, <3>2, <3>3 DEF TypeOK

(* Every step preserves the types. *)
LEMMA TypeNext == TypeOK /\ [Next]_vars => TypeOK'
<1> SUFFICES ASSUME TypeOK, [Next]_vars PROVE TypeOK'
  OBVIOUS
<1> USE DEF TypeOK, XmitPcs, ReapPcs, ResetPcs,
                             ring, qvars, books, xvars, rvars, svars
<1>1. ASSUME NEW s \in Skbs, NEW f \in 0 .. MaxSkbFrags, NEW more \in BOOLEAN,
             XmitBegin(s, f, more)
      PROVE  TypeOK'
  <2>1. cur_tx % NumTxDesc \in Slots
    BY ModInSlots DEF Index
  <2>2. xm' \in XmType
    <3>1. [NoXm EXCEPT !.skb = s, !.frags = f, !.more = more,
                       !.entry = cur_tx % NumTxDesc] \in XmType
      BY <2>1, LocalTypes DEF XmType, SkbOrNo
    <3> QED
      BY <1>1, <3>1 DEF XmitBegin
  <2>3. owner' \in [Skbs -> {"stack", "driver"}]
    BY <1>1 DEF XmitBegin
  <2>4. past' \in PastType
    <3>1. (past.spoiled \/ (Avail # 0 /\ Avail < f + 1) \/ spc = "index") \in BOOLEAN
      OBVIOUS
    <3>2. past' = [past EXCEPT !.spoiled = past.spoiled \/ (Avail # 0 /\ Avail < f + 1) \/ spc = "index"]
      BY <1>1 DEF XmitBegin
    <3> QED
      BY <3>1, <3>2, LocalTypes
  <2> QED
    BY <1>1, <2>2, <2>3, <2>4 DEF XmitBegin
<1>2. ASSUME XmitBusy PROVE TypeOK'
  BY <1>2, LocalTypes DEF XmitBusy
<1>3. ASSUME XmitHead PROVE TypeOK'
  <2>1. desc' \in RingType
    BY <1>3, RingTypes, LocalTypes DEF XmitHead
  <2> QED
    BY <1>3, <2>1 DEF XmitHead
<1>4. ASSUME XmitFrag PROVE TypeOK'
  <2>1. Entry(xm.k + 1) \in Slots
    BY RingTypes, LocalTypes
  <2>2. desc' \in RingType
    BY <1>4, <2>1, RingTypes, LocalTypes DEF XmitFrag
  <2>3. xm' \in XmType
    BY <1>4 DEF XmitFrag, XmType
  <2> QED
    BY <1>4, <2>1, <2>2, <2>3 DEF XmitFrag
<1>5. ASSUME XmitMapFails PROVE TypeOK'
  <2>1. desc' \in RingType /\ tx_skb' \in [Slots -> SkbOrNo]
    BY <1>5, RingTypes DEF XmitMapFails
  <2>2. owner' \in [Skbs -> {"stack", "driver"}] /\ xm' \in XmType
    BY <1>5, RingTypes, LocalTypes DEF XmitMapFails
  <2> QED
    BY <1>5, <2>1, <2>2 DEF XmitMapFails
<1>6. ASSUME XmitLast PROVE TypeOK'
  <2>1. Entry(xm.frags) \in Slots
    BY RingTypes, LocalTypes
  <2>2. [desc[Entry(xm.frags)] EXCEPT !.last = TRUE] \in DescType
    BY <2>1 DEF RingType, DescType
  <2>3. desc' \in RingType
    BY <1>6, <2>1, <2>2 DEF XmitLast, RingType
  <2>4. tx_skb' \in [Slots -> SkbOrNo]
    BY <1>6, <2>1, LocalTypes DEF XmitLast
  <2>5. xm' \in XmType
    BY <1>6 DEF XmitLast, XmType
  <2> QED
    BY <1>6, <2>1, <2>2, <2>3, <2>4, <2>5 DEF XmitLast
<1>7. ASSUME XmitOwn PROVE TypeOK'
  <2>1. desc[xm.entry] \in DescType
    BY LocalTypes DEF RingType
  <2>2. [desc[xm.entry] EXCEPT !.own = TRUE, !.first = TRUE] \in DescType
    BY <2>1 DEF DescType
  <2>3. desc' \in RingType
    BY <1>7, <2>2, LocalTypes DEF XmitOwn, RingType
  <2> QED
    BY <1>7, <2>1, <2>2, <2>3 DEF XmitOwn
<1>8. ASSUME XmitPublish PROVE TypeOK'
  <2>1. cur_tx' \in Index
    BY <1>8, WrapInIndex, LocalTypes, TxRingAssumption DEF XmitPublish, Index
  <2> QED
    BY <1>8, <2>1 DEF XmitPublish
<1>9. ASSUME XmitMaybeStop PROVE TypeOK'
  BY <1>9, LocalTypes DEF XmitMaybeStop
<1>32. ASSUME XmitStop PROVE TypeOK'
  BY <1>32, LocalTypes DEF XmitStop
<1>10. ASSUME XmitRecheck PROVE TypeOK'
  <2>1. xm' \in XmType
    <3>1. [xm EXCEPT !.bell = TRUE] \in XmType
      BY DEF XmType
    <3>2. xm' = xm \/ xm' = [xm EXCEPT !.bell = TRUE]
      BY <1>10 DEF XmitRecheck
    <3>3. xm \in XmType
      OBVIOUS
    <3> QED
      BY <3>1, <3>2, <3>3
  <2>2. xoff' \in BOOLEAN /\ xpc' \in XmitPcs
    BY <1>10 DEF XmitRecheck
  <2>3. UNCHANGED <<ring, active, burst, books, rvars, svars, nic, past>>
    BY <1>10 DEF XmitRecheck
  <2> QED
    BY <2>1, <2>2, <2>3
<1>11. ASSUME XmitBell PROVE TypeOK'
  <2>1. nic' \in NicType
    BY <1>11, LocalTypes DEF XmitBell
  <2>2. xm' \in XmType
    BY <1>11, LocalTypes DEF XmitBell
  <2> QED
    BY <1>11, <2>1, <2>2 DEF XmitBell
<1>12. ASSUME ReapBegin PROVE TypeOK'
  <2>1. rp' \in RpType
    BY <1>12, LocalTypes DEF ReapBegin, RpType
  <2> QED
    BY <1>12, <2>1 DEF ReapBegin
<1>13. ASSUME ReapOne PROVE TypeOK'
  <2>1. Wrap(rp.d + 1) \in Index
    BY WrapInIndex, LocalTypes, TxRingAssumption DEF Index
  <2>2. rp' \in RpType
    <3>1. (IF tx_skb[rp.d % NumTxDesc] # NoSkb THEN rp.pkts + 1 ELSE rp.pkts) \in Nat
      BY LocalTypes
    <3>2. (tx_skb[rp.d % NumTxDesc] # NoSkb) \in BOOLEAN
      OBVIOUS
    <3> QED
      BY <1>13, <2>1, <3>1, <3>2 DEF ReapOne, RpType
  <2>3. desc' \in RingType /\ tx_skb' \in [Slots -> SkbOrNo]
    BY <1>13, RingTypes DEF ReapOne
  <2>4. owner' \in [Skbs -> {"stack", "driver"}]
    BY <1>13, RingTypes DEF ReapOne
  <2>5. rpc' \in ReapPcs /\ bql' \in Int
    BY <1>13 DEF ReapOne
  <2>6. UNCHANGED <<cur_tx, dirty_tx, qvars, xvars, svars, nic, past>>
    BY <1>13 DEF ReapOne
  <2> QED
    BY <2>2, <2>3, <2>4, <2>5, <2>6
<1>14. ASSUME ReapPublish PROVE TypeOK'
  <2>1. rp' \in RpType /\ dirty_tx' \in Index
    BY <1>14, LocalTypes DEF ReapPublish
  <2> QED
    BY <1>14, <2>1 DEF ReapPublish
<1>15. ASSUME ReapComplete PROVE TypeOK'
  <2>1. rp' \in RpType /\ bql' \in Int
    BY <1>15, LocalTypes DEF ReapComplete, RpType
  <2>2. rpc' \in ReapPcs /\ UNCHANGED <<ring, owner, active, burst, xvars, svars, nic, past>>
    BY <1>15 DEF ReapComplete
  <2>3. xoff' \in BOOLEAN
    BY <1>15 DEF ReapComplete
  <2> QED
    BY <2>1, <2>2, <2>3
<1>16. ASSUME ReapWake PROVE TypeOK'
  <2>1. past' \in PastType /\ xoff' \in BOOLEAN /\ rpc' \in ReapPcs
    <3>1. past \in PastType /\ Wakes \in PastType
      BY LocalTypes
    <3>2. past' = Wakes \/ past' = past
      BY <1>16 DEF ReapWake
    <3> QED
      BY <1>16, <3>1, <3>2 DEF ReapWake
  <2>2. UNCHANGED <<ring, active, burst, books, xvars, rp, svars, nic>>
    BY <1>16 DEF ReapWake
  <2> QED
    BY <2>1, <2>2
<1>17. ASSUME ReapKick PROVE TypeOK'
  <2>1. nic' \in NicType
    BY <1>17, LocalTypes DEF ReapKick
  <2>2. rp' \in RpType
    BY <1>17, LocalTypes DEF ReapKick
  <2> QED
    BY <1>17, <2>1, <2>2 DEF ReapKick
<1>18. ASSUME NicSend PROVE TypeOK'
  <2>1. desc[nic.pos] \in DescType
    BY <1>18 DEF NicSend, RingType
  <2>2. [desc[nic.pos] EXCEPT !.own = FALSE] \in DescType
    BY <2>1 DEF DescType
  <2>3. desc' \in RingType
    BY <1>18, <2>2 DEF NicSend, RingType
  <2>4. (~desc[nic.pos].last) \in BOOLEAN /\ (IF desc[nic.pos].eor THEN 0 ELSE nic.pos + 1) \in Nat
    BY <2>1 DEF DescType, NicType
  <2>5. nic' \in NicType
    BY <1>18, <2>4 DEF NicSend, NicType
  <2> QED
    BY <1>18, <2>1, <2>2, <2>3, <2>4, <2>5 DEF NicSend
<1>19. ASSUME NicSleep PROVE TypeOK'
  <2>1. nic' \in NicType
    BY <1>19 DEF NicSleep, NicType
  <2> QED
    BY <1>19, <2>1 DEF NicSleep
<1>20. ASSUME NEW k \in ResetKinds, ResetBegin(k) PROVE TypeOK'
  <2>1. active' \in BOOLEAN /\ resets' \in Nat
    BY <1>20 DEF ResetBegin
  <2>2. sk' \in {"none", "task", "reopen"}
    BY <1>20, TxRingAssumption DEF ResetBegin
  <2>3. spc' \in ResetPcs
    BY <1>20 DEF ResetBegin
  <2> QED
    BY <1>20, <2>1, <2>2, <2>3 DEF ResetBegin
<1>21. ASSUME ResetDetached PROVE TypeOK'
  BY <1>21 DEF ResetDetached
<1>22. ASSUME ResetStopQueue PROVE TypeOK'
  BY <1>22 DEF ResetStopQueue
<1>23. ASSUME ResetNapiDisable PROVE TypeOK'
  BY <1>23 DEF ResetNapiDisable
<1>24. ASSUME ResetSync PROVE TypeOK'
  BY <1>24 DEF ResetSync
<1>25. ASSUME ResetHw PROVE TypeOK'
  <2>1. nic' \in NicType
    BY <1>25 DEF ResetHw, NicType
  <2> QED
    BY <1>25, <2>1 DEF ResetHw
<1>26. ASSUME ResetTxClear PROVE TypeOK'
  <2>1. desc' \in RingType /\ tx_skb' \in [Slots -> SkbOrNo]
    BY <1>26, RingTypes DEF ResetTxClear
  <2>2. owner' \in [Skbs -> {"stack", "driver"}]
    BY <1>26, RingTypes DEF ResetTxClear
  <2>3. past' \in PastType
    <3>1. past' = [past EXCEPT !.spoiled = past.spoiled \/ xpc # "idle"]
      BY <1>26 DEF ResetTxClear
    <3>2. (past.spoiled \/ xpc # "idle") \in BOOLEAN
      OBVIOUS
    <3> QED
      BY <3>1, <3>2, LocalTypes
  <2> QED
    BY <1>26, <2>1, <2>2, <2>3 DEF ResetTxClear
<1>27. ASSUME ResetIndexes PROVE TypeOK'
  <2>1. cur_tx' \in Index /\ dirty_tx' \in Index
    BY <1>27, TxRingAssumption DEF ResetIndexes, Index
  <2> QED
    BY <1>27, <2>1 DEF ResetIndexes
<1>28. ASSUME ResetHwStart PROVE TypeOK'
  <2>1. nic' \in NicType
    BY <1>28 DEF ResetHwStart, NicType
  <2> QED
    BY <1>28, <2>1 DEF ResetHwStart
<1>29. ASSUME ResetWakeQueue PROVE TypeOK'
  BY <1>29, LocalTypes DEF ResetWakeQueue
<1>30. ASSUME LinkUp PROVE TypeOK'
  <2>1. past' \in PastType /\ xoff' = FALSE
    <3>1. Wakes \in PastType
      BY LocalTypes
    <3>2. [Wakes EXCEPT !.linkUps = @ + 1] \in PastType
      BY <3>1 DEF PastType
    <3> QED
      BY <1>30, <3>2 DEF LinkUp
  <2>2. UNCHANGED <<ring, active, burst, books, xvars, rvars, svars, nic>>
    BY <1>30 DEF LinkUp
  <2>3. xoff' \in BOOLEAN
    BY <2>1
  <2> QED
    BY <2>1, <2>2, <2>3
<1>31. CASE UNCHANGED vars
  BY <1>31 DEF vars
<1> QED
  BY <1>1, <1>2, <1>3, <1>4, <1>5, <1>6, <1>7, <1>8, <1>9, <1>10, <1>11,
     <1>12, <1>13, <1>14, <1>15, <1>16, <1>17, <1>18, <1>19, <1>20, <1>21, <1>22,
     <1>23, <1>24, <1>25, <1>26, <1>27, <1>28, <1>29, <1>30, <1>31, <1>32
  DEF Next, XmitStart, Xmit, Reap, Reset

(* Every reachable state of the transmit path is well typed: in particular    *)
(* the ring indices stay in u32 and every descriptor written is in the ring.  *)
THEOREM TypeCorrect == Spec => []TypeOK
  BY TypeInit, TypeNext, PTL DEF Spec

-----------------------------------------------------------------------------
(* The queue's flow control, with link-ups, the split wake and resets under    *)
(* traffic among the steps: an early wake leaves its mark, and the ring is    *)
(* followed up to the step that spoils it.                                    *)

Used == Ahead(dirty_tx, cur_tx)

Building == xpc \in {"head", "frag", "last", "own", "publish"}

(* The ring never holds more than its slots, and rtl_tx stays inside it. *)
InRing ==
    /\ Used <= NumTxDesc
    /\ rpc # "idle" => Ahead(rp.d, cur_tx) <= Used

(* There is room for the packet being built; and, unless the queue was woken  *)
(* without it, room for the largest one while one is built and whenever the   *)
(* queue is awake, but between publishing cur_tx and looking at the slots.    *)
Room ==
    /\ Building => Used + xm.frags + 1 <= NumTxDesc
    /\ ~past.woken /\ (Building \/ (~xoff /\ xpc \notin {"stop", "xoff"}))
          => Used + StopThrs <= NumTxDesc
    /\ xpc = "busy" => past.woken

(* What the steps of a reset have established on the way; close and open, who  *)
(* detach the qdisc first, establish more than rtl_task.                      *)
TornDown ==
    /\ spc \in {"sync", "hw", "clear", "index", "start"} => rpc = "idle"
    /\ spc = "index" => xpc = "idle"
    /\ sk # "task" =>
       /\ spc # "idle" => ~active
       /\ spc \notin {"idle", "detach"} => xpc = "idle"
       /\ spc \in {"start", "wakeq"} => cur_tx = 0 /\ dirty_tx = 0

(* Calm operation, in which nothing wakes the queue early or spoils the ring:  *)
(* no link-up event, the wake helper's two reads together, resets by close    *)
(* and open alone.                                                            *)
Calm == MaxLinkUps = 0 /\ ~SplitWake /\ ResetKinds \subseteq {"reopen"}
Quiet == Calm => ~past.woken /\ rpc # "test" /\ sk # "task"

IInv == TypeOK /\ ~past.spoiled /\ InRing /\ Room /\ TornDown /\ Quiet

(* The sizes, without the divisibility that only the slots need. *)
LEMMA Sizes ==
  /\ NumTxDesc \in Nat /\ NumTxDesc >= 1 /\ MaxSkbFrags \in Nat
  /\ StopThrs \in Nat /\ StopThrs = MaxSkbFrags + 1
  /\ StartThrs \in Nat /\ StartThrs = 2 * StopThrs /\ StartThrs <= NumTxDesc
  /\ U32 \in Nat /\ 2 * NumTxDesc <= U32
<1>1. /\ NumTxDesc \in Nat /\ NumTxDesc >= 1 /\ MaxSkbFrags \in Nat
      /\ 2 * (MaxSkbFrags + 1) <= NumTxDesc
      /\ U32 \in Nat /\ 2 * NumTxDesc <= U32
  BY TxRingAssumption
<1> QED
  BY <1>1 DEF StopThrs, StartThrs

(* rtl_tx_slots_avail is the number of slots not used, in spite of the wrap. *)
LEMMA AvailIsRest ==
  ASSUME TypeOK, InRing
  PROVE  Used \in Nat /\ Avail = NumTxDesc - Used
  BY Sizes DEF TypeOK, InRing, Used, Ahead, Avail, Wrap, Index

(* Filling n slots moves an index n further ahead of any index behind it. *)
LEMMA AheadGrows ==
  ASSUME NEW a \in Index, NEW b \in Index, NEW n \in Nat, Ahead(a, b) + n <= NumTxDesc
  PROVE  Ahead(a, Wrap(b + n)) = Ahead(a, b) + n
<1>1. Ahead(a, b) \in Nat /\ n <= NumTxDesc
  BY Sizes DEF Ahead, Wrap, Index
<1> QED
  BY <1>1, Sizes DEF Ahead, Wrap, Index

(* The ring is empty at first. *)
LEMMA RoomInit == Init => IInv
<1> SUFFICES ASSUME Init PROVE IInv
  OBVIOUS
<1>1. TypeOK
  BY TypeInit
<1>2. Used = 0
  BY Sizes DEF Init, Used, Ahead, Wrap
<1> QED
  BY <1>1, <1>2, Sizes DEF Init, IInv, InRing, Room, TornDown, Quiet, Building

(* What is left alone is not disturbed: a step that changes neither index,   *)
(* and moves neither start_xmit, rtl_tx nor the queue, keeps the flow.       *)
LEMMA FlowKept ==
  ASSUME IInv, UNCHANGED <<cur_tx, dirty_tx>>
  PROVE  /\ Used' = Used
         /\ UNCHANGED <<rpc, rp>> => InRing'
         /\ UNCHANGED <<xoff, xpc, xm, past>> => Room'
<1>1. Used' = Used
  BY DEF Used, Ahead, Wrap
<1>2. UNCHANGED <<rpc, rp>> => InRing'
  BY <1>1 DEF IInv, InRing, Ahead, Wrap
<1>3. UNCHANGED <<xoff, xpc, xm, past>> => Room'
  BY <1>1 DEF IInv, Room, Building
<1> QED
  BY <1>1, <1>2, <1>3

(* The marks: an early wake is remembered until start_xmit looks again. *)
LEMMA Marks ==
  ASSUME TypeOK, InRing
  PROVE  /\ Settled.woken = FALSE /\ Settled.spoiled = past.spoiled
         /\ Wakes.spoiled = past.spoiled
         /\ Wakes.woken <=> past.woken \/ (xoff /\ NumTxDesc - Used < StopThrs)
<1>1. past \in PastType /\ Avail = NumTxDesc - Used
  BY AvailIsRest DEF TypeOK
<1> QED
  BY <1>1 DEF Settled, Wakes, PastType

(* A queue woken where it was stopped is awake with room, or marked. *)
LEMMA WokenMarked ==
  ASSUME IInv, UNCHANGED <<cur_tx, dirty_tx, xpc, xm>>, past'.woken = Wakes.woken
  PROVE  Room'
<1>1. TypeOK /\ InRing /\ Room /\ Used' = Used /\ Used \in Nat
  BY FlowKept, AvailIsRest DEF IInv
<1>2. past'.woken <=> past.woken \/ (xoff /\ NumTxDesc - Used < StopThrs)
  BY <1>1, Marks
<1> QED
  BY <1>1, <1>2, Sizes DEF Room, Building

(* Every step that does not spoil the ring keeps the room a packet may need. *)
LEMMA RoomNext == IInv /\ [Next]_vars /\ ~past'.spoiled => IInv'
<1> SUFFICES ASSUME IInv, [Next]_vars, ~past'.spoiled PROVE IInv'
  OBVIOUS
<1>0. TypeOK'
  BY TypeNext DEF IInv
<1>a. TypeOK /\ ~past.spoiled /\ InRing /\ Room /\ TornDown /\ Quiet
  BY DEF IInv
<1>b. Used \in Nat /\ Avail = NumTxDesc - Used
  BY <1>a, AvailIsRest
<1>c. past \in PastType
  BY <1>a DEF TypeOK
<1> USE DEF ring, qvars, books, xvars, rvars, svars
<1>1. ASSUME NEW s \in Skbs, NEW f \in 0 .. MaxSkbFrags, NEW more \in BOOLEAN,
             XmitBegin(s, f, more)
      PROVE InRing' /\ Room' /\ TornDown' /\ Quiet'
  <2>1. InRing' /\ Used' = Used
    BY <1>1, FlowKept DEF XmitBegin
  <2>2. /\ past' = [past EXCEPT !.spoiled = past.spoiled \/ (Avail # 0 /\ Avail < f + 1) \/ spc = "index"]
        /\ xpc = "idle" /\ ~xoff /\ ~xoff' /\ active
    BY <1>1 DEF XmitBegin
  <2>3. past'.woken = past.woken /\ spc # "index" /\ ~(Avail # 0 /\ Avail < f + 1)
    BY <1>c, <2>2 DEF PastType
  <2>4. Room'
    <3>1. CASE Avail = 0
      <4>1. xpc' = "busy" /\ past.woken
        BY <1>1, <1>a, <1>b, <2>2, <3>1, Sizes DEF XmitBegin, Room
      <4> QED
        BY <2>3, <4>1 DEF Room, Building
    <3>2. CASE Avail # 0
      <4>1. xpc' = "head" /\ xm' = [NoXm EXCEPT !.skb = s, !.frags = f, !.more = more,
                                                !.entry = cur_tx % NumTxDesc]
        BY <1>1, <3>2 DEF XmitBegin
      <4>2. xm'.frags = f /\ f \in Nat
        BY <4>1, Sizes DEF NoXm
      <4>3. Used' + xm'.frags + 1 <= NumTxDesc
        BY <1>b, <2>1, <2>3, <3>2, <4>2, Sizes
      <4>4. ~past.woken => Used + StopThrs <= NumTxDesc
        BY <1>a, <2>2 DEF Room
      <4> QED
        BY <2>1, <2>3, <4>1, <4>3, <4>4 DEF Room
    <3> QED
      BY <3>1, <3>2
  <2>5. TornDown'
    BY <1>1, <1>a, <2>2, <2>3 DEF XmitBegin, TornDown
  <2>6. Quiet'
    BY <1>1, <1>a, <2>3 DEF XmitBegin, Quiet, Calm
  <2> QED
    BY <2>1, <2>4, <2>5, <2>6
<1>2. ASSUME XmitBusy PROVE InRing' /\ Room' /\ TornDown' /\ Quiet'
  <2>1. xpc = "busy" /\ xpc' = "idle" /\ xoff' /\ ~past'.woken
    BY <1>2, <1>a, Marks DEF XmitBusy
  <2>2. InRing' /\ Room'
    BY <1>2, <2>1, FlowKept DEF XmitBusy, Room, Building
  <2>3. TornDown' /\ Quiet'
    BY <1>2, <1>a, <2>1 DEF XmitBusy, TornDown, Quiet, Calm
  <2> QED
    BY <2>2, <2>3
<1>3. ASSUME XmitHead PROVE InRing' /\ Room' /\ TornDown' /\ Quiet'
  <2>1. InRing'
    BY <1>3, FlowKept DEF XmitHead
  <2>2. Room'
    BY <1>3, <1>a, FlowKept DEF XmitHead, Room, Building
  <2>3. TornDown' /\ Quiet'
    BY <1>3, <1>a DEF XmitHead, TornDown, Quiet, Calm
  <2> QED
    BY <2>1, <2>2, <2>3
<1>4. ASSUME XmitFrag PROVE InRing' /\ Room' /\ TornDown' /\ Quiet'
  <2>1. InRing'
    BY <1>4, FlowKept DEF XmitFrag
  <2>2. Room'
    <3>1. xm'.frags = xm.frags
      BY <1>4, <1>a DEF XmitFrag, TypeOK, XmType
    <3> QED
      BY <1>4, <1>a, <3>1, FlowKept DEF XmitFrag, Room, Building
  <2>3. TornDown' /\ Quiet'
    BY <1>4, <1>a DEF XmitFrag, TornDown, Quiet, Calm
  <2> QED
    BY <2>1, <2>2, <2>3
<1>5. ASSUME XmitMapFails PROVE InRing' /\ Room' /\ TornDown' /\ Quiet'
  <2>1. InRing'
    BY <1>5, FlowKept DEF XmitMapFails
  <2>2. Room'
    BY <1>5, <1>a, FlowKept DEF XmitMapFails, Room, Building
  <2>3. TornDown' /\ Quiet'
    BY <1>5, <1>a DEF XmitMapFails, TornDown, Quiet, Calm
  <2> QED
    BY <2>1, <2>2, <2>3
<1>6. ASSUME XmitLast PROVE InRing' /\ Room' /\ TornDown' /\ Quiet'
  <2>1. InRing'
    BY <1>6, FlowKept DEF XmitLast
  <2>2. Room'
    <3>1. xm'.frags = xm.frags
      BY <1>6, <1>a DEF XmitLast, TypeOK, XmType
    <3> QED
      BY <1>6, <1>a, <3>1, FlowKept DEF XmitLast, Room, Building
  <2>3. TornDown' /\ Quiet'
    BY <1>6, <1>a DEF XmitLast, TornDown, Quiet, Calm
  <2> QED
    BY <2>1, <2>2, <2>3
<1>7. ASSUME XmitOwn PROVE InRing' /\ Room' /\ TornDown' /\ Quiet'
  <2>1. InRing'
    BY <1>7, FlowKept DEF XmitOwn
  <2>2. Room'
    BY <1>7, <1>a, FlowKept DEF XmitOwn, Room, Building
  <2>3. TornDown' /\ Quiet'
    BY <1>7, <1>a DEF XmitOwn, TornDown, Quiet, Calm
  <2> QED
    BY <2>1, <2>2, <2>3
<1>8. ASSUME XmitPublish PROVE InRing' /\ Room' /\ TornDown' /\ Quiet'
  <2>1. Used + xm.frags + 1 <= NumTxDesc
    BY <1>8, <1>a DEF XmitPublish, Room, Building
  <2>2. xm.frags \in Nat /\ xm.frags + 1 <= StopThrs
    BY <1>a, LocalTypes, Sizes
  <2>3. Used' = Used + xm.frags + 1
    <3>1. dirty_tx \in Index /\ cur_tx \in Index /\ xm.frags + 1 \in Nat
      BY <1>a, <2>2, Sizes DEF TypeOK
    <3>2. Ahead(dirty_tx, cur_tx) + (xm.frags + 1) <= NumTxDesc
      BY <1>b, <2>1, <2>2, Sizes DEF Used
    <3>3. Ahead(dirty_tx, Wrap(cur_tx + (xm.frags + 1))) = Ahead(dirty_tx, cur_tx) + (xm.frags + 1)
      BY <3>1, <3>2, AheadGrows
    <3>4. cur_tx' = Wrap(cur_tx + (xm.frags + 1)) /\ dirty_tx' = dirty_tx
      BY <1>8, <1>a, LocalTypes DEF XmitPublish, TypeOK, Index
    <3> QED
      BY <1>a, <1>b, <2>2, <3>3, <3>4, Sizes DEF Used, Ahead, Wrap, TypeOK, Index
  <2>4. ASSUME rpc # "idle"
        PROVE  Ahead(rp.d, cur_tx)' <= Used'
    <3>1. Ahead(rp.d, cur_tx) <= Used
      BY <1>a, <2>4 DEF InRing
    <3>2. rp.d \in Index
      BY <1>a, LocalTypes
    <3>3. cur_tx \in Index /\ xm.frags + 1 \in Nat /\ Ahead(rp.d, cur_tx) \in Nat
      BY <1>a, <2>2, <3>2, Sizes DEF TypeOK, Ahead, Wrap, Index
    <3>4. Ahead(rp.d, cur_tx) + (xm.frags + 1) <= NumTxDesc
      BY <1>b, <2>1, <2>2, <3>1, <3>3, Sizes
    <3>5. Ahead(rp.d, Wrap(cur_tx + (xm.frags + 1))) = Ahead(rp.d, cur_tx) + (xm.frags + 1)
      BY <3>2, <3>3, <3>4, AheadGrows
    <3>6. cur_tx' = Wrap(cur_tx + (xm.frags + 1)) /\ rp' = rp
      BY <1>8, <1>a, LocalTypes DEF XmitPublish, TypeOK, Index
    <3>7. Ahead(rp.d, cur_tx)' = Ahead(rp.d, cur_tx) + (xm.frags + 1)
      BY <3>5, <3>6 DEF Ahead, Wrap
    <3> QED
      BY <1>b, <2>2, <2>3, <3>1, <3>3, <3>7
  <2>5. InRing'
    <3>1. Used' <= NumTxDesc
      BY <1>b, <2>1, <2>2, <2>3, Sizes
    <3>2. rpc' = rpc
      BY <1>8 DEF XmitPublish
    <3> QED
      BY <2>4, <3>1, <3>2 DEF InRing
  <2>6. Room' /\ TornDown' /\ Quiet'
    BY <1>8, <1>a DEF XmitPublish, Room, Building, TornDown, Quiet, Calm
  <2> QED
    BY <2>5, <2>6
<1>9. ASSUME XmitMaybeStop PROVE InRing' /\ Room' /\ TornDown' /\ Quiet'
  <2>1. InRing'
    BY <1>9, FlowKept DEF XmitMaybeStop
  <2>2. Room'
    BY <1>9, <1>a, Marks, <1>b, FlowKept, Sizes DEF XmitMaybeStop, Room, Building
  <2>3. TornDown' /\ Quiet'
    BY <1>9, <1>a, Marks DEF XmitMaybeStop, TornDown, Quiet, Calm
  <2> QED
    BY <2>1, <2>2, <2>3
<1>32. ASSUME XmitStop PROVE InRing' /\ Room' /\ TornDown' /\ Quiet'
  <2>1. InRing'
    BY <1>32, FlowKept DEF XmitStop
  <2>2. Room'
    BY <1>32, <1>a, Marks, FlowKept DEF XmitStop, Room, Building
  <2>3. TornDown' /\ Quiet'
    BY <1>32, <1>a, Marks DEF XmitStop, TornDown, Quiet, Calm
  <2> QED
    BY <2>1, <2>2, <2>3
<1>10. ASSUME XmitRecheck PROVE InRing' /\ Room' /\ TornDown' /\ Quiet'
  <2>1. InRing'
    BY <1>10, FlowKept DEF XmitRecheck
  <2>2. Room'
    BY <1>10, <1>a, <1>b, FlowKept, Sizes DEF XmitRecheck, Room, Building
  <2>3. TornDown' /\ Quiet'
    BY <1>10, <1>a DEF XmitRecheck, TornDown, Quiet, Calm
  <2> QED
    BY <2>1, <2>2, <2>3
<1>11. ASSUME XmitBell PROVE InRing' /\ Room' /\ TornDown' /\ Quiet'
  <2>1. InRing'
    BY <1>11, FlowKept DEF XmitBell
  <2>2. Room'
    BY <1>11, <1>a, FlowKept DEF XmitBell, Room, Building
  <2>3. TornDown' /\ Quiet'
    BY <1>11, <1>a DEF XmitBell, TornDown, Quiet, Calm
  <2> QED
    BY <2>1, <2>2, <2>3
<1>12. ASSUME ReapBegin PROVE InRing' /\ Room' /\ TornDown' /\ Quiet'
  <2>1. InRing'
    <3>1. rp'.d = dirty_tx /\ rpc' = "loop" /\ UNCHANGED <<cur_tx, dirty_tx>>
      BY <1>12 DEF ReapBegin, NoRp
    <3>2. Ahead(rp.d, cur_tx)' = Used
      BY <3>1 DEF Used, Ahead, Wrap
    <3>3. Used' = Used
      BY <3>1, FlowKept
    <3> QED
      BY <1>a, <1>b, <3>1, <3>2, <3>3, Sizes DEF InRing
  <2>2. Room'
    BY <1>12, FlowKept DEF ReapBegin
  <2>3. TornDown' /\ Quiet'
    BY <1>12, <1>a DEF ReapBegin, TornDown, NapiOff, Quiet, Calm
  <2> QED
    BY <2>1, <2>2, <2>3
<1>13. ASSUME ReapOne PROVE InRing' /\ Room' /\ TornDown' /\ Quiet'
  <2>1. Ahead(rp.d, cur_tx) <= Used /\ rp.d \in Index /\ rp.d # cur_tx
    BY <1>13, <1>a, LocalTypes DEF ReapOne, InRing
  <2>2. rp'.d = Wrap(rp.d + 1)
    BY <1>13, <1>a DEF ReapOne, TypeOK, RpType
  <2>3. Ahead(rp'.d, cur_tx) <= Ahead(rp.d, cur_tx)
    BY <1>a, <2>1, <2>2, Sizes DEF TypeOK, Ahead, Wrap, Index
  <2>4. InRing'
    <3>1. Ahead(rp.d, cur_tx)' = Ahead(rp'.d, cur_tx) /\ Used' = Used
      BY <1>13, FlowKept DEF ReapOne, Ahead, Wrap
    <3>2. Ahead(rp'.d, cur_tx) <= Used
      BY <1>a, <1>b, <1>0, <2>1, <2>3, Sizes DEF TypeOK, RpType, Ahead, Wrap, Index
    <3>3. rpc' = "loop"
      BY <1>13 DEF ReapOne
    <3> QED
      BY <1>a, <3>1, <3>2, <3>3 DEF InRing
  <2>5. Room' /\ TornDown' /\ Quiet'
    BY <1>13, <1>a, FlowKept DEF ReapOne, TornDown, Quiet, Calm
  <2> QED
    BY <2>4, <2>5
<1>14. ASSUME ReapPublish PROVE InRing' /\ Room' /\ TornDown' /\ Quiet'
  <2>1. Ahead(rp.d, cur_tx) <= Used /\ rp.d \in Index
    BY <1>14, <1>a, LocalTypes DEF ReapPublish, InRing
  <2>2. Used' = Ahead(rp.d, cur_tx)
    BY <1>14 DEF ReapPublish, Used, Ahead, Wrap
  <2>3. Ahead(rp.d, cur_tx) \in Int
    BY <1>a, <2>1, Sizes DEF TypeOK, Ahead, Wrap, Index
  <2>4. InRing'
    <3>1. Used' <= NumTxDesc
      BY <1>a, <1>b, <2>1, <2>2, <2>3, Sizes DEF InRing
    <3>2. CASE dirty_tx = rp.d
      BY <1>14, <3>1, <3>2 DEF ReapPublish, InRing
    <3>3. CASE dirty_tx # rp.d
      <4>1. Ahead(rp.d, cur_tx)' = Ahead(rp.d, cur_tx)
        BY <1>14, <3>3 DEF ReapPublish, Ahead, Wrap
      <4>2. rpc' = "wake"
        BY <1>14, <3>3 DEF ReapPublish
      <4> QED
        BY <3>1, <4>1, <4>2, <2>2, <2>3 DEF InRing
    <3> QED
      BY <3>2, <3>3
  <2>5. Room'
    <3>1. Used' <= Used /\ Used' \in Int
      BY <1>b, <2>1, <2>2, <2>3
    <3>2. UNCHANGED <<xpc, xm, xoff, past>>
      BY <1>14 DEF ReapPublish
    <3>3. xm.frags \in Nat
      BY <1>a, LocalTypes, Sizes
    <3>a. Used \in Int /\ StopThrs \in Int /\ NumTxDesc \in Int
      BY <1>b, Sizes
    <3>4. ASSUME Used + StopThrs <= NumTxDesc PROVE Used' + StopThrs <= NumTxDesc
      <4>1. \A a, b, c, n \in Int : b <= a /\ a + c <= n => b + c <= n
        OBVIOUS
      <4> QED
        BY <3>a, <3>1, <3>4, <4>1
    <3>5. Used + xm.frags + 1 <= NumTxDesc => Used' + xm.frags + 1 <= NumTxDesc
      BY <1>b, <3>1, <3>3, Sizes
    <3>6. Building' => Building
      BY <3>2 DEF Building
    <3>7. Building' => Used' + xm'.frags + 1 <= NumTxDesc
      BY <1>a, <3>2, <3>5, <3>6 DEF Room
    <3>8. ~past'.woken /\ (Building' \/ (~xoff' /\ xpc' \notin {"stop", "xoff"}))
             => Used' + StopThrs <= NumTxDesc
      BY <1>a, <3>2, <3>4, <3>6, Sizes DEF Room
    <3>9. xpc' = "busy" => past'.woken
      BY <1>a, <3>2 DEF Room
    <3> QED
      BY <3>7, <3>8, <3>9 DEF Room
  <2>6. TornDown' /\ Quiet'
    <3>1. ASSUME cur_tx = 0, dirty_tx = 0 PROVE rp.d = 0
      BY <1>a, <2>1, <3>1, Sizes DEF Used, Ahead, Wrap, Index
    <3> QED
      BY <1>14, <1>a, <3>1 DEF ReapPublish, TornDown, Quiet, Calm
  <2> QED
    BY <2>4, <2>5, <2>6
<1>15. ASSUME ReapComplete PROVE InRing' /\ Room' /\ TornDown' /\ Quiet'
  <2>1. /\ rpc = "wake" /\ rpc' \in {"test", "kick"} /\ (rpc' = "test" => SplitWake)
        /\ ~xoff' => ~xoff \/ Avail >= StartThrs
    BY <1>15 DEF ReapComplete
  <2>2. rp'.d = rp.d
    BY <1>15, <1>a DEF ReapComplete, TypeOK, RpType
  <2>3. InRing'
    BY <1>15, <1>a, <2>1, <2>2, FlowKept DEF ReapComplete, InRing, Ahead, Wrap
  <2>4. Room'
    <3>1. ASSUME ~xoff', xoff PROVE Used + StopThrs <= NumTxDesc
      BY <1>b, <2>1, <3>1, Sizes
    <3> QED
      BY <1>15, <1>a, <3>1, FlowKept DEF ReapComplete, Room, Building
  <2>5. TornDown' /\ Quiet'
    BY <1>15, <1>a, <2>1 DEF ReapComplete, TornDown, Quiet, Calm
  <2> QED
    BY <2>3, <2>4, <2>5
<1>16. ASSUME ReapWake PROVE InRing' /\ Room' /\ TornDown' /\ Quiet'
  <2>1. rpc = "test" /\ rpc' = "kick" /\ UNCHANGED <<cur_tx, dirty_tx, xpc, xm, rp>>
    BY <1>16 DEF ReapWake
  <2>2. InRing'
    BY <1>a, <2>1, FlowKept DEF InRing, Ahead, Wrap
  <2>3. Room'
    <3>1. CASE past' = Wakes
      BY <2>1, <3>1, WokenMarked
    <3>2. CASE UNCHANGED <<xoff, past>>
      BY <2>1, <3>2, FlowKept
    <3> QED
      BY <1>16, <3>1, <3>2 DEF ReapWake
  <2>4. TornDown' /\ Quiet'
    BY <1>16, <1>a, <2>1 DEF ReapWake, TornDown, Quiet, Calm
  <2> QED
    BY <2>2, <2>3, <2>4
<1>17. ASSUME ReapKick PROVE InRing' /\ Room' /\ TornDown' /\ Quiet'
  <2>1. InRing'
    BY <1>17, <1>a, FlowKept DEF ReapKick, InRing
  <2>2. Room'
    BY <1>17, FlowKept DEF ReapKick
  <2>3. TornDown' /\ Quiet'
    BY <1>17, <1>a DEF ReapKick, TornDown, Quiet, Calm
  <2> QED
    BY <2>1, <2>2, <2>3
<1>18. ASSUME NicSend PROVE InRing' /\ Room' /\ TornDown' /\ Quiet'
  <2>1. InRing' /\ Room'
    BY <1>18, FlowKept DEF NicSend
  <2>2. TornDown' /\ Quiet'
    BY <1>18, <1>a DEF NicSend, TornDown, Quiet, Calm
  <2> QED
    BY <2>1, <2>2
<1>19. ASSUME NicSleep PROVE InRing' /\ Room' /\ TornDown' /\ Quiet'
  <2>1. InRing' /\ Room'
    BY <1>19, FlowKept DEF NicSleep
  <2>2. TornDown' /\ Quiet'
    BY <1>19, <1>a DEF NicSleep, TornDown, Quiet, Calm
  <2> QED
    BY <2>1, <2>2
<1>20. ASSUME NEW k \in ResetKinds, ResetBegin(k) PROVE InRing' /\ Room' /\ TornDown' /\ Quiet'
  <2>1. k \in {"task", "reopen"} /\ sk' = k /\ spc = "idle" /\ spc' \in {"detach", "stopq"}
        /\ (k = "reopen" => spc' = "detach" /\ ~active') /\ (Calm => k # "task")
    BY <1>20, TxRingAssumption DEF ResetBegin, Calm
  <2>2. InRing' /\ Room'
    BY <1>20, FlowKept DEF ResetBegin
  <2>3. TornDown' /\ Quiet'
    BY <1>20, <1>a, <2>1 DEF ResetBegin, TornDown, Quiet, Calm
  <2> QED
    BY <2>2, <2>3
<1>21. ASSUME ResetDetached PROVE InRing' /\ Room' /\ TornDown' /\ Quiet'
  <2>1. InRing' /\ Room'
    BY <1>21, FlowKept DEF ResetDetached
  <2>2. TornDown' /\ Quiet'
    BY <1>21, <1>a DEF ResetDetached, TornDown, Quiet, Calm
  <2> QED
    BY <2>1, <2>2
<1>22. ASSUME ResetStopQueue PROVE InRing' /\ Room' /\ TornDown' /\ Quiet'
  <2>1. InRing'
    BY <1>22, FlowKept DEF ResetStopQueue
  <2>2. Room' /\ TornDown' /\ Quiet'
    BY <1>22, <1>a, FlowKept DEF ResetStopQueue, Room, Building, TornDown, Quiet, Calm
  <2> QED
    BY <2>1, <2>2
<1>23. ASSUME ResetNapiDisable PROVE InRing' /\ Room' /\ TornDown' /\ Quiet'
  <2>1. InRing' /\ Room'
    BY <1>23, FlowKept DEF ResetNapiDisable
  <2>2. TornDown' /\ Quiet'
    BY <1>23, <1>a DEF ResetNapiDisable, TornDown, Quiet, Calm
  <2> QED
    BY <2>1, <2>2
<1>24. ASSUME ResetSync PROVE InRing' /\ Room' /\ TornDown' /\ Quiet'
  <2>1. InRing' /\ Room'
    BY <1>24, FlowKept DEF ResetSync
  <2>2. TornDown' /\ Quiet'
    BY <1>24, <1>a DEF ResetSync, TornDown, Quiet, Calm
  <2> QED
    BY <2>1, <2>2
<1>25. ASSUME ResetHw PROVE InRing' /\ Room' /\ TornDown' /\ Quiet'
  <2>1. InRing' /\ Room'
    BY <1>25, FlowKept DEF ResetHw
  <2>2. TornDown' /\ Quiet'
    BY <1>25, <1>a DEF ResetHw, TornDown, Quiet, Calm
  <2> QED
    BY <2>1, <2>2
<1>26. ASSUME ResetTxClear PROVE InRing' /\ Room' /\ TornDown' /\ Quiet'
  <2>1. past' = [past EXCEPT !.spoiled = past.spoiled \/ xpc # "idle"]
    BY <1>26 DEF ResetTxClear
  <2>2. xpc = "idle" /\ past'.woken = past.woken
    BY <1>c, <2>1 DEF PastType
  <2>3. InRing' /\ Room'
    BY <1>26, <1>a, <2>2, FlowKept DEF ResetTxClear, Room, Building
  <2>4. TornDown' /\ Quiet'
    BY <1>26, <1>a, <2>2 DEF ResetTxClear, TornDown, Quiet, Calm
  <2> QED
    BY <2>3, <2>4
<1>27. ASSUME ResetIndexes PROVE InRing' /\ Room' /\ TornDown' /\ Quiet'
  <2>1. Used' = 0
    BY <1>27, Sizes DEF ResetIndexes, Used, Ahead, Wrap
  <2>2. xpc = "idle" /\ rpc = "idle" /\ UNCHANGED <<xpc, rpc>>
    BY <1>27, <1>a DEF ResetIndexes, TornDown
  <2>3. InRing' /\ Room'
    BY <2>1, <2>2, Sizes DEF InRing, Room, Building
  <2>4. TornDown' /\ Quiet'
    BY <1>27, <1>a DEF ResetIndexes, TornDown, Quiet, Calm
  <2> QED
    BY <2>3, <2>4
<1>28. ASSUME ResetHwStart PROVE InRing' /\ Room' /\ TornDown' /\ Quiet'
  <2>1. InRing' /\ Room'
    BY <1>28, FlowKept DEF ResetHwStart
  <2>2. TornDown' /\ Quiet'
    BY <1>28, <1>a DEF ResetHwStart, TornDown, Quiet, Calm
  <2> QED
    BY <2>1, <2>2
<1>29. ASSUME ResetWakeQueue PROVE InRing' /\ Room' /\ TornDown' /\ Quiet'
  <2>1. /\ UNCHANGED <<cur_tx, dirty_tx, xpc, xm, rpc, rp>> /\ past' = Wakes
        /\ spc = "wakeq" /\ spc' = "idle"
    BY <1>29 DEF ResetWakeQueue
  <2>2. InRing' /\ Room'
    BY <2>1, FlowKept, WokenMarked
  <2>3. TornDown'
    BY <2>1 DEF TornDown
  <2>4. Quiet'
    <3>1. SUFFICES ASSUME Calm PROVE ~past'.woken /\ rpc' # "test" /\ sk' # "task"
      BY DEF Quiet, Calm
    <3>2. ~past.woken /\ rpc # "test" /\ sk # "task"
      BY <1>a, <3>1 DEF Quiet
    <3>3. Used = 0
      BY <1>a, <2>1, <3>2, Sizes DEF TornDown, Used, Ahead, Wrap
    <3>4. ~past'.woken
      BY <1>a, <2>1, <3>2, <3>3, Marks, Sizes
    <3> QED
      BY <1>29, <2>1, <3>2, <3>4 DEF ResetWakeQueue
  <2> QED
    BY <2>2, <2>3, <2>4
<1>30. ASSUME LinkUp PROVE InRing' /\ Room' /\ TornDown' /\ Quiet'
  <2>1. UNCHANGED <<cur_tx, dirty_tx, xpc, xm, rpc, rp, spc, sk, active>>
    BY <1>30 DEF LinkUp
  <2>2. past'.woken = Wakes.woken
    <3>1. Wakes \in PastType
      BY <1>a, LocalTypes
    <3> QED
      BY <1>30, <3>1 DEF LinkUp, PastType
  <2>3. InRing' /\ Room'
    BY <2>1, <2>2, FlowKept, WokenMarked
  <2>4. TornDown'
    BY <1>a, <2>1 DEF TornDown
  <2>5. Quiet'
    <3>1. ASSUME Calm PROVE FALSE
      <4>1. past.linkUps \in Nat /\ past.linkUps < 0
        BY <1>30, <1>a, <3>1, LocalTypes DEF LinkUp, Calm
      <4> QED
        BY <4>1
    <3> QED
      BY <3>1 DEF Quiet, Calm
  <2> QED
    BY <2>3, <2>4, <2>5
<1>31. ASSUME UNCHANGED vars PROVE InRing' /\ Room' /\ TornDown' /\ Quiet'
  BY <1>31, <1>a, FlowKept DEF vars, TornDown, Quiet, Calm
<1> QED
  BY <1>0, <1>1, <1>2, <1>3, <1>4, <1>5, <1>6, <1>7, <1>8, <1>9, <1>10, <1>11,
     <1>12, <1>13, <1>14, <1>15, <1>16, <1>17, <1>18, <1>19, <1>20, <1>21, <1>22,
     <1>23, <1>24, <1>25, <1>26, <1>27, <1>28, <1>29, <1>30, <1>31, <1>32
  DEF IInv, Next, XmitStart, Xmit, Reap, Reset

(* In calm operation no step spoils the ring. *)
LEMMA CalmNext == Calm /\ IInv /\ [Next]_vars => ~past'.spoiled
<1> SUFFICES ASSUME Calm, IInv, [Next]_vars PROVE ~past'.spoiled
  OBVIOUS
<1>a. /\ TypeOK /\ ~past.spoiled /\ InRing /\ Room /\ TornDown
      /\ ~past.woken /\ sk # "task" /\ past \in PastType
  BY DEF IInv, Quiet, TypeOK
<1>b. Used \in Nat /\ Avail = NumTxDesc - Used
  BY <1>a, AvailIsRest
<1>1. ASSUME NEW s \in Skbs, NEW f \in 0 .. MaxSkbFrags, NEW more \in BOOLEAN,
             XmitBegin(s, f, more)
      PROVE ~past'.spoiled
  <2>1. /\ past' = [past EXCEPT !.spoiled = past.spoiled \/ (Avail # 0 /\ Avail < f + 1) \/ spc = "index"]
        /\ xpc = "idle" /\ ~xoff /\ active
    BY <1>1 DEF XmitBegin
  <2>2. Used + StopThrs <= NumTxDesc /\ f \in Nat /\ f + 1 <= StopThrs
    BY <1>a, <2>1, Sizes DEF Room
  <2>3. spc # "index"
    BY <1>a, <2>1 DEF TornDown
  <2>4. ~(Avail < f + 1)
    BY <1>b, <2>2, Sizes
  <2> QED
    BY <1>a, <2>1, <2>3, <2>4 DEF PastType
<1>2. ASSUME ResetTxClear PROVE ~past'.spoiled
  <2>1. past' = [past EXCEPT !.spoiled = past.spoiled \/ xpc # "idle"] /\ spc = "clear"
    BY <1>2 DEF ResetTxClear
  <2>2. xpc = "idle"
    BY <1>a, <2>1 DEF TornDown
  <2> QED
    BY <1>a, <2>1, <2>2 DEF PastType
<1>3. Wakes.spoiled = past.spoiled /\ Settled.spoiled = past.spoiled /\ Wakes \in PastType
  BY <1>a, Marks, LocalTypes
<1>4. ASSUME LinkUp PROVE ~past'.spoiled
  BY <1>3, <1>4, <1>a DEF LinkUp, PastType
<1>5. ASSUME past' = past \/ past' = Wakes \/ past' = Settled PROVE ~past'.spoiled
  BY <1>3, <1>5, <1>a
<1>6. \/ past' = past \/ past' = Wakes \/ past' = Settled \/ ResetTxClear \/ LinkUp \/ XmitStart
  BY DEF Next, Xmit, XmitBusy, XmitHead, XmitFrag, XmitMapFails,
      XmitLast, XmitOwn, XmitPublish, XmitMaybeStop, XmitStop, XmitRecheck, XmitBell,
      ReapBegin, Reap, ReapOne, ReapPublish, ReapComplete, ReapWake, ReapKick,
      NicSend, NicSleep, ResetBegin, Reset, ResetDetached, ResetStopQueue, ResetNapiDisable,
      ResetSync, ResetHw, ResetIndexes, ResetHwStart, ResetWakeQueue, vars
<1> QED
  BY <1>1, <1>2, <1>4, <1>5, <1>6 DEF XmitStart

(* The ring is followed up to the step that spoils it, which is remembered. *)
LEMMA SpoiledStays == TypeOK /\ [Next]_vars /\ past.spoiled => past'.spoiled
<1> SUFFICES ASSUME TypeOK, [Next]_vars, past.spoiled PROVE past'.spoiled
  OBVIOUS
<1>1. past \in PastType /\ Wakes \in PastType
  BY LocalTypes DEF TypeOK
<1>2. Wakes.spoiled /\ Settled.spoiled
  BY <1>1 DEF Wakes, Settled, PastType
<1>3. ASSUME LinkUp \/ ResetTxClear \/ XmitStart PROVE past'.spoiled
  <2>1. CASE LinkUp
    BY <1>1, <1>2, <2>1 DEF LinkUp, PastType
  <2>2. CASE ResetTxClear
    BY <1>1, <2>2 DEF ResetTxClear, PastType
  <2>3. CASE XmitStart
    <3>1. PICK f \in 0 .. MaxSkbFrags :
            past' = [past EXCEPT !.spoiled = past.spoiled \/ (Avail # 0 /\ Avail < f + 1)
                                                          \/ spc = "index"]
      BY <2>3 DEF XmitStart, XmitBegin
    <3> QED
      BY <1>1, <3>1 DEF PastType
  <2> QED
    BY <1>3, <2>1, <2>2, <2>3
<1>4. \/ past' = past \/ past' = Wakes \/ past' = Settled \/ ResetTxClear \/ LinkUp \/ XmitStart
  BY DEF Next, Xmit, XmitBusy, XmitHead, XmitFrag, XmitMapFails,
      XmitLast, XmitOwn, XmitPublish, XmitMaybeStop, XmitStop, XmitRecheck, XmitBell,
      ReapBegin, Reap, ReapOne, ReapPublish, ReapComplete, ReapWake, ReapKick,
      NicSend, NicSleep, ResetBegin, Reset, ResetDetached, ResetStopQueue, ResetNapiDisable,
      ResetSync, ResetHw, ResetIndexes, ResetHwStart, ResetWakeQueue, vars
<1> QED
  BY <1>2, <1>3, <1>4

(* For every ring size, and with link-ups, stale counts, resets under traffic *)
(* and mapping failures: the stop and wake thresholds leave room for the      *)
(* largest packet whenever start_xmit may be called, unless a queue stopped   *)
(* for want of room has been woken early, or the ring is spoiled already.     *)
THEOREM RoomWhenAwake == Spec => []AwakeHasRoom
<1> DEFINE Followed == TypeOK /\ (past.spoiled \/ IInv)
<1>1. Init => Followed
  BY RoomInit, TypeInit
<1>2. Followed /\ [Next]_vars => Followed'
  BY RoomNext, TypeNext, SpoiledStays
<1>3. Followed => AwakeHasRoom
  BY AvailIsRest, Sizes DEF IInv, Room, AwakeHasRoom
<1> HIDE DEF Followed
<1> QED
  BY <1>1, <1>2, <1>3, PTL DEF Spec

(* start_xmit finds the ring full, its "BUG!" branch, only where a stopped    *)
(* queue has been woken early or the ring is spoiled: for its own stop and    *)
(* wake thresholds the branch is unreachable.                                 *)
THEOREM NeverFull == Spec => [](NeverFullWhenAwake \/ past.woken \/ past.spoiled)
<1> DEFINE Followed == TypeOK /\ (past.spoiled \/ IInv)
<1>1. Init => Followed
  BY RoomInit, TypeInit
<1>2. Followed /\ [Next]_vars => Followed'
  BY RoomNext, TypeNext, SpoiledStays
<1>3. Followed => NeverFullWhenAwake \/ past.woken \/ past.spoiled
  BY DEF IInv, Room, NeverFullWhenAwake
<1> HIDE DEF Followed
<1> QED
  BY <1>1, <1>2, <1>3, PTL DEF Spec

-----------------------------------------------------------------------------
(* What the chip owns, and the geometry of the ring it rests on: slots are     *)
(* numbered from the one of cur_tx, and every step of the driver moves the     *)
(* numbers by what it fills or releases, in spite of both wraps, the ring's    *)
(* and the u32 indices'.                                                       *)

(* How far slot i is ahead of the slot of cur_tx, going round the ring. *)
Off(i) == LET c == cur_tx % NumTxDesc IN IF i >= c THEN i - c ELSE i - c + NumTxDesc

(* The slots between what rtl_tx has released, published or not, and cur_tx... *)
Live == IF rpc = "loop" THEN Ahead(rp.d, cur_tx) ELSE Used

(* ... and those behind cur_tx that the packet being built may have given away. *)
Taken == CASE xpc = "frag" -> xm.k + 1
           [] xpc \in {"last", "own", "publish"} -> xm.frags + 1
           [] OTHER -> 0

(* The chip owns nothing elsewhere. *)
OwnedInside ==
    \A i \in Slots : desc[i].own => Off(i) < Taken \/ Off(i) >= NumTxDesc - Live

(* The packet being built is at the slot of cur_tx, and mapped once past "head". *)
Begun ==
    Building =>
    /\ xm.entry = cur_tx % NumTxDesc /\ xm.skb \in Skbs
    /\ xpc = "head" => xm.k = 0
    /\ xpc # "head" => desc[xm.entry].buf = xm.skb
    /\ xpc = "frag" => xm.k < xm.frags

(* What the chip owns is mapped, so that the teardown finds it. *)
Mapped == \A i \in Slots : desc[i].own => desc[i].buf # NoSkb

(* The ring is cleared behind a chip that is off, and then owns nothing. *)
ChipOff ==
    /\ spc = "clear" => ~nic.on
    /\ spc = "index" => \A i \in Slots : ~desc[i].own

OInv == IInv /\ OwnedInside /\ Begun /\ Mapped /\ ChipOff

-----------------------------------------------------------------------------
(* Division by the size of the ring. *)
LEMMA Div ==
  \A x \in Int : /\ x = NumTxDesc * (x \div NumTxDesc) + (x % NumTxDesc)
                 /\ x % NumTxDesc \in 0 .. NumTxDesc - 1 /\ x \div NumTxDesc \in Int
  BY Sizes

(* A remainder is unique... *)
LEMMA Uniq ==
  ASSUME NEW q \in Int, NEW p \in Int,
         NEW r \in 0 .. NumTxDesc - 1, NEW s \in 0 .. NumTxDesc - 1,
         NumTxDesc * q + r = NumTxDesc * p + s
  PROVE  r = s
<1>1. NumTxDesc \in Nat /\ NumTxDesc >= 1
  BY Sizes
<1>2. ASSUME NEW z \in Int, z >= 1 PROVE NumTxDesc * z >= NumTxDesc
  BY <1>1, <1>2
<1>3. NumTxDesc * (q - p) = s - r /\ NumTxDesc * (p - q) = r - s
  BY <1>1
<1>4. CASE q - p >= 1
  BY <1>1, <1>2, <1>3, <1>4
<1>5. CASE p - q >= 1
  BY <1>1, <1>2, <1>3, <1>5
<1> QED
  BY <1>1, <1>3, <1>4, <1>5

(* ... and so is what % computes. *)
LEMMA ModIs ==
  ASSUME NEW x \in Int, NEW q \in Int, NEW r \in 0 .. NumTxDesc - 1, x = NumTxDesc * q + r
  PROVE  x % NumTxDesc = r
<1> DEFINE p == x \div NumTxDesc
           s == x % NumTxDesc
<1>1. x = NumTxDesc * p + s /\ s \in 0 .. NumTxDesc - 1 /\ p \in Int
  BY Div
<1> HIDE DEF p, s
<1>2. NumTxDesc * q + r = NumTxDesc * p + s
  BY <1>1
<1>3. r = s
  BY <1>1, <1>2, Uniq
<1> QED
  BY <1>3 DEF s

(* Going n places on from an index, in terms of the slot it stands for... *)
LEMMA AddMod ==
  ASSUME NEW x \in Int, NEW n \in 0 .. NumTxDesc
  PROVE  (x + n) % NumTxDesc = IF (x % NumTxDesc) + n < NumTxDesc
                               THEN (x % NumTxDesc) + n
                               ELSE (x % NumTxDesc) + n - NumTxDesc
<1> DEFINE p == x \div NumTxDesc
           s == x % NumTxDesc
<1>1. x = NumTxDesc * p + s /\ s \in 0 .. NumTxDesc - 1 /\ p \in Int
  BY Div
<1>2. NumTxDesc \in Nat /\ NumTxDesc >= 1
  BY Sizes
<1> HIDE DEF p, s
<1>3. CASE s + n < NumTxDesc
  <2>1. x + n = NumTxDesc * p + (s + n) /\ s + n \in 0 .. NumTxDesc - 1 /\ x + n \in Int
    BY <1>1, <1>2, <1>3
  <2>2. (x + n) % NumTxDesc = s + n
    BY <1>1, <2>1, ModIs
  <2> QED
    BY <1>3, <2>2 DEF s
<1>4. CASE ~(s + n < NumTxDesc)
  <2>1. /\ x + n = NumTxDesc * (p + 1) + (s + n - NumTxDesc)
        /\ s + n - NumTxDesc \in 0 .. NumTxDesc - 1 /\ x + n \in Int /\ p + 1 \in Int
    BY <1>1, <1>2, <1>4
  <2>2. (x + n) % NumTxDesc = s + n - NumTxDesc
    BY <2>1, ModIs
  <2> QED
    BY <1>4, <2>2 DEF s
<1> QED
  BY <1>3, <1>4

(* ... and the u32 wrap does not change the slot: the ring divides 2^32. *)
LEMMA WrapMod ==
  ASSUME NEW x \in Int
  PROVE  Wrap(x) % NumTxDesc = x % NumTxDesc
<1> DEFINE p == x \div NumTxDesc
           s == x % NumTxDesc
           m == U32 \div NumTxDesc
<1>1. x = NumTxDesc * p + s /\ s \in 0 .. NumTxDesc - 1 /\ p \in Int
  BY Div
<1>2. NumTxDesc \in Nat /\ NumTxDesc >= 1 /\ U32 \in Int
  BY Sizes, TxRingAssumption
<1>3. U32 = NumTxDesc * m /\ m \in Int
  <2> DEFINE r == U32 % NumTxDesc
  <2>1. U32 = NumTxDesc * m + r /\ m \in Int
    BY <1>2, Div
  <2>2. r = 0
    BY TxRingAssumption
  <2> HIDE DEF m, r
  <2> QED
    BY <1>2, <2>1, <2>2
<1> HIDE DEF p, s, m
<1>4. x - U32 = NumTxDesc * (p - m) + s /\ x - U32 \in Int /\ p - m \in Int
  BY <1>1, <1>2, <1>3
<1>5. x + U32 = NumTxDesc * (p + m) + s /\ x + U32 \in Int /\ p + m \in Int
  BY <1>1, <1>2, <1>3
<1>6. (x - U32) % NumTxDesc = s /\ (x + U32) % NumTxDesc = s
  <2>1. (x - U32) % NumTxDesc = s
    BY <1>1, <1>4, ModIs
  <2>2. (x + U32) % NumTxDesc = s
    BY <1>1, <1>5, ModIs
  <2> QED
    BY <2>1, <2>2
<1>7. Wrap(x) = x - U32 \/ Wrap(x) = x + U32 \/ Wrap(x) = x
  BY DEF Wrap
<1> QED
  BY <1>6, <1>7 DEF s

-----------------------------------------------------------------------------
(* The same in terms of indices: an index and the slot n places after it. *)
LEMMA Step ==
  ASSUME NEW x \in Index, NEW n \in 0 .. NumTxDesc
  PROVE  Wrap(x + n) % NumTxDesc = IF (x % NumTxDesc) + n < NumTxDesc
                                   THEN (x % NumTxDesc) + n
                                   ELSE (x % NumTxDesc) + n - NumTxDesc
<1>1. x \in Int /\ n \in Int /\ x + n \in Int
  BY Sizes DEF Index
<1> QED
  BY <1>1, AddMod, WrapMod

(* Going round the ring from any index meets every slot. *)
LEMMA Around ==
  ASSUME NEW x \in Index, NEW i \in Slots
  PROVE  \E j \in 0 .. NumTxDesc - 1 : (x + j) % NumTxDesc = i
<1> DEFINE c == x % NumTxDesc
           j == IF i >= c THEN i - c ELSE i - c + NumTxDesc
<1>1. x \in Int
  BY Sizes DEF Index
<1>2. c \in Slots
  BY <1>1, ModInSlots
<1> HIDE DEF c
<1>3. j \in 0 .. NumTxDesc - 1 /\ j \in 0 .. NumTxDesc
  BY <1>2, Sizes DEF Slots
<1>4. (IF c + j < NumTxDesc THEN c + j ELSE c + j - NumTxDesc) = i
  BY <1>2, Sizes DEF Slots
<1> HIDE DEF j
<1>5. (x + j) % NumTxDesc = IF c + j < NumTxDesc THEN c + j ELSE c + j - NumTxDesc
  BY <1>1, <1>3, AddMod DEF c
<1> QED
  BY <1>3, <1>4, <1>5

(* Off numbers the slots, from the one of cur_tx on. *)
LEMMA OffNumbers ==
  ASSUME TypeOK
  PROVE  /\ \A i \in Slots : Off(i) \in 0 .. NumTxDesc - 1
         /\ \A i, j \in Slots : Off(i) = Off(j) => i = j
         /\ \A k \in 0 .. NumTxDesc - 1 :
               /\ ((cur_tx % NumTxDesc) + k) % NumTxDesc = (cur_tx + k) % NumTxDesc
               /\ Off((cur_tx + k) % NumTxDesc) = k
<1> DEFINE c == cur_tx % NumTxDesc
<1>1. c \in Slots
  BY ModInSlots DEF TypeOK, Index
<1>2. \A i \in Slots : Off(i) = IF i >= c THEN i - c ELSE i - c + NumTxDesc
  BY DEF Off
<1>3. ASSUME NEW k \in 0 .. NumTxDesc - 1
      PROVE  (c + k) % NumTxDesc = IF c + k < NumTxDesc THEN c + k ELSE c + k - NumTxDesc
  <2> HIDE DEF c
  <2>1. c \in Int /\ k \in 0 .. NumTxDesc
    BY <1>1, Sizes DEF Slots
  <2>2. c % NumTxDesc = c
    <3>1. c = NumTxDesc * 0 + c /\ c \in 0 .. NumTxDesc - 1
      BY <1>1, <2>1, Sizes DEF Slots
    <3> QED
      BY <2>1, <3>1, ModIs
  <2> QED
    BY <2>1, <2>2, AddMod
<1>7. ASSUME NEW k \in 0 .. NumTxDesc - 1
      PROVE  (cur_tx + k) % NumTxDesc = IF c + k < NumTxDesc THEN c + k ELSE c + k - NumTxDesc
  <2>1. cur_tx \in Int /\ k \in 0 .. NumTxDesc
    BY Sizes DEF TypeOK, Index
  <2> QED
    BY <2>1, AddMod
<1> HIDE DEF c
<1>4. ASSUME NEW i \in Slots PROVE Off(i) \in 0 .. NumTxDesc - 1
  BY <1>1, <1>2, Sizes DEF Slots
<1>5. ASSUME NEW i \in Slots, NEW j \in Slots, Off(i) = Off(j) PROVE i = j
  BY <1>1, <1>2, <1>5, Sizes DEF Slots
<1>6. ASSUME NEW k \in 0 .. NumTxDesc - 1 PROVE Off((cur_tx + k) % NumTxDesc) = k
  <2> DEFINE s == (cur_tx + k) % NumTxDesc
  <2>1. s = IF c + k < NumTxDesc THEN c + k ELSE c + k - NumTxDesc
    BY <1>7
  <2> HIDE DEF s
  <2>2. s \in Slots
    BY <1>1, <2>1, Sizes DEF Slots
  <2>3. Off(s) = k
    BY <1>1, <1>2, <2>1, <2>2, Sizes DEF Slots
  <2> QED
    BY <2>3 DEF s
<1> QED
  BY <1>3, <1>4, <1>5, <1>6, <1>7 DEF c

(* The slot of an index behind cur_tx is at the far end of that numbering. *)
LEMMA Behind ==
  ASSUME TypeOK, NEW d \in Index, Ahead(d, cur_tx) \in 1 .. NumTxDesc
  PROVE  Off(d % NumTxDesc) = NumTxDesc - Ahead(d, cur_tx)
<1> DEFINE n == Ahead(d, cur_tx)
           c == cur_tx % NumTxDesc
           e == d % NumTxDesc
<1>1. cur_tx = Wrap(d + n) /\ n \in 0 .. NumTxDesc
  BY Sizes DEF TypeOK, Ahead, Wrap, Index
<1>2. c \in Slots /\ e \in Slots
  BY ModInSlots DEF TypeOK, Index
<1> HIDE DEF n
<1>3. Wrap(d + n) % NumTxDesc = IF e + n < NumTxDesc THEN e + n ELSE e + n - NumTxDesc
  BY <1>1, Step
<1>4. c = IF e + n < NumTxDesc THEN e + n ELSE e + n - NumTxDesc
  BY <1>1, <1>3
<1>5. Off(e) = IF e >= c THEN e - c ELSE e - c + NumTxDesc
  BY DEF Off
<1>6. n \in 1 .. NumTxDesc
  BY DEF n
<1> HIDE DEF c, e
<1>7. Off(e) = NumTxDesc - n
  BY <1>2, <1>4, <1>5, <1>6, Sizes DEF Slots
<1> QED
  BY <1>7 DEF n, e

-----------------------------------------------------------------------------
(* While a packet is built there is room for it in front of everything rtl_tx *)
(* has not released.                                                          *)
LEMMA RoomLeft ==
  ASSUME IInv
  PROVE  /\ Live \in Nat /\ Live <= NumTxDesc /\ Taken \in Nat
         /\ Building => Live + xm.frags + 1 <= NumTxDesc
         /\ xm.frags \in Nat
<1>1. TypeOK /\ InRing /\ Room
  BY DEF IInv
<1>2. Used \in Nat /\ Used <= NumTxDesc
  BY <1>1, AvailIsRest DEF InRing
<1>3. Live \in Nat /\ Live <= Used
  <2>1. rp.d \in Index /\ cur_tx \in Index
    BY <1>1, LocalTypes DEF TypeOK
  <2>2. Ahead(rp.d, cur_tx) \in Nat
    BY <2>1, Sizes DEF Ahead, Wrap, Index
  <2> QED
    BY <1>1, <1>2, <2>2 DEF Live, InRing
<1>4. Taken \in Nat
  BY <1>1, LocalTypes DEF Taken
<1>5. Building => Used + xm.frags + 1 <= NumTxDesc
  BY <1>1 DEF Room
<1>6. xm.frags \in Nat
  BY <1>1, LocalTypes, Sizes
<1> QED
  BY <1>2, <1>3, <1>4, <1>5, <1>6, Sizes

(* The slot start_xmit maps next is the chip's in no case. *)
LEMMA NextIsFree ==
  ASSUME OInv, xpc \in {"head", "frag"}
  PROVE  /\ Taken \in 0 .. NumTxDesc - 1
         /\ Entry(Taken) \in Slots /\ Off(Entry(Taken)) = Taken
         /\ ~desc[Entry(Taken)].own
<1>1. IInv /\ TypeOK /\ Building /\ Begun /\ OwnedInside
  BY DEF OInv, IInv, Building
<1>2. Taken < xm.frags + 1
  BY <1>1, LocalTypes, Sizes DEF Begun, Taken
<1>3. Taken \in 0 .. NumTxDesc - 1 /\ Taken < NumTxDesc - Live
  BY <1>1, <1>2, RoomLeft, Sizes
<1>4. Entry(Taken) = ((cur_tx % NumTxDesc) + Taken) % NumTxDesc
  BY <1>1 DEF Begun, Entry
<1>5. Off(Entry(Taken)) = Taken
  BY <1>1, <1>3, <1>4, OffNumbers
<1>6. Entry(Taken) \in Slots
  BY <1>1, RoomLeft, RingTypes
<1>7. ~desc[Entry(Taken)].own
  BY <1>1, <1>3, <1>5, <1>6, RoomLeft, Sizes DEF OwnedInside
<1> QED
  BY <1>3, <1>5, <1>6, <1>7

(* A descriptor that is not given away by a step, and a packet that takes no  *)
(* slots back, leave what the chip owns inside.                              *)
LEMMA InsideKept ==
  ASSUME OInv, UNCHANGED cur_tx, Live' = Live, Taken' \in Nat, Taken' >= Taken,
         \A i \in Slots : desc'[i].own => desc[i].own
  PROVE  OwnedInside'
<1>1. \A i \in Slots : Off(i)' = Off(i) /\ Off(i) \in 0 .. NumTxDesc - 1
  BY OffNumbers DEF Off, OInv, IInv
<1>2. Slots' = Slots
  BY DEF Slots
<1> QED
  BY <1>1, <1>2, RoomLeft, Sizes DEF OInv, OwnedInside

(* Live follows the indices and the position of rtl_tx alone. *)
LEMMA LiveKept ==
  /\ UNCHANGED <<cur_tx, dirty_tx, rpc, rp>> => Live' = Live
  /\ UNCHANGED <<xpc, xm>> => Taken' = Taken
  BY DEF Live, Taken, Used, Ahead, Wrap

(* A step that touches neither the ring nor the two that work on it. *)
LEMMA RingKept ==
  ASSUME OInv, UNCHANGED <<cur_tx, dirty_tx, desc, xpc, xm, rpc, rp>>
  PROVE  OwnedInside' /\ Begun' /\ Mapped'
<1>1. OwnedInside'
  BY LiveKept, RoomLeft, InsideKept DEF OInv
<1>2. Begun'
  BY DEF OInv, Begun, Building
<1>3. Mapped'
  BY DEF OInv, Mapped, Slots
<1> QED
  BY <1>1, <1>2, <1>3

(* Publishing n slots adds them to those rtl_tx has to release... *)
LEMMA LiveGrows ==
  ASSUME IInv, NEW n \in Nat, Live + n <= NumTxDesc, cur_tx' = Wrap(cur_tx + n),
         UNCHANGED <<dirty_tx, rpc, rp>>
  PROVE  Live' = Live + n
<1>1. cur_tx \in Index /\ dirty_tx \in Index /\ rp.d \in Index
  BY LocalTypes DEF IInv, TypeOK
<1>2. CASE rpc = "loop"
  <2>1. Ahead(rp.d, cur_tx) + n <= NumTxDesc
    BY <1>2 DEF Live
  <2>2. Ahead(rp.d, Wrap(cur_tx + n)) = Ahead(rp.d, cur_tx) + n
    BY <1>1, <2>1, AheadGrows
  <2>3. Live = Ahead(rp.d, cur_tx) /\ Live' = Ahead(rp.d, Wrap(cur_tx + n))
    BY <1>2 DEF Live, Ahead, Wrap
  <2> QED
    BY <2>2, <2>3
<1>3. CASE rpc # "loop"
  <2>1. Ahead(dirty_tx, cur_tx) + n <= NumTxDesc
    BY <1>3 DEF Live, Used
  <2>2. Ahead(dirty_tx, Wrap(cur_tx + n)) = Ahead(dirty_tx, cur_tx) + n
    BY <1>1, <2>1, AheadGrows
  <2>3. Live = Ahead(dirty_tx, cur_tx) /\ Live' = Ahead(dirty_tx, Wrap(cur_tx + n))
    BY <1>3 DEF Live, Used, Ahead, Wrap
  <2> QED
    BY <2>2, <2>3
<1> QED
  BY <1>2, <1>3

(* ... releasing one, the furthest behind, takes it off... *)
LEMMA LiveShrinks ==
  ASSUME IInv, ReapOne
  PROVE  /\ rp.d % NumTxDesc \in Slots
         /\ Off(rp.d % NumTxDesc) = NumTxDesc - Live
         /\ Live' = Live - 1 /\ Live >= 1
<1>1. /\ TypeOK /\ rpc = "loop" /\ rpc' = "loop" /\ cur_tx # rp.d
      /\ rp.d \in Index /\ cur_tx \in Index /\ UNCHANGED cur_tx
      /\ Live = Ahead(rp.d, cur_tx)
  BY LocalTypes DEF IInv, ReapOne, Live, TypeOK
<1>2. Live \in 1 .. NumTxDesc
  <2>1. Ahead(rp.d, cur_tx) # 0
    BY <1>1, Sizes DEF Ahead, Wrap, Index
  <2> QED
    BY <1>1, <2>1, RoomLeft
<1>3. Off(rp.d % NumTxDesc) = NumTxDesc - Live /\ rp.d % NumTxDesc \in Slots
  <2>1. rp.d \in Int
    BY <1>1, Sizes DEF Index
  <2> QED
    BY <1>1, <1>2, <2>1, Behind, ModInSlots
<1>4. Live' = Live - 1
  <2>1. rp'.d = Wrap(rp.d + 1)
    BY <1>1 DEF ReapOne, TypeOK, RpType
  <2>2. Live' = Ahead(Wrap(rp.d + 1), cur_tx)
    BY <1>1, <2>1 DEF Live, Ahead, Wrap
  <2> QED
    BY <1>1, <1>2, <2>2, Sizes DEF Ahead, Wrap, Index
<1> QED
  BY <1>2, <1>3, <1>4

(* ... and the other steps of rtl_tx, publishing included, change nothing. *)
LEMMA LiveSteady ==
  ReapBegin \/ ReapPublish \/ ReapComplete \/ ReapWake \/ ReapKick => Live' = Live
<1> USE DEF ring
<1>1. ASSUME ReapBegin PROVE Live' = Live
  <2>1. rp'.d = dirty_tx /\ rpc' = "loop" /\ rpc = "idle" /\ UNCHANGED <<cur_tx, dirty_tx>>
    BY <1>1 DEF ReapBegin, NoRp
  <2> QED
    BY <2>1 DEF Live, Used, Ahead, Wrap
<1>2. ASSUME ReapPublish PROVE Live' = Live
  BY <1>2 DEF ReapPublish, Live, Used, Ahead, Wrap
<1>3. ASSUME ReapComplete \/ ReapWake \/ ReapKick PROVE Live' = Live
  BY <1>3 DEF ReapComplete, ReapWake, ReapKick, Live, Used, Ahead, Wrap
<1> QED
  BY <1>1, <1>2, <1>3

(* When cur_tx moves n places on, so does the origin of the numbering. *)
LEMMA OffShifts ==
  ASSUME TypeOK, NEW n \in 0 .. NumTxDesc, cur_tx' = Wrap(cur_tx + n)
  PROVE  \A i \in Slots : Off(i)' = IF Off(i) >= n THEN Off(i) - n ELSE Off(i) - n + NumTxDesc
<1> DEFINE c == cur_tx % NumTxDesc
           b == cur_tx' % NumTxDesc
<1>1. c \in Slots
  BY ModInSlots DEF TypeOK, Index
<1>2. b = IF c + n < NumTxDesc THEN c + n ELSE c + n - NumTxDesc
  BY Step DEF TypeOK
<1>3. ASSUME NEW i \in Slots
      PROVE  /\ Off(i) = IF i >= c THEN i - c ELSE i - c + NumTxDesc
             /\ Off(i)' = IF i >= b THEN i - b ELSE i - b + NumTxDesc
  BY DEF Off
<1> HIDE DEF b, c
<1> QED
  BY <1>1, <1>2, <1>3, Sizes DEF Slots

(* What a failed mapping gives up is all the chip was given of the packet. *)
LEMMA TakenBack ==
  ASSUME IInv, Begun, Mapped, xpc \in {"head", "frag"},
         NEW i \in Slots, desc[i].own, Off(i) < Taken
  PROVE  xpc = "frag" /\ i \in MappedRange(cur_tx + 1, xm.k) \cup {xm.entry}
<1>1. /\ TypeOK /\ xm.entry = cur_tx % NumTxDesc /\ cur_tx \in Int
      /\ xm.entry \in Slots /\ xm.k \in Nat /\ xm.k < xm.frags /\ xpc = "frag" /\ Taken = xm.k + 1
      /\ Off(i) \in 0 .. NumTxDesc - 1
  <2>1. Off(i) \in 0 .. NumTxDesc - 1 /\ TypeOK
    BY OffNumbers DEF IInv
  <2>2. xpc = "frag"
    BY <2>1, Sizes DEF Taken
  <2> QED
    BY <2>1, <2>2, LocalTypes, Sizes DEF Begun, Building, Taken, TypeOK, Index
<1>2. CASE Off(i) = 0
  <2>1. Off(xm.entry) = 0
    BY <1>1, Sizes DEF Off, Slots
  <2> QED
    BY <1>1, <1>2, <2>1, OffNumbers
<1>3. CASE Off(i) # 0
  <2> DEFINE n == Off(i)
             j == n - 1
             x == (cur_tx + n) % NumTxDesc
  <2>1. n \in 0 .. NumTxDesc - 1 /\ j \in 0 .. xm.k - 1 /\ cur_tx + 1 + j = cur_tx + n
    BY <1>1, <1>3
  <2>2. Off(x) = n /\ x \in Slots
    <3>1. cur_tx + n \in Int
      BY <1>1, <2>1
    <3> HIDE DEF n
    <3> QED
      BY <1>1, <2>1, <3>1, OffNumbers, ModInSlots
  <2>3. x = i
    BY <1>1, <2>2, OffNumbers
  <2>4. (cur_tx + 1 + j) % NumTxDesc = i
    BY <2>1, <2>3
  <2> HIDE DEF j
  <2>5. desc[i].buf # NoSkb
    BY DEF Mapped
  <2> QED
    BY <1>1, <2>1, <2>4, <2>5 DEF MappedRange
<1> QED
  BY <1>2, <1>3

(* The ring is created empty. *)
LEMMA OwnedInit == Init => OInv
<1> SUFFICES ASSUME Init PROVE OInv
  OBVIOUS
<1>1. IInv
  BY RoomInit
<1>2. \A i \in Slots : ~desc[i].own
  BY DEF Init, NoDesc
<1>3. OwnedInside /\ Mapped
  BY <1>2 DEF OwnedInside, Mapped
<1>4. Begun /\ ChipOff
  BY DEF Init, Begun, Building, ChipOff
<1> QED
  BY <1>1, <1>3, <1>4 DEF OInv

(* Every step keeps what the chip owns inside, a failed mapping included. *)
LEMMA OwnedNext == OInv /\ [Next]_vars /\ ~past'.spoiled => OInv'
<1> SUFFICES ASSUME OInv, [Next]_vars, ~past'.spoiled PROVE OInv'
  OBVIOUS
<1>0. IInv'
  BY RoomNext DEF OInv
<1>a. /\ IInv /\ TypeOK /\ InRing /\ Room /\ TornDown
      /\ OwnedInside /\ Begun /\ Mapped /\ ChipOff
  BY DEF OInv, IInv
<1>b. Slots' = Slots /\ \A i \in Slots : desc[i].own \in BOOLEAN
  BY <1>a DEF Slots, TypeOK, RingType, DescType
<1>c. Taken \in Nat /\ Live \in Nat
  BY <1>a, RoomLeft
<1> USE DEF ring, qvars, books, xvars, rvars, svars
<1>1. ASSUME NEW s \in Skbs, NEW f \in 0 .. MaxSkbFrags, NEW more \in BOOLEAN,
             XmitBegin(s, f, more)
      PROVE  OwnedInside' /\ Begun' /\ Mapped' /\ ChipOff'
  <2>2. xpc = "idle" /\ xpc' \in {"busy", "head"} /\ Taken = 0 /\ Taken' = 0
    BY <1>1 DEF XmitBegin, Taken
  <2>3. OwnedInside'
    BY <1>1, <2>2, LiveKept, InsideKept DEF XmitBegin
  <2>6. Begun'
    <3>1. CASE xpc' = "head"
      <4>1. xm' = [NoXm EXCEPT !.skb = s, !.frags = f, !.more = more, !.entry = cur_tx % NumTxDesc]
        BY <1>1, <3>1 DEF XmitBegin
      <4>2. xm'.entry = cur_tx % NumTxDesc /\ xm'.skb = s /\ xm'.k = 0
        BY <4>1 DEF NoXm
      <4> QED
        BY <1>1, <3>1, <4>2 DEF Begun, XmitBegin
    <3>2. CASE xpc' = "busy"
      BY <3>2 DEF Begun, Building
    <3> QED
      BY <2>2, <3>1, <3>2
  <2>7. Mapped' /\ ChipOff'
    BY <1>1, <1>a, <1>b DEF XmitBegin, Mapped, ChipOff
  <2> QED
    BY <2>3, <2>6, <2>7
<1>2. ASSUME XmitBusy PROVE OwnedInside' /\ Begun' /\ Mapped' /\ ChipOff'
  <2>1. /\ xpc = "busy" /\ xpc' = "idle" /\ Taken = 0 /\ Taken' = 0
        /\ UNCHANGED <<cur_tx, dirty_tx, desc, rpc, rp, spc, nic>>
    BY <1>2 DEF XmitBusy, Taken
  <2>2. OwnedInside'
    BY <2>1, LiveKept, InsideKept
  <2>3. Begun' /\ Mapped' /\ ChipOff'
    BY <1>a, <1>b, <2>1 DEF Begun, Building, Mapped, ChipOff
  <2> QED
    BY <2>2, <2>3
<1>3. ASSUME XmitHead PROVE OwnedInside' /\ Begun' /\ Mapped' /\ ChipOff'
  <2>1. \A i \in Slots : i # xm.entry => desc'[i] = desc[i]
    BY <1>3, <1>a DEF XmitHead, TxMap, TypeOK, RingType
  <2>2. xm.entry \in Slots /\ ~desc'[xm.entry].own /\ desc'[xm.entry].buf = xm.skb
    BY <1>3, <1>a, LocalTypes DEF XmitHead, TxMap, TypeOK, RingType
  <2>3. \A i \in Slots : desc'[i].own => desc[i].own
    BY <2>1, <2>2
  <2>4. /\ xm.k \in Nat /\ xm.frags \in Nat /\ UNCHANGED xm
        /\ xpc = "head" /\ xpc' \in {"frag", "last"}
    BY <1>3, <1>a, LocalTypes, Sizes DEF XmitHead
  <2>5. Taken' \in Nat /\ Taken' >= Taken
    BY <2>4 DEF Taken
  <2>6. OwnedInside'
    <3>1. Live' = Live /\ UNCHANGED cur_tx
      BY <1>3, LiveKept DEF XmitHead
    <3> QED
      BY <2>3, <2>5, <3>1, InsideKept
  <2>7. Begun'
    <3>1. xpc' = "frag" => xm.k < xm.frags
      BY <1>3, <1>a, LocalTypes, Sizes DEF XmitHead, Begun, Building
    <3> QED
      BY <1>3, <1>a, <2>2, <2>4, <3>1 DEF XmitHead, Begun, Building
  <2>8. Mapped'
    BY <1>a, <1>b, <2>1, <2>2 DEF Mapped
  <2>9. ChipOff'
    BY <1>3, <1>a, <1>b, <2>3 DEF XmitHead, ChipOff
  <2> QED
    BY <2>6, <2>7, <2>8, <2>9
<1>4. ASSUME XmitFrag PROVE OwnedInside' /\ Begun' /\ Mapped' /\ ChipOff'
  <2> DEFINE e == Entry(xm.k + 1)
  <2>1. /\ Taken = xm.k + 1 /\ e \in Slots /\ Off(e) = Taken
        /\ xm.k \in Nat /\ xm.frags \in Nat /\ xm.k < xm.frags /\ xm.skb \in Skbs
        /\ xm.entry \in Slots /\ desc[xm.entry].buf = xm.skb
        /\ xm.entry = cur_tx % NumTxDesc
    <3>1. xpc = "frag" /\ Building
      BY <1>4 DEF XmitFrag, Building
    <3>2. Taken = xm.k + 1
      BY <3>1 DEF Taken
    <3>3. e \in Slots /\ Off(e) = Taken
      BY <3>1, <3>2, NextIsFree
    <3> QED
      BY <1>a, <3>1, <3>2, <3>3, LocalTypes, Sizes DEF Begun
  <2>2. desc' = TxMap(desc, e, xm.skb, TRUE)
    BY <1>4 DEF XmitFrag
  <2> HIDE DEF e
  <2>3. \A i \in Slots : i # e => desc'[i] = desc[i]
    BY <1>a, <2>2 DEF TxMap, TypeOK, RingType
  <2>4. desc'[e].buf = xm.skb
    BY <1>a, <2>1, <2>2 DEF TxMap, TypeOK, RingType
  <2>5. xm' = [xm EXCEPT !.k = xm.k + 1] /\ xpc' = IF xm.k + 1 = xm.frags THEN "last" ELSE "frag"
    BY <1>4 DEF XmitFrag
  <2>6. /\ xm'.k = xm.k + 1 /\ xm'.frags = xm.frags /\ xm'.skb = xm.skb
        /\ xm'.entry = xm.entry
    BY <1>a, <2>5 DEF TypeOK, XmType
  <2>7. Taken' = Taken + 1
    BY <2>1, <2>5, <2>6 DEF Taken
  <2>8. OwnedInside'
    <3>1. Live' = Live /\ UNCHANGED cur_tx
      BY <1>4, LiveKept DEF XmitFrag
    <3>2. \A i \in Slots : Off(i)' = Off(i) /\ Off(i) \in 0 .. NumTxDesc - 1
      BY <1>a, <3>1, OffNumbers DEF Off
    <3>3. \A i \in Slots : i # e /\ desc'[i].own => Off(i) < Taken \/ Off(i) >= NumTxDesc - Live
      BY <1>a, <2>3 DEF OwnedInside
    <3>4. \A i \in Slots : desc'[i].own => Off(i) < Taken + 1 \/ Off(i) >= NumTxDesc - Live
      BY <1>c, <2>1, <3>2, <3>3, Sizes
    <3> QED
      BY <1>b, <2>7, <3>1, <3>2, <3>4 DEF OwnedInside
  <2>9. Begun'
    <3>1. desc'[xm.entry].buf = xm.skb
      BY <2>1, <2>3, <2>4
    <3>2. xm'.entry = (cur_tx % NumTxDesc)' /\ xm'.skb \in Skbs
      BY <1>4, <2>1, <2>6 DEF XmitFrag
    <3>3. xpc' = "frag" => xm'.k < xm'.frags
      BY <2>1, <2>5, <2>6
    <3> QED
      BY <2>5, <2>6, <3>1, <3>2, <3>3 DEF Begun
  <2>10. Mapped'
    BY <1>a, <1>b, <2>1, <2>3, <2>4, TxRingAssumption DEF Mapped
  <2>11. ChipOff'
    <3>1. spc # "index"
      BY <1>4, <1>a DEF XmitFrag, TornDown
    <3> QED
      BY <1>4, <1>a, <3>1 DEF XmitFrag, ChipOff
  <2> QED
    BY <2>8, <2>9, <2>10, <2>11
<1>5. ASSUME XmitMapFails PROVE OwnedInside' /\ Begun' /\ Mapped' /\ ChipOff'
  <2> DEFINE R == IF xpc = "head" THEN {}
                  ELSE MappedRange(cur_tx + 1, xm.k) \cup {xm.entry}
  <2>1. /\ xpc \in {"head", "frag"} /\ xpc' = "idle" /\ Taken' = 0 /\ desc' = ClearDesc(R)
        /\ Building /\ UNCHANGED <<cur_tx, spc, nic>>
    BY <1>5 DEF XmitMapFails, Taken, Building
  <2>2. ASSUME NEW i \in Slots, desc[i].own, Off(i) < Taken PROVE i \in R
    BY <1>a, <2>1, <2>2, TakenBack
  <2> HIDE DEF R
  <2>3. \A i \in Slots : desc'[i].own => i \notin R /\ desc'[i] = desc[i]
    BY <2>1 DEF ClearDesc, NoDesc
  <2>4. OwnedInside'
    <3>1. Live' = Live
      BY <1>5, LiveKept DEF XmitMapFails
    <3>2. \A i \in Slots : Off(i)' = Off(i)
      BY <2>1 DEF Off
    <3> QED
      BY <1>a, <1>b, <2>1, <2>2, <2>3, <3>1, <3>2 DEF OwnedInside
  <2>5. Begun' /\ Mapped' /\ ChipOff'
    BY <1>a, <1>b, <2>1, <2>3 DEF Begun, Building, Mapped, ChipOff
  <2> QED
    BY <2>4, <2>5
<1>6. ASSUME XmitLast PROVE OwnedInside' /\ Begun' /\ Mapped' /\ ChipOff'
  <2>1. /\ xm'.k = xm.k /\ xm'.frags = xm.frags /\ xm'.skb = xm.skb /\ xm'.entry = xm.entry
        /\ xpc = "last" /\ xpc' = "own"
    BY <1>6, <1>a DEF XmitLast, TypeOK, XmType
  <2>2. \A i \in Slots : desc'[i].own = desc[i].own /\ desc'[i].buf = desc[i].buf
    BY <1>6, <1>a DEF XmitLast, TypeOK, RingType, DescType
  <2>3. Taken' = Taken
    BY <2>1 DEF Taken
  <2>4. OwnedInside'
    <3>1. Live' = Live /\ UNCHANGED cur_tx
      BY <1>6, LiveKept DEF XmitLast
    <3> QED
      BY <1>c, <2>2, <2>3, <3>1, InsideKept
  <2>5. Begun'
    <3>1. xm.entry \in Slots /\ xm.entry = cur_tx % NumTxDesc /\ xm.skb \in Skbs
          /\ desc[xm.entry].buf = xm.skb /\ UNCHANGED cur_tx
      BY <1>6, <1>a, <2>1, LocalTypes DEF XmitLast, Begun, Building
    <3> QED
      BY <2>1, <2>2, <3>1 DEF Begun
  <2>6. Mapped' /\ ChipOff'
    BY <1>6, <1>a, <1>b, <2>2 DEF XmitLast, Mapped, ChipOff
  <2> QED
    BY <2>4, <2>5, <2>6
<1>7. ASSUME XmitOwn PROVE OwnedInside' /\ Begun' /\ Mapped' /\ ChipOff'
  <2>1. /\ xm.entry \in Slots /\ xm.entry = cur_tx % NumTxDesc /\ xm.skb \in Skbs
        /\ desc[xm.entry].buf = xm.skb /\ UNCHANGED <<cur_tx, xm>>
        /\ xpc = "own" /\ xpc' = "publish" /\ xm.frags \in Nat
    BY <1>7, <1>a, LocalTypes, Sizes DEF XmitOwn, Begun, Building
  <2>2. /\ \A i \in Slots : i # xm.entry => desc'[i] = desc[i]
        /\ \A i \in Slots : desc'[i].buf = desc[i].buf
    BY <1>7, <1>a, <2>1 DEF XmitOwn, TypeOK, RingType, DescType
  <2>3. Taken' = Taken /\ Taken > 0 /\ Live' = Live
    <3>1. Taken = xm.frags + 1 /\ Taken' = Taken
      BY <2>1 DEF Taken
    <3>2. Live' = Live
      BY <1>7, LiveKept DEF XmitOwn
    <3> QED
      BY <2>1, <3>1, <3>2
  <2>4. OwnedInside'
    <3>1. \A i \in Slots : Off(i)' = Off(i)
      BY <2>1 DEF Off
    <3>2. Off(xm.entry) = 0
      BY <2>1, Sizes DEF Off, Slots
    <3> QED
      BY <1>a, <1>b, <2>2, <2>3, <3>1, <3>2 DEF OwnedInside
  <2>5. Begun'
    BY <2>1, <2>2 DEF Begun
  <2>6. Mapped'
    BY <1>a, <1>b, <2>1, <2>2, TxRingAssumption DEF Mapped
  <2>7. ChipOff'
    <3>1. spc # "index"
      BY <1>7, <1>a DEF XmitOwn, TornDown
    <3> QED
      BY <1>7, <1>a, <3>1 DEF XmitOwn, ChipOff
  <2> QED
    BY <2>4, <2>5, <2>6, <2>7
<1>8. ASSUME XmitPublish PROVE OwnedInside' /\ Begun' /\ Mapped' /\ ChipOff'
  <2> DEFINE n == xm.frags + 1
  <2>1. xpc = "publish" /\ xpc' = "stop" /\ Taken = n /\ Taken' = 0
    BY <1>8 DEF XmitPublish, Taken
  <2>2. n \in Nat /\ Live + n <= NumTxDesc /\ n \in 0 .. NumTxDesc
    <3>1. Live + xm.frags + 1 <= NumTxDesc /\ xm.frags \in Nat
      BY <1>a, <2>1, RoomLeft DEF Building
    <3> QED
      BY <1>c, <3>1, Sizes
  <2>3. cur_tx' = Wrap(cur_tx + n) /\ UNCHANGED <<dirty_tx, rpc, rp, desc>>
    BY <1>8, <1>a, LocalTypes DEF XmitPublish, TypeOK, Index
  <2> HIDE DEF n
  <2>4. Live' = Live + n
    BY <1>a, <2>2, <2>3, LiveGrows
  <2>5. OwnedInside'
    <3>1. \A i \in Slots : /\ Off(i) \in 0 .. NumTxDesc - 1
                           /\ Off(i)' = IF Off(i) >= n THEN Off(i) - n ELSE Off(i) - n + NumTxDesc
      BY <1>a, <2>2, <2>3, OffNumbers, OffShifts
    <3>2. \A i \in Slots : desc'[i].own => Off(i) < n \/ Off(i) >= NumTxDesc - Live
      BY <1>a, <2>1, <2>3 DEF OwnedInside
    <3>3. \A i \in Slots : desc'[i].own => Off(i)' >= NumTxDesc - (Live + n)
      BY <1>c, <2>2, <3>1, <3>2, Sizes
    <3> QED
      BY <1>b, <2>4, <3>3 DEF OwnedInside
  <2>6. Begun' /\ Mapped' /\ ChipOff'
    BY <1>8, <1>a, <1>b, <2>1, <2>3 DEF XmitPublish, Begun, Building, Mapped, ChipOff
  <2> QED
    BY <2>5, <2>6
<1>9. ASSUME XmitMaybeStop \/ XmitStop \/ XmitRecheck \/ XmitBell
      PROVE  OwnedInside' /\ Begun' /\ Mapped' /\ ChipOff'
  <2>1. ~Building /\ ~Building' /\ Taken = 0 /\ Taken' = 0
        /\ UNCHANGED <<cur_tx, dirty_tx, desc, rpc, rp, spc>>
    BY <1>9 DEF XmitMaybeStop, XmitStop, XmitRecheck, XmitBell, Building, Taken
  <2>2. nic'.on = nic.on
    BY <1>9, <1>a DEF XmitMaybeStop, XmitStop, XmitRecheck, XmitBell, Doorbell, TypeOK, NicType
  <2>3. OwnedInside'
    BY <2>1, LiveKept, InsideKept
  <2>4. Begun' /\ Mapped' /\ ChipOff'
    BY <1>a, <1>b, <2>1, <2>2 DEF Begun, Mapped, ChipOff
  <2> QED
    BY <2>3, <2>4
<1>12. ASSUME ReapBegin \/ ReapPublish \/ ReapComplete \/ ReapWake \/ ReapKick
       PROVE  OwnedInside' /\ Begun' /\ Mapped' /\ ChipOff'
  <2>1. UNCHANGED <<cur_tx, desc, xpc, xm, spc>>
    BY <1>12 DEF ReapBegin, ReapPublish, ReapComplete, ReapWake, ReapKick
  <2>2. nic'.on = nic.on
    BY <1>12, <1>a DEF ReapBegin, ReapPublish, ReapComplete, ReapWake, ReapKick,
                       Doorbell, TypeOK, NicType
  <2>3. Live' = Live
    BY <1>12, LiveSteady
  <2>4. OwnedInside'
    BY <1>c, <2>1, <2>3, LiveKept, InsideKept
  <2>5. Begun' /\ Mapped' /\ ChipOff'
    BY <1>a, <1>b, <2>1, <2>2 DEF Begun, Building, Mapped, ChipOff
  <2> QED
    BY <2>4, <2>5
<1>13. ASSUME ReapOne PROVE OwnedInside' /\ Begun' /\ Mapped' /\ ChipOff'
  <2> DEFINE e == rp.d % NumTxDesc
  <2>1. /\ ~desc[e].own /\ desc' = ClearDesc({e})
        /\ UNCHANGED <<cur_tx, xpc, xm, spc, nic>>
    BY <1>13 DEF ReapOne
  <2>2. e \in Slots /\ Off(e) = NumTxDesc - Live /\ Live' = Live - 1 /\ Live >= 1
    BY <1>13, <1>a, LiveShrinks
  <2> HIDE DEF e
  <2>5. \A i \in Slots : desc'[i] = IF i = e THEN NoDesc ELSE desc[i]
    BY <2>1 DEF ClearDesc
  <2>6. \A i \in Slots : desc'[i].own => desc[i].own /\ i # e
    BY <2>5 DEF NoDesc
  <2>7. OwnedInside'
    <3>1. \A i \in Slots : Off(i)' = Off(i) /\ Off(i) \in 0 .. NumTxDesc - 1
      BY <1>a, <2>1, OffNumbers DEF Off
    <3>2. \A i \in Slots : i # e => Off(i) # NumTxDesc - Live
      BY <1>a, <2>2, OffNumbers
    <3>3. Taken' = Taken
      BY <2>1, LiveKept
    <3>4. \A i \in Slots : desc'[i].own => Off(i) < Taken \/ Off(i) >= NumTxDesc - Live
      BY <1>a, <2>6 DEF OwnedInside
    <3>5. \A i \in Slots : desc'[i].own => Off(i) < Taken \/ Off(i) >= NumTxDesc - (Live - 1)
      BY <1>c, <2>6, <3>1, <3>2, <3>4, Sizes
    <3> QED
      BY <1>b, <2>2, <3>1, <3>3, <3>5 DEF OwnedInside
  <2>8. Begun'
    <3>1. ASSUME Building PROVE xm.entry \in Slots /\ xm.entry # e
      <4>1. xm.entry \in Slots /\ xm.entry = cur_tx % NumTxDesc
        BY <1>a, <3>1, LocalTypes DEF Begun
      <4>2. Off(xm.entry) = 0
        BY <4>1, Sizes DEF Off, Slots
      <4>3. Off(e) > 0
        BY <1>a, <1>c, <2>2, <3>1, RoomLeft, Sizes
      <4> QED
        BY <4>1, <4>2, <4>3
    <3> QED
      BY <1>a, <2>1, <2>5, <3>1 DEF Begun, Building
  <2>9. Mapped'
    BY <1>a, <1>b, <2>5, <2>6 DEF Mapped
  <2>10. ChipOff'
    BY <1>a, <1>b, <2>1, <2>6 DEF ChipOff
  <2> QED
    BY <2>7, <2>8, <2>9, <2>10
<1>18. ASSUME NicSend PROVE OwnedInside' /\ Begun' /\ Mapped' /\ ChipOff'
  <2>1. /\ UNCHANGED <<cur_tx, dirty_tx, xpc, xm, rpc, rp, spc>> /\ nic.on
        /\ nic.pos \in Slots /\ desc' = [desc EXCEPT ![nic.pos].own = FALSE]
    BY <1>18 DEF NicSend
  <2>2. \A i \in Slots : desc'[i].buf = desc[i].buf /\ (desc'[i].own => desc[i].own)
    BY <1>a, <2>1 DEF TypeOK, RingType, DescType
  <2>3. OwnedInside'
    BY <1>c, <2>1, <2>2, LiveKept, InsideKept
  <2>4. Begun'
    BY <1>a, <2>1, <2>2, LocalTypes DEF Begun, Building
  <2>5. Mapped' /\ ChipOff'
    BY <1>a, <1>b, <1>18, <2>1, <2>2 DEF NicSend, Mapped, ChipOff
  <2> QED
    BY <2>3, <2>4, <2>5
<1>19. ASSUME NicSleep PROVE OwnedInside' /\ Begun' /\ Mapped' /\ ChipOff'
  <2>1. OwnedInside' /\ Begun' /\ Mapped'
    BY <1>19, RingKept DEF NicSleep
  <2>2. ChipOff'
    BY <1>19, <1>a, <1>b DEF NicSleep, ChipOff, TypeOK, NicType
  <2> QED
    BY <2>1, <2>2
<1>20. ASSUME NEW k \in ResetKinds, ResetBegin(k)
       PROVE  OwnedInside' /\ Begun' /\ Mapped' /\ ChipOff'
  <2>1. OwnedInside' /\ Begun' /\ Mapped'
    BY <1>20, RingKept DEF ResetBegin
  <2>2. ChipOff'
    BY <1>20 DEF ResetBegin, ChipOff
  <2> QED
    BY <2>1, <2>2
<1>21. ASSUME \/ ResetDetached \/ ResetStopQueue \/ ResetNapiDisable \/ ResetSync
              \/ ResetHw \/ ResetHwStart \/ ResetWakeQueue
       PROVE  OwnedInside' /\ Begun' /\ Mapped' /\ ChipOff'
  <2>1. UNCHANGED <<cur_tx, dirty_tx, desc, xpc, xm, rpc, rp>>
    BY <1>21 DEF ResetDetached, ResetStopQueue, ResetNapiDisable, ResetSync,
                 ResetHw, ResetHwStart, ResetWakeQueue
  <2>2. spc' # "index" /\ (spc' = "clear" => ~nic'.on)
    BY <1>21 DEF ResetDetached, ResetStopQueue, ResetNapiDisable, ResetSync,
                 ResetHw, ResetHwStart, ResetWakeQueue
  <2> QED
    BY <2>1, <2>2, RingKept DEF ChipOff
<1>26. ASSUME ResetTxClear PROVE OwnedInside' /\ Begun' /\ Mapped' /\ ChipOff'
  <2> DEFINE R == MappedRange(dirty_tx, NumTxDesc)
  <2>1. desc' = ClearDesc(R) /\ xpc' = "idle" /\ UNCHANGED <<cur_tx, dirty_tx, xpc, xm, rpc, rp>>
        /\ spc' = "index"
    BY <1>26, <1>0 DEF ResetTxClear, IInv, TornDown
  <2>2. ASSUME NEW i \in Slots, desc[i].own PROVE i \in R
    <3>1. dirty_tx \in Index
      BY <1>a DEF TypeOK
    <3>2. PICK j \in 0 .. NumTxDesc - 1 : (dirty_tx + j) % NumTxDesc = i
      BY <3>1, Around
    <3>3. desc[i].buf # NoSkb
      BY <1>a, <2>2 DEF Mapped
    <3> QED
      BY <3>2, <3>3 DEF MappedRange
  <2> HIDE DEF R
  <2>3. \A i \in Slots : ~desc'[i].own
    BY <2>1, <2>2 DEF ClearDesc, NoDesc
  <2>4. OwnedInside'
    BY <1>b, <2>3 DEF OwnedInside
  <2>5. Begun' /\ Mapped' /\ ChipOff'
    BY <1>b, <2>1, <2>3 DEF Begun, Building, Mapped, ChipOff
  <2> QED
    BY <2>4, <2>5
<1>27. ASSUME ResetIndexes PROVE OwnedInside' /\ Begun' /\ Mapped' /\ ChipOff'
  <2>1. spc = "index" /\ spc' = "start" /\ xpc = "idle" /\ UNCHANGED <<desc, xpc>>
    BY <1>27, <1>a DEF ResetIndexes, TornDown
  <2>2. \A i \in Slots : ~desc'[i].own
    BY <1>a, <2>1 DEF ChipOff
  <2>3. OwnedInside'
    BY <1>b, <2>2 DEF OwnedInside
  <2>4. Begun' /\ Mapped' /\ ChipOff'
    BY <1>b, <2>1, <2>2 DEF Begun, Building, Mapped, ChipOff
  <2> QED
    BY <2>3, <2>4
<1>30. ASSUME LinkUp PROVE OwnedInside' /\ Begun' /\ Mapped' /\ ChipOff'
  <2>1. OwnedInside' /\ Begun' /\ Mapped'
    BY <1>30, RingKept DEF LinkUp
  <2>2. ChipOff'
    BY <1>30, <1>a, <1>b DEF LinkUp, ChipOff
  <2> QED
    BY <2>1, <2>2
<1>31. ASSUME UNCHANGED vars PROVE OwnedInside' /\ Begun' /\ Mapped' /\ ChipOff'
  <2>1. OwnedInside' /\ Begun' /\ Mapped'
    BY <1>31, RingKept DEF vars
  <2>2. ChipOff'
    BY <1>31, <1>a, <1>b DEF vars, ChipOff
  <2> QED
    BY <2>1, <2>2
<1> QED
  BY <1>0, <1>1, <1>2, <1>3, <1>4, <1>5, <1>6, <1>7, <1>8, <1>9, <1>12, <1>13,
     <1>18, <1>19, <1>20, <1>21, <1>26, <1>27, <1>30, <1>31
  DEF OInv, Next, XmitStart, Xmit, Reap, Reset

(* A failed mapping gives up slots of its own packet alone. *)
LEMMA TakesOwn ==
  ASSUME OInv, xpc = "frag"
  PROVE  MappedRange(cur_tx + 1, xm.k) \cup {xm.entry} \subseteq Unfinished
<1>1. /\ IInv /\ TypeOK /\ Begun /\ Building /\ xm.entry = cur_tx % NumTxDesc /\ xm.entry \in Slots
      /\ xm.k \in Nat /\ xm.k < xm.frags /\ cur_tx \in Int
  BY LocalTypes, Sizes DEF OInv, IInv, Begun, Building, TypeOK, Index
<1>2. xm.k + 1 <= NumTxDesc
  BY <1>1, RoomLeft, Sizes
<1>3. xm.entry = Entry(0)
  <2>1. xm.entry + 0 = NumTxDesc * 0 + xm.entry /\ xm.entry \in 0 .. NumTxDesc - 1
    BY <1>1, Sizes DEF Slots
  <2> QED
    BY <1>1, <2>1, ModIs DEF Entry
<1>4. ASSUME NEW j \in 0 .. xm.k - 1 PROVE (cur_tx + 1 + j) % NumTxDesc = Entry(j + 1)
  <2>1. j + 1 \in 0 .. NumTxDesc - 1 /\ cur_tx + 1 + j = cur_tx + (j + 1) /\ j + 1 \in Nat
    BY <1>1, <1>2, Sizes
  <2>2. (cur_tx + (j + 1)) % NumTxDesc = ((cur_tx % NumTxDesc) + (j + 1)) % NumTxDesc
    BY <1>1, <2>1, OffNumbers
  <2> QED
    BY <1>1, <2>1, <2>2 DEF Entry
<1> QED
  BY <1>1, <1>3, <1>4 DEF Unfinished, MappedRange

(* What one step does to a descriptor the chip owns. *)
LEMMA OwnedStep ==
  ASSUME OInv, [Next]_vars
  PROVE  \A i \in Slots \ Unfinished : desc[i].own /\ nic.on => desc'[i].buf = desc[i].buf
<1> SUFFICES ASSUME NEW i \in Slots, i \notin Unfinished, desc[i].own, nic.on
             PROVE  desc'[i].buf = desc[i].buf
  OBVIOUS
<1>a. TypeOK /\ Begun /\ ChipOff
  BY DEF OInv, IInv
<1> USE DEF ring, qvars, books, xvars, rvars, svars
<1>1. CASE UNCHANGED desc
  BY <1>1
<1>2. CASE XmitHead \/ XmitFrag
  <2>1. PICK own \in BOOLEAN : desc' = TxMap(desc, Entry(Taken), xm.skb, own)
    <3>1. CASE XmitHead
      <4>1. xm.entry = Entry(Taken)
        <5>1. xm.entry = cur_tx % NumTxDesc /\ xm.entry \in Slots /\ Taken = 0
          BY <1>a, <3>1, LocalTypes DEF XmitHead, Begun, Building, Taken
        <5>2. Off(xm.entry) = 0 /\ Off(Entry(Taken)) = 0 /\ Entry(Taken) \in Slots
          BY <3>1, <5>1, NextIsFree, Sizes DEF XmitHead, Off, Slots
        <5> QED
          BY <1>a, <5>1, <5>2, OffNumbers
      <4> QED
        BY <3>1, <4>1 DEF XmitHead
    <3>2. CASE XmitFrag
      BY <3>2 DEF XmitFrag, Taken
    <3> QED
      BY <1>2, <3>1, <3>2
  <2>2. Entry(Taken) # i
    BY <1>2, NextIsFree DEF XmitHead, XmitFrag
  <2> QED
    BY <1>a, <2>1, <2>2 DEF TxMap, TypeOK, RingType
<1>3. CASE XmitMapFails
  <2>1. CASE xpc = "head"
    BY <1>3, <2>1 DEF XmitMapFails, ClearDesc
  <2>2. CASE xpc = "frag"
    <3>1. desc' = ClearDesc(MappedRange(cur_tx + 1, xm.k) \cup {xm.entry})
      BY <1>3, <2>2 DEF XmitMapFails
    <3>2. MappedRange(cur_tx + 1, xm.k) \cup {xm.entry} \subseteq Unfinished
      BY <2>2, TakesOwn
    <3> QED
      BY <3>1, <3>2 DEF ClearDesc
  <2>3. xpc \in {"head", "frag"}
    BY <1>3 DEF XmitMapFails
  <2> QED
    BY <2>1, <2>2, <2>3
<1>4. CASE XmitLast \/ XmitOwn \/ NicSend
  <2>1. CASE XmitLast
    BY <2>1, <1>a DEF XmitLast, TypeOK, RingType, DescType
  <2>2. CASE XmitOwn
    BY <2>2, <1>a DEF XmitOwn, TypeOK, RingType, DescType
  <2>3. CASE NicSend
    BY <2>3, <1>a DEF NicSend, TypeOK, RingType, DescType
  <2> QED
    BY <1>4, <2>1, <2>2, <2>3
<1>5. CASE ReapOne
  BY <1>5 DEF ReapOne, ClearDesc
<1>6. CASE ResetTxClear
  BY <1>6, <1>a DEF ResetTxClear, ChipOff
<1>7. UNCHANGED desc \/ XmitHead \/ XmitFrag \/ XmitMapFails \/ XmitLast \/ XmitOwn \/ NicSend
      \/ ReapOne \/ ResetTxClear
  <2>1. XmitStart => UNCHANGED desc
    BY DEF XmitStart, XmitBegin
  <2>2. XmitBusy \/ XmitPublish \/ XmitMaybeStop \/ XmitStop \/ XmitRecheck \/ XmitBell
           => UNCHANGED desc
    BY DEF XmitBusy, XmitPublish, XmitMaybeStop, XmitStop, XmitRecheck, XmitBell
  <2>3. ReapBegin \/ ReapPublish \/ ReapComplete \/ ReapWake \/ ReapKick => UNCHANGED desc
    BY DEF ReapBegin, ReapPublish, ReapComplete, ReapWake, ReapKick
  <2>4. ResetDetached \/ ResetStopQueue \/ ResetNapiDisable \/ ResetSync \/ ResetHw
           \/ ResetIndexes \/ ResetHwStart \/ ResetWakeQueue => UNCHANGED desc
    BY DEF ResetDetached, ResetStopQueue, ResetNapiDisable, ResetSync, ResetHw, ResetIndexes,
           ResetHwStart, ResetWakeQueue
  <2>5. NicSleep \/ LinkUp \/ (\E k \in ResetKinds : ResetBegin(k)) \/ UNCHANGED vars
           => UNCHANGED desc
    BY DEF NicSleep, ResetBegin, LinkUp, vars
  <2> QED
    BY <2>1, <2>2, <2>3, <2>4, <2>5 DEF Next, Xmit, Reap, Reset
<1> QED
  BY <1>1, <1>2, <1>3, <1>4, <1>5, <1>6, <1>7

(* The ring never laps itself and the teardown waits: no step of start_xmit,  *)
(* of rtl_tx or of a reset rewrites or unmaps a descriptor that the running   *)
(* chip owns, but for the fragments a failed mapping takes back, up to the    *)
(* step that spoils the ring.                                                 *)
THEOREM OwnedKept == Spec => OwnedIsLeftAlone
<1> DEFINE Followed == TypeOK /\ (past.spoiled \/ OInv)
<1>1. Init => Followed
  BY OwnedInit, TypeInit
<1>2. Followed /\ [Next]_vars => Followed'
  BY OwnedNext, TypeNext, SpoiledStays
<1>3. Followed /\ [Next]_vars
        => [~past'.spoiled =>
              \A i \in Slots \ Unfinished :
                  desc[i].own /\ nic.on => desc'[i].buf = desc[i].buf]_vars
  BY OwnedStep, SpoiledStays
<1> HIDE DEF Followed
<1> QED
  BY <1>1, <1>2, <1>3, PTL DEF Spec, OwnedIsLeftAlone

-----------------------------------------------------------------------------
(* The accounts of the transmit ring: which slot holds which packet, who may   *)
(* free it, and what the byte queue limits are told; and what the chip meets.  *)

(* Where the packets are.  No packet with fragments is padded: the slot of    *)
(* the last fragment would then hold a packet that was never mapped there.    *)
Whole == ~Padding

Holding == xpc \in {"head", "frag", "last"}

(* The packet being built is at the slot of cur_tx, and the last slot it has  *)
(* reached, the one that will hold it, is mapped.                             *)
Reached == IF xpc = "frag" THEN xm.k ELSE xm.frags
Built ==
    Building =>
    /\ xm.entry = cur_tx % NumTxDesc /\ xm.skb \in Skbs
    /\ xpc = "head" => xm.k = 0
    /\ xpc = "frag" => xm.k < xm.frags
    /\ xpc # "head" => desc[Entry(Reached)].buf # NoSkb

(* A slot that holds a packet is mapped, and lies behind cur_tx or, until     *)
(* cur_tx is published, at the end of the packet just built.                  *)
HeldInside ==
    \A i \in Slots : tx_skb[i] # NoSkb =>
    /\ desc[i].buf # NoSkb
    /\ Off(i) >= NumTxDesc - Live \/ (xpc \in {"own", "publish"} /\ Off(i) = xm.frags)

(* No packet is held twice, and the held ones are those the driver owns. *)
HeldOnce ==
    /\ \A i, j \in Slots : tx_skb[i] # NoSkb /\ tx_skb[i] = tx_skb[j] => i = j
    /\ \A i \in Slots : tx_skb[i] # NoSkb => owner[tx_skb[i]] = "driver"
    /\ Holding => owner[xm.skb] = "driver" /\ \A i \in Slots : tx_skb[i] # xm.skb
    /\ \A s \in Skbs : owner[s] = "driver" =>
          (Holding /\ xm.skb = s) \/ \E i \in Slots : tx_skb[i] = s

(* The teardown leaves nothing behind. *)
Emptied == spc = "index" => \A i \in Slots : tx_skb[i] = NoSkb

HInv == IInv /\ Built /\ HeldInside /\ HeldOnce /\ Emptied

(* What the byte queue limits count: what is held, and what rtl_tx has reaped *)
(* since it last published, which is never more than the slots it went past.  *)
HeldSlots == {i \in Slots : tx_skb[i] # NoSkb}
Reaped ==
    rpc = "loop" => rp.pkts + Ahead(rp.d, cur_tx) <= Used

Balanced ==
    bql = Cardinality(HeldSlots) + (IF rpc \in {"loop", "wake"} THEN rp.pkts ELSE 0)

BInv == HInv /\ Reaped /\ Balanced

-----------------------------------------------------------------------------
(* The slots of the packet being built: each place along it has its own slot, *)
(* and none of them holds a packet before XmitLast.                          *)
LEMMA Places ==
  ASSUME HInv, Building, NEW n \in 0 .. xm.frags
  PROVE  /\ Entry(n) \in Slots /\ Off(Entry(n)) = n
         /\ n = 0 => Entry(n) = xm.entry
         /\ n < NumTxDesc - Live
         /\ \A i \in Slots : Off(i) = n => i = Entry(n)
         /\ Holding => tx_skb[Entry(n)] = NoSkb
<1>1. IInv /\ TypeOK /\ HeldInside /\ xm.entry = cur_tx % NumTxDesc /\ xm.entry \in Slots
  BY LocalTypes DEF HInv, IInv, Built
<1>2. n \in 0 .. NumTxDesc - 1 /\ n < NumTxDesc - Live /\ n \in Nat
  BY <1>1, RoomLeft, Sizes
<1>3. Entry(n) \in Slots
  BY <1>1, <1>2, RingTypes
<1>4. Off(Entry(n)) = n
  BY <1>1, <1>2, OffNumbers DEF Entry
<1>5. \A i \in Slots : Off(i) = n => i = Entry(n)
  BY <1>1, <1>3, <1>4, OffNumbers
<1>6. n = 0 => Entry(n) = xm.entry
  <2>1. Off(xm.entry) = 0
    BY <1>1, Sizes DEF Off, Slots
  <2> QED
    BY <1>1, <1>5, <2>1
<1>7. Holding => tx_skb[Entry(n)] = NoSkb
  <2>1. ~(n >= NumTxDesc - Live)
    BY <1>1, <1>2, RoomLeft, Sizes
  <2> QED
    BY <1>1, <1>3, <1>4, <2>1 DEF HeldInside, Holding
<1> QED
  BY <1>2, <1>3, <1>4, <1>5, <1>6, <1>7

(* What a failed mapping takes back is the packet being built... *)
LEMMA BackIsBuilt ==
  ASSUME IInv, Built, xpc = "frag", NEW i \in MappedRange(cur_tx + 1, xm.k) \cup {xm.entry}
  PROVE  \E j \in 0 .. xm.k : j \in 0 .. xm.frags /\ i = Entry(j)
<1>1. /\ TypeOK /\ xm.k \in Nat /\ xm.frags \in Nat /\ xm.k < xm.frags /\ xm.frags <= MaxSkbFrags
      /\ xm.entry = cur_tx % NumTxDesc /\ xm.entry \in Slots /\ cur_tx \in Int
  BY LocalTypes, Sizes DEF IInv, Built, Building, TypeOK, Index
<1>2. CASE i = xm.entry
  <2>1. 0 \in 0 .. NumTxDesc - 1 /\ 0 \in 0 .. xm.frags /\ 0 \in 0 .. xm.k
    BY <1>1, Sizes
  <2>2. Entry(0) \in Slots /\ Off(Entry(0)) = 0
    BY <1>1, <2>1, OffNumbers, RingTypes DEF Entry
  <2>3. Off(xm.entry) = 0
    BY <1>1, Sizes DEF Off, Slots
  <2>4. Entry(0) = xm.entry
    BY <1>1, <2>2, <2>3, OffNumbers
  <2> QED
    BY <1>2, <2>1, <2>4
<1>3. CASE i \in MappedRange(cur_tx + 1, xm.k)
  <2>1. PICK j \in 0 .. xm.k - 1 : i = (cur_tx + 1 + j) % NumTxDesc
    BY <1>3 DEF MappedRange
  <2>2. /\ j + 1 \in 0 .. xm.k /\ j + 1 \in 0 .. xm.frags /\ j + 1 \in 0 .. NumTxDesc - 1
        /\ cur_tx + 1 + j = cur_tx + (j + 1)
    BY <1>1, Sizes
  <2>3. i = Entry(j + 1)
    BY <1>1, <2>1, <2>2, OffNumbers DEF Entry
  <2> QED
    BY <2>2, <2>3
<1> QED
  BY <1>2, <1>3

(* ... and held no packet yet. *)
LEMMA NothingHeld ==
  ASSUME HInv, xpc = "frag", NEW i \in MappedRange(cur_tx + 1, xm.k) \cup {xm.entry}
  PROVE  i \in Slots /\ tx_skb[i] = NoSkb
<1>1. PICK j \in 0 .. xm.frags : i = Entry(j)
  BY BackIsBuilt DEF HInv
<1> QED
  BY <1>1, Places DEF Building, Holding

(* A step that only takes packets out of slots leaves the others inside. *)
LEMMA HeldKept ==
  ASSUME HInv, UNCHANGED cur_tx, Live' = Live,
         \A i \in Slots : tx_skb'[i] # NoSkb => tx_skb[i] # NoSkb /\ desc'[i].buf # NoSkb,
         xpc \in {"own", "publish"} => xpc' \in {"own", "publish"} /\ xm'.frags = xm.frags
  PROVE  HeldInside'
<1>1. \A i \in Slots : Off(i)' = Off(i)
  BY DEF Off
<1>2. Slots' = Slots
  BY DEF Slots
<1> QED
  BY <1>1, <1>2 DEF HInv, HeldInside

(* A step that touches neither the packets nor the two that work on them. *)
LEMMA BooksKept ==
  ASSUME HInv, UNCHANGED <<cur_tx, dirty_tx, tx_skb, owner, xpc, xm, rpc, rp>>,
         \A i \in Slots : desc'[i].buf = desc[i].buf
  PROVE  Built' /\ HeldInside' /\ HeldOnce'
<1>0. Slots' = Slots
  BY DEF Slots
<1>1. HeldInside'
  <2>1. \A i \in Slots : tx_skb'[i] # NoSkb => tx_skb[i] # NoSkb /\ desc'[i].buf # NoSkb
    BY DEF HInv, HeldInside
  <2>2. Live' = Live
    BY LiveKept
  <2> QED
    BY <2>1, <2>2, HeldKept
<1>2. Built'
  <2>1. ASSUME Building, xpc # "head" PROVE desc'[Entry(Reached)].buf # NoSkb
    <3>1. Reached \in Nat
      BY LocalTypes, Sizes DEF HInv, IInv, Reached
    <3>2. Entry(Reached) \in Slots
      BY <3>1, RingTypes DEF HInv, IInv
    <3> QED
      BY <2>1, <3>2 DEF HInv, Built
  <2> QED
    BY <2>1 DEF HInv, Built, Building, Reached, Entry
<1>3. HeldOnce'
  BY <1>0 DEF HInv, HeldOnce, Holding
<1> QED
  BY <1>1, <1>2, <1>3

(* No packet is held at first. *)
LEMMA BooksInit == Whole /\ Init => HInv
<1> SUFFICES ASSUME Whole, Init PROVE HInv
  OBVIOUS
<1>1. IInv
  BY RoomInit
<1>2. \A i \in Slots : tx_skb[i] = NoSkb
  BY DEF Init
<1>3. HeldInside /\ Emptied
  BY <1>2 DEF HeldInside, Emptied
<1>4. Built /\ HeldOnce
  BY <1>2 DEF Init, Built, Building, HeldOnce, Holding
<1> QED
  BY <1>1, <1>3, <1>4 DEF HInv

(* Every step moves a packet from one holder to another or frees it. *)
LEMMA BooksNext == Whole /\ HInv /\ [Next]_vars /\ ~past'.spoiled => HInv'
<1> SUFFICES ASSUME Whole, HInv, [Next]_vars, ~past'.spoiled PROVE HInv'
  OBVIOUS
<1>0. IInv'
  BY RoomNext DEF HInv
<1>a. /\ IInv /\ TypeOK /\ InRing /\ Room /\ TornDown
      /\ Built /\ HeldInside /\ HeldOnce /\ Emptied
  BY DEF HInv, IInv
<1>b. /\ Slots' = Slots
      /\ \A i \in Slots : tx_skb[i] \in SkbOrNo /\ (tx_skb[i] # NoSkb => desc[i].buf # NoSkb)
      /\ NoSkb \notin Skbs
  BY <1>a, TxRingAssumption DEF Slots, TypeOK, HeldInside
<1>c. Live \in Nat /\ xm.frags \in Nat /\ xm.k \in Nat /\ xm.frags <= MaxSkbFrags
      /\ xm.entry \in Slots
  BY <1>a, RoomLeft, LocalTypes, Sizes
<1> DEFINE Good == Built' /\ HeldInside' /\ HeldOnce' /\ Emptied'
<1> USE DEF ring, qvars, books, xvars, rvars, svars
<1>1. ASSUME NEW s \in Skbs, NEW f \in 0 .. MaxSkbFrags, NEW more \in BOOLEAN,
             XmitBegin(s, f, more)
      PROVE  Good
  <2>0. CASE Avail = 0
    <3>1. xpc = "idle" /\ xpc' = "busy"
          /\ UNCHANGED <<cur_tx, dirty_tx, desc, tx_skb, owner, xm, rpc, rp, spc>>
      BY <1>1, <2>0 DEF XmitBegin
    <3>2. HeldInside'
      BY <1>b, <3>1, LiveKept, HeldKept
    <3> QED
      BY <1>a, <1>b, <3>1, <3>2 DEF Built, Building, HeldOnce, Holding, Emptied
  <2>1. SUFFICES ASSUME Avail # 0 PROVE Good
    BY <2>0
  <2>2. /\ xpc = "idle" /\ xpc' = "head" /\ owner[s] = "stack"
        /\ xm' = [NoXm EXCEPT !.skb = s, !.frags = f, !.more = more, !.entry = cur_tx % NumTxDesc]
        /\ owner' = [owner EXCEPT ![s] = "driver"]
        /\ UNCHANGED <<cur_tx, dirty_tx, desc, tx_skb, rpc, rp, spc>>
    BY <1>1, <2>1 DEF XmitBegin
  <2>3. xm'.entry = cur_tx % NumTxDesc /\ xm'.skb = s /\ xm'.k = 0
    BY <2>2 DEF NoXm
  <2>4. Built'
    BY <2>2, <2>3 DEF Built
  <2>5. HeldInside'
    BY <1>b, <2>2, LiveKept, HeldKept
  <2>6. HeldOnce'
    <3>1. \A i \in Slots : tx_skb[i] # s
      BY <1>a, <1>b, <2>2 DEF HeldOnce
    <3>2. owner'[s] = "driver" /\ \A t \in Skbs : t # s => owner'[t] = owner[t]
      BY <1>a, <2>2 DEF TypeOK
    <3>3. Holding' /\ ~Holding
      BY <2>2 DEF Holding
    <3> QED
      BY <1>a, <1>b, <2>2, <2>3, <3>1, <3>2, <3>3 DEF HeldOnce, SkbOrNo
  <2>7. Emptied'
    BY <1>a, <1>b, <2>2 DEF Emptied
  <2> QED
    BY <2>4, <2>5, <2>6, <2>7
<1>2. ASSUME XmitBusy PROVE Good
  <2>1. xpc = "busy" /\ xpc' = "idle"
        /\ UNCHANGED <<cur_tx, dirty_tx, desc, tx_skb, owner, xm, rpc, rp, spc>>
    BY <1>2 DEF XmitBusy
  <2>2. HeldInside'
    BY <1>b, <2>1, LiveKept, HeldKept
  <2> QED
    BY <1>a, <1>b, <2>1, <2>2 DEF Built, Building, HeldOnce, Holding, Emptied
<1>3. ASSUME XmitHead PROVE Good
  <2>1. /\ xpc = "head" /\ xpc' \in {"frag", "last"} /\ xm.k = 0 /\ xm.skb \in Skbs
        /\ xm.entry = cur_tx % NumTxDesc
        /\ UNCHANGED <<cur_tx, dirty_tx, tx_skb, owner, xm, rpc, rp, spc>>
    BY <1>3, <1>a DEF XmitHead, Built, Building
  <2>2. xpc' = IF xm.frags > 0 THEN "frag" ELSE "last"
    <3>1. PICK linear \in {FALSE, Padding} :
             xpc' = IF xm.frags > 0 /\ ~linear THEN "frag" ELSE "last"
      BY <1>3 DEF XmitHead
    <3>2. ~linear
      BY <3>1 DEF Whole
    <3> QED
      BY <3>1, <3>2
  <2>3. \A i \in Slots : desc'[i].buf = IF i = xm.entry THEN xm.skb ELSE desc[i].buf
    BY <1>3, <1>a, <1>c DEF XmitHead, TxMap, TypeOK, RingType
  <2>4. Built'
    <3>1. Reached' = 0
      BY <1>c, <2>1, <2>2 DEF Reached
    <3>2. Entry(0) = xm.entry
      <4>1. 0 \in 0 .. xm.frags /\ Building
        BY <1>c, <2>1 DEF Building
      <4> QED
        BY <4>1, Places
    <3>3. desc'[Entry(0)].buf # NoSkb
      BY <1>b, <1>c, <2>1, <2>3, <3>2
    <3>4. Entry(Reached)' = Entry(0)
      BY <2>1, <3>1 DEF Entry
    <3>5. xpc' = "frag" => xm.k < xm.frags
      BY <1>c, <2>1, <2>2
    <3> QED
      BY <2>1, <3>3, <3>4, <3>5 DEF Built
  <2>5. HeldInside'
    <3>1. \A i \in Slots : tx_skb'[i] # NoSkb => tx_skb[i] # NoSkb /\ desc'[i].buf # NoSkb
      BY <1>b, <2>1, <2>3
    <3> QED
      BY <2>1, <3>1, LiveKept, HeldKept
  <2>6. HeldOnce'
    BY <1>a, <1>b, <2>1 DEF HeldOnce, Holding
  <2>7. Emptied'
    BY <1>a, <1>b, <2>1 DEF Emptied
  <2> QED
    BY <2>4, <2>5, <2>6, <2>7
<1>4. ASSUME XmitFrag PROVE Good
  <2>1. /\ xpc = "frag" /\ xpc' \in {"frag", "last"} /\ xm.k < xm.frags /\ xm.skb \in Skbs
        /\ xm.entry = cur_tx % NumTxDesc
        /\ UNCHANGED <<cur_tx, dirty_tx, tx_skb, owner, rpc, rp, spc>>
    BY <1>4, <1>a DEF XmitFrag, Built, Building
  <2>2. xpc' = IF xm.k + 1 = xm.frags THEN "last" ELSE "frag"
    BY <1>4 DEF XmitFrag
  <2>3. xm'.k = xm.k + 1 /\ xm'.frags = xm.frags /\ xm'.skb = xm.skb /\ xm'.entry = xm.entry
    BY <1>4, <1>a DEF XmitFrag, TypeOK, XmType
  <2>4. Entry(xm.k + 1) \in Slots
    BY <1>a, <1>c, RingTypes
  <2>5. \A i \in Slots : desc'[i].buf = IF i = Entry(xm.k + 1) THEN xm.skb ELSE desc[i].buf
    BY <1>4, <1>a, <2>4 DEF XmitFrag, TxMap, TypeOK, RingType
  <2>6. Built'
    <3>1. Reached' = xm.k + 1
      BY <2>2, <2>3 DEF Reached
    <3>2. Entry(Reached)' = Entry(xm.k + 1)
      BY <2>3, <3>1 DEF Entry
    <3>3. desc'[Entry(xm.k + 1)].buf # NoSkb
      BY <1>b, <2>1, <2>4, <2>5
    <3>4. xpc' = "frag" => xm'.k < xm'.frags
      BY <1>c, <2>1, <2>2, <2>3
    <3> QED
      BY <2>1, <2>3, <3>2, <3>3, <3>4 DEF Built
  <2>7. HeldInside'
    <3>1. \A i \in Slots : tx_skb'[i] # NoSkb => tx_skb[i] # NoSkb /\ desc'[i].buf # NoSkb
      BY <1>b, <2>1, <2>5
    <3> QED
      BY <2>1, <3>1, LiveKept, HeldKept
  <2>8. HeldOnce'
    BY <1>a, <1>b, <2>1, <2>3 DEF HeldOnce, Holding
  <2>9. Emptied'
    BY <1>a, <1>b, <2>1 DEF Emptied
  <2> QED
    BY <2>6, <2>7, <2>8, <2>9
<1>5. ASSUME XmitMapFails PROVE Good
  <2> DEFINE R == IF xpc = "head" THEN {}
                  ELSE MappedRange(cur_tx + 1, xm.k) \cup {xm.entry}
  <2>1. /\ xpc \in {"head", "frag"} /\ xpc' = "idle" /\ xm' = NoXm
        /\ desc' = ClearDesc(R) /\ tx_skb' = ClearSkb(R)
        /\ owner' = Freed({xm.skb} \cup {tx_skb[i] : i \in R})
        /\ UNCHANGED <<cur_tx, dirty_tx, rpc, rp, spc>>
    BY <1>5 DEF XmitMapFails
  <2>2. \A i \in R : i \in Slots /\ tx_skb[i] = NoSkb
    BY <2>1, NothingHeld
  <2> HIDE DEF R
  <2>3. \A i \in Slots : tx_skb'[i] = tx_skb[i]
    BY <2>1, <2>2 DEF ClearSkb
  <2>4. \A s \in Skbs : owner'[s] = IF s = xm.skb THEN "stack" ELSE owner[s]
    BY <1>b, <2>1, <2>2 DEF Freed
  <2>5. HeldInside'
    <3>1. \A i \in Slots : tx_skb'[i] # NoSkb => tx_skb[i] # NoSkb /\ desc'[i].buf # NoSkb
      BY <1>b, <2>1, <2>2, <2>3 DEF ClearDesc
    <3> QED
      BY <2>1, <3>1, LiveKept, HeldKept
  <2>6. HeldOnce'
    <3>1. Holding /\ ~Holding'
      BY <2>1 DEF Holding
    <3> QED
      BY <1>a, <1>b, <2>3, <2>4, <3>1 DEF HeldOnce, SkbOrNo
  <2>7. Built' /\ Emptied'
    BY <1>a, <1>b, <2>1, <2>3 DEF Built, Building, Emptied
  <2> QED
    BY <2>5, <2>6, <2>7
<1>6. ASSUME XmitLast PROVE Good
  <2> DEFINE e == Entry(xm.frags)
  <2>1. /\ xpc = "last" /\ xpc' = "own" /\ xm.skb \in Skbs /\ xm.entry = cur_tx % NumTxDesc
        /\ desc[e].buf # NoSkb /\ Holding /\ ~Holding'
        /\ UNCHANGED <<cur_tx, dirty_tx, owner, rpc, rp, spc>>
    BY <1>6, <1>a DEF XmitLast, Built, Building, Reached, Holding
  <2>2. /\ e \in Slots /\ Off(e) = xm.frags /\ tx_skb[e] = NoSkb
    <3>1. xm.frags \in 0 .. xm.frags /\ Building
      BY <1>c, <2>1 DEF Building
    <3> QED
      BY <2>1, <3>1, Places
  <2>3. xm'.k = xm.k /\ xm'.frags = xm.frags /\ xm'.skb = xm.skb /\ xm'.entry = xm.entry
    BY <1>6, <1>a DEF XmitLast, TypeOK, XmType
  <2>4. \A i \in Slots : desc'[i].buf = desc[i].buf
    BY <1>6, <1>a, <2>2 DEF XmitLast, TypeOK, RingType, DescType
  <2>5. \A i \in Slots : tx_skb'[i] = IF i = e THEN xm.skb ELSE tx_skb[i]
    BY <1>6, <1>a, <2>2 DEF XmitLast, TypeOK
  <2>6. Built'
    <3>1. Entry(Reached)' = e
      BY <2>1, <2>3 DEF Entry, Reached
    <3> QED
      BY <2>1, <2>2, <2>3, <2>4, <3>1 DEF Built
  <2> HIDE DEF e
  <2>7. HeldInside'
    <3>1. \A i \in Slots : Off(i)' = Off(i)
      BY <2>1 DEF Off
    <3>2. Live' = Live
      BY <2>1, LiveKept
    <3> QED
      BY <1>a, <1>b, <2>1, <2>2, <2>3, <2>4, <2>5, <3>1, <3>2 DEF HeldInside
  <2>8. HeldOnce'
    BY <1>a, <1>b, <2>1, <2>2, <2>3, <2>5 DEF HeldOnce
  <2>9. Emptied'
    <3>1. spc # "index"
      BY <1>a, <2>1 DEF TornDown
    <3> QED
      BY <2>1, <3>1 DEF Emptied
  <2> QED
    BY <2>6, <2>7, <2>8, <2>9
<1>7. ASSUME XmitOwn PROVE Good
  <2>1. /\ xpc = "own" /\ xpc' = "publish" /\ ~Holding /\ ~Holding'
        /\ UNCHANGED <<cur_tx, dirty_tx, tx_skb, owner, xm, rpc, rp, spc>>
    BY <1>7 DEF XmitOwn, Holding
  <2>2. \A i \in Slots : desc'[i].buf = desc[i].buf
    BY <1>7, <1>a, <1>c DEF XmitOwn, TypeOK, RingType, DescType
  <2>3. Built'
    <3>1. Entry(xm.frags) \in Slots /\ Entry(Reached) = Entry(xm.frags)
          /\ Entry(Reached)' = Entry(xm.frags)
      BY <1>a, <1>c, <2>1, RingTypes DEF Reached, Entry
    <3>2. desc'[Entry(xm.frags)].buf # NoSkb
      BY <1>a, <2>1, <2>2, <3>1 DEF Built, Building
    <3> QED
      BY <1>a, <2>1, <3>1, <3>2 DEF Built, Building
  <2>4. HeldInside'
    BY <1>b, <2>1, <2>2, LiveKept, HeldKept
  <2>5. HeldOnce' /\ Emptied'
    BY <1>a, <1>b, <2>1 DEF HeldOnce, Emptied
  <2> QED
    BY <2>3, <2>4, <2>5
<1>8. ASSUME XmitPublish PROVE Good
  <2> DEFINE n == xm.frags + 1
  <2>1. /\ xpc = "publish" /\ xpc' = "stop" /\ ~Holding /\ ~Holding' /\ ~Building'
        /\ cur_tx' = Wrap(cur_tx + n)
        /\ UNCHANGED <<dirty_tx, desc, tx_skb, owner, rpc, rp, spc>>
    BY <1>8, <1>a, <1>c DEF XmitPublish, Holding, Building, TypeOK, Index
  <2>2. n \in Nat /\ Live + n <= NumTxDesc /\ n \in 0 .. NumTxDesc /\ n = xm.frags + 1
    <3>1. Live + xm.frags + 1 <= NumTxDesc
      BY <1>a, <2>1, RoomLeft DEF Building
    <3> QED
      BY <1>c, <3>1, Sizes
  <2> HIDE DEF n
  <2>3. Live' = Live + n
    BY <1>a, <2>1, <2>2, LiveGrows
  <2>4. HeldInside'
    <3>1. \A i \in Slots : /\ Off(i) \in 0 .. NumTxDesc - 1
                           /\ Off(i)' = IF Off(i) >= n THEN Off(i) - n ELSE Off(i) - n + NumTxDesc
      BY <1>a, <2>1, <2>2, OffNumbers, OffShifts
    <3>2. \A i \in Slots : tx_skb[i] # NoSkb => Off(i) = n - 1 \/ Off(i) >= NumTxDesc - Live
      BY <1>a, <1>c, <2>2 DEF HeldInside
    <3>3. \A i \in Slots : tx_skb[i] # NoSkb => Off(i)' >= NumTxDesc - (Live + n)
      BY <1>c, <2>2, <3>1, <3>2, Sizes
    <3> QED
      BY <1>b, <2>1, <2>3, <3>3 DEF HeldInside
  <2>5. Built' /\ HeldOnce' /\ Emptied'
    BY <1>a, <1>b, <2>1 DEF Built, HeldOnce, Emptied
  <2> QED
    BY <2>4, <2>5
<1>9. ASSUME XmitMaybeStop \/ XmitStop \/ XmitRecheck \/ XmitBell PROVE Good
  <2>1. /\ ~Building' /\ ~Holding /\ ~Holding' /\ xpc \notin {"own", "publish"}
        /\ UNCHANGED <<cur_tx, dirty_tx, desc, tx_skb, owner, rpc, rp, spc>>
    BY <1>9 DEF XmitMaybeStop, XmitStop, XmitRecheck, XmitBell, Building, Holding
  <2>2. HeldInside'
    BY <1>b, <2>1, LiveKept, HeldKept
  <2>3. Built' /\ HeldOnce' /\ Emptied'
    BY <1>a, <1>b, <2>1 DEF Built, HeldOnce, Emptied
  <2> QED
    BY <2>2, <2>3
<1>12. ASSUME ReapBegin \/ ReapPublish \/ ReapComplete \/ ReapWake \/ ReapKick PROVE Good
  <2>1. UNCHANGED <<cur_tx, desc, tx_skb, owner, xpc, xm, spc>>
    BY <1>12 DEF ReapBegin, ReapPublish, ReapComplete, ReapWake, ReapKick
  <2>2. Live' = Live
    BY <1>12, LiveSteady
  <2>3. HeldInside'
    BY <1>b, <2>1, <2>2, HeldKept
  <2>4. Built' /\ HeldOnce' /\ Emptied'
    BY <1>a, <1>b, <2>1 DEF Built, Building, Reached, Entry, HeldOnce, Holding, Emptied
  <2> QED
    BY <2>3, <2>4
<1>13. ASSUME ReapOne PROVE Good
  <2> DEFINE e == rp.d % NumTxDesc
  <2>1. /\ desc' = ClearDesc({e}) /\ tx_skb' = ClearSkb({e}) /\ owner' = Freed({tx_skb[e]})
        /\ UNCHANGED <<cur_tx, xpc, xm, spc>>
    BY <1>13 DEF ReapOne
  <2>2. e \in Slots /\ Off(e) = NumTxDesc - Live /\ Live' = Live - 1 /\ Live >= 1
    BY <1>13, <1>a, LiveShrinks
  <2> HIDE DEF e
  <2>3. \A i \in Slots : /\ desc'[i] = IF i = e THEN NoDesc ELSE desc[i]
                         /\ tx_skb'[i] = IF i = e THEN NoSkb ELSE tx_skb[i]
    BY <2>1 DEF ClearDesc, ClearSkb
  <2>4. \A s \in Skbs : owner'[s] = IF s = tx_skb[e] THEN "stack" ELSE owner[s]
    BY <2>1 DEF Freed
  <2>5. HeldInside'
    <3>1. \A i \in Slots : Off(i)' = Off(i) /\ Off(i) \in 0 .. NumTxDesc - 1
      BY <1>a, <2>1, OffNumbers DEF Off
    <3>2. \A i \in Slots : i # e => Off(i) # NumTxDesc - Live
      BY <1>a, <2>2, OffNumbers
    <3>3. \A i \in Slots : i # e /\ Off(i) >= NumTxDesc - Live => Off(i) >= NumTxDesc - (Live - 1)
      BY <1>c, <3>1, <3>2, Sizes
    <3>4. \A i \in Slots : tx_skb'[i] # NoSkb => i # e /\ tx_skb[i] # NoSkb /\ desc'[i] = desc[i]
      BY <2>3
    <3> QED
      BY <1>a, <1>b, <2>1, <2>2, <3>1, <3>3, <3>4 DEF HeldInside
  <2>6. Built'
    <3>1. ASSUME Building PROVE Entry(Reached) \in Slots /\ Entry(Reached) # e
      <4>1. Reached \in 0 .. xm.frags
        BY <1>a, <1>c, <3>1, Sizes DEF Reached, Built
      <4>2. Off(Entry(Reached)) = Reached /\ Reached < NumTxDesc - Live /\ Entry(Reached) \in Slots
        BY <3>1, <4>1, Places
      <4> QED
        BY <1>c, <2>2, <4>1, <4>2, Sizes
    <3>2. Entry(Reached)' = Entry(Reached) /\ Building' = Building
      BY <2>1 DEF Entry, Reached, Building
    <3> QED
      BY <1>a, <2>1, <2>3, <3>1, <3>2 DEF Built
  <2>7. HeldOnce'
    <3>1. Holding' = Holding /\ UNCHANGED xm
      BY <2>1 DEF Holding
    <3>2. \A i, j \in Slots : tx_skb'[i] # NoSkb /\ tx_skb'[i] = tx_skb'[j] => i = j
      BY <1>a, <2>3 DEF HeldOnce
    <3>3. \A i \in Slots : tx_skb'[i] # NoSkb => owner'[tx_skb'[i]] = "driver"
      <4>1. SUFFICES ASSUME NEW i \in Slots, tx_skb'[i] # NoSkb
                     PROVE  owner'[tx_skb'[i]] = "driver"
        OBVIOUS
      <4>2. tx_skb'[i] = tx_skb[i] /\ tx_skb[i] # tx_skb[e] /\ tx_skb[i] \in Skbs
        BY <1>a, <1>b, <2>2, <2>3, <4>1 DEF HeldOnce, SkbOrNo
      <4> QED
        BY <1>a, <2>4, <4>1, <4>2 DEF HeldOnce
    <3>4. ASSUME Holding
          PROVE  owner'[xm.skb] = "driver" /\ \A i \in Slots : tx_skb'[i] # xm.skb
      <4>1. xm.skb \in Skbs
        BY <1>a, <3>4 DEF Built, Building, Holding
      <4> QED
        BY <1>a, <1>b, <2>2, <2>3, <2>4, <3>4, <4>1 DEF HeldOnce
    <3>5. ASSUME NEW s \in Skbs, owner'[s] = "driver", ~(Holding /\ xm.skb = s)
          PROVE  \E i \in Slots : tx_skb'[i] = s
      <4>1. s # tx_skb[e] /\ owner[s] = "driver"
        BY <2>4, <3>5
      <4>2. PICK i \in Slots : tx_skb[i] = s
        BY <1>a, <3>5, <4>1 DEF HeldOnce
      <4> QED
        BY <2>3, <4>1, <4>2
    <3> QED
      BY <1>b, <3>1, <3>2, <3>3, <3>4, <3>5 DEF HeldOnce
  <2>8. Emptied'
    BY <1>a, <1>b, <2>1, <2>3 DEF Emptied
  <2> QED
    BY <2>5, <2>6, <2>7, <2>8
<1>18. ASSUME NicSend PROVE Good
  <2>1. UNCHANGED <<cur_tx, dirty_tx, tx_skb, owner, xpc, xm, rpc, rp, spc>>
        /\ nic.pos \in Slots /\ desc' = [desc EXCEPT ![nic.pos].own = FALSE]
    BY <1>18 DEF NicSend
  <2>2. \A i \in Slots : desc'[i].buf = desc[i].buf
    BY <1>a, <2>1 DEF TypeOK, RingType, DescType
  <2> QED
    BY <1>a, <1>b, <2>1, <2>2, BooksKept DEF Emptied
<1>19. ASSUME NicSleep \/ LinkUp \/ UNCHANGED vars PROVE Good
  <2>1. UNCHANGED <<cur_tx, dirty_tx, desc, tx_skb, owner, xpc, xm, rpc, rp, spc>>
    BY <1>19 DEF NicSleep, LinkUp, vars
  <2> QED
    BY <1>a, <1>b, <2>1, BooksKept DEF Emptied
<1>20. ASSUME NEW k \in ResetKinds, ResetBegin(k) PROVE Good
  <2>1. UNCHANGED <<cur_tx, dirty_tx, desc, tx_skb, owner, xpc, xm, rpc, rp>> /\ spc' # "index"
    BY <1>20 DEF ResetBegin
  <2> QED
    BY <2>1, BooksKept DEF Emptied
<1>21. ASSUME \/ ResetDetached \/ ResetStopQueue \/ ResetNapiDisable \/ ResetSync
              \/ ResetHw \/ ResetHwStart \/ ResetWakeQueue
       PROVE  Good
  <2>1. UNCHANGED <<cur_tx, dirty_tx, desc, tx_skb, owner, xpc, xm, rpc, rp>> /\ spc' # "index"
    BY <1>21 DEF ResetDetached, ResetStopQueue, ResetNapiDisable, ResetSync,
                 ResetHw, ResetHwStart, ResetWakeQueue
  <2> QED
    BY <2>1, BooksKept DEF Emptied
<1>26. ASSUME ResetTxClear PROVE Good
  <2> DEFINE R == MappedRange(dirty_tx, NumTxDesc)
  <2>1. /\ tx_skb' = ClearSkb(R) /\ owner' = Freed({tx_skb[i] : i \in R}) /\ xpc' = "idle"
        /\ xpc' = xpc /\ spc' = "index"
    BY <1>26, <1>0 DEF ResetTxClear, IInv, TornDown
  <2>2. ASSUME NEW i \in Slots, tx_skb[i] # NoSkb PROVE i \in R
    <3>1. PICK j \in 0 .. NumTxDesc - 1 : (dirty_tx + j) % NumTxDesc = i
      BY <1>a, Around DEF TypeOK
    <3> QED
      BY <1>b, <2>2, <3>1 DEF MappedRange
  <2> HIDE DEF R
  <2>3. \A i \in Slots : tx_skb'[i] = NoSkb
    BY <2>1, <2>2 DEF ClearSkb
  <2>4. ~Holding /\ ~Holding' /\ ~Building'
    BY <2>1 DEF Holding, Building
  <2>5. \A s \in Skbs : owner'[s] # "driver"
    <3>1. ASSUME NEW s \in Skbs, owner[s] = "driver" PROVE s \in {tx_skb[i] : i \in R}
      BY <1>a, <1>b, <2>2, <2>4, <3>1 DEF HeldOnce
    <3> QED
      BY <2>1, <3>1 DEF Freed
  <2> QED
    BY <1>b, <2>3, <2>4, <2>5 DEF Built, HeldInside, HeldOnce, Emptied
<1>27. ASSUME ResetIndexes PROVE Good
  <2>1. /\ UNCHANGED <<tx_skb, owner, xpc, xm>> /\ xpc = "idle" /\ spc = "index" /\ spc' = "start"
    BY <1>27, <1>a DEF ResetIndexes, TornDown
  <2>2. \A i \in Slots : tx_skb'[i] = NoSkb
    BY <1>a, <2>1 DEF Emptied
  <2>3. ~Holding /\ ~Holding' /\ ~Building'
    BY <2>1 DEF Holding, Building
  <2> QED
    BY <1>a, <1>b, <2>1, <2>2, <2>3 DEF Built, HeldInside, HeldOnce, Emptied
<1> QED
  BY <1>0, <1>1, <1>2, <1>3, <1>4, <1>5, <1>6, <1>7, <1>8, <1>9, <1>12, <1>13,
     <1>18, <1>19, <1>20, <1>21, <1>26, <1>27
  DEF HInv, Next, XmitStart, Xmit, Reap, Reset

-----------------------------------------------------------------------------
(* The slots are finitely many, so the ones that hold something can be counted. *)
LEMMA HeldFinite == HeldSlots \subseteq Slots /\ IsFiniteSet(Slots) /\ IsFiniteSet(HeldSlots)
<1>1. IsFiniteSet(Slots)
  BY Sizes, FS_Interval DEF Slots
<1>2. HeldSlots \subseteq Slots
  BY DEF HeldSlots
<1> QED
  BY <1>1, <1>2, FS_Subset

(* Every packet the driver owns is in one place, and only there: each path of *)
(* start_xmit, of rtl_tx and of the teardown frees a packet exactly once, with *)
(* link-ups, the split wake and resets under traffic among the steps, up to   *)
(* the step that spoils the ring.                                             *)
THEOREM HeldExactlyOnce ==
  ASSUME Whole
  PROVE  Spec => [](past.spoiled \/ SkbHeldOnce)
<1> DEFINE Kept == TypeOK /\ (past.spoiled \/ HInv)
<1>1. Init => Kept
  BY Whole, BooksInit DEF HInv, IInv
<1>2. Kept /\ [Next]_vars => Kept'
  BY Whole, BooksNext, SpoiledStays, TypeNext DEF HInv, IInv
<1>3. ASSUME HInv, NEW s \in Skbs
      PROVE  Cardinality({i \in Slots : tx_skb[i] = s})
               + (IF xm.skb = s /\ xpc \in {"head", "frag", "last"} THEN 1 ELSE 0)
               = (IF owner[s] = "driver" THEN 1 ELSE 0)
  <2> DEFINE H == {i \in Slots : tx_skb[i] = s}
  <2>1. HeldOnce /\ s # NoSkb
    BY <1>3, TxRingAssumption DEF HInv
  <2>2. CASE \E i \in Slots : tx_skb[i] = s
    <3>1. PICK i \in Slots : tx_skb[i] = s
      BY <2>2
    <3>2. H = {i}
      BY <2>1, <3>1 DEF HeldOnce
    <3>3. Cardinality(H) = 1
      BY <3>2, FS_Singleton
    <3>4. owner[s] = "driver" /\ ~(xm.skb = s /\ Holding)
      BY <2>1, <3>1 DEF HeldOnce
    <3> QED
      BY <3>3, <3>4 DEF Holding
  <2>3. CASE ~\E i \in Slots : tx_skb[i] = s
    <3>1. H = {}
      BY <2>3
    <3>2. Cardinality(H) = 0
      BY <3>1, FS_EmptySet
    <3>3. owner[s] = "driver" <=> xm.skb = s /\ Holding
      BY <2>1, <2>3 DEF HeldOnce
    <3> QED
      BY <3>2, <3>3 DEF Holding
  <2> QED
    BY <2>2, <2>3
<1>4. Kept => past.spoiled \/ SkbHeldOnce
  BY <1>3 DEF SkbHeldOnce
<1> HIDE DEF Kept
<1> QED
  BY <1>1, <1>2, <1>4, PTL DEF Spec

-----------------------------------------------------------------------------
(* Nothing is counted at first. *)
LEMMA BqlInit == Whole /\ Init => BInv
<1> SUFFICES ASSUME Whole, Init PROVE BInv
  OBVIOUS
<1>1. HInv
  BY BooksInit
<1>2. HeldSlots = {}
  BY DEF Init, HeldSlots
<1>3. Cardinality(HeldSlots) = 0
  BY <1>2, FS_EmptySet
<1>4. Reaped /\ Balanced
  BY <1>3 DEF Init, Reaped, Balanced
<1> QED
  BY <1>1, <1>4 DEF BInv

(* A step that moves neither packets nor indices keeps the accounts. *)
LEMMA AccountsKept ==
  ASSUME BInv, UNCHANGED <<cur_tx, dirty_tx, bql, rpc, rp>>, \A i \in Slots : tx_skb'[i] = tx_skb[i]
  PROVE  Reaped' /\ Balanced'
<1>1. HeldSlots' = HeldSlots
  BY DEF HeldSlots, Slots
<1>2. Balanced'
  BY <1>1 DEF BInv, Balanced
<1>3. Reaped'
  BY DEF BInv, Reaped, Used, Ahead, Wrap
<1> QED
  BY <1>2, <1>3

(* Every step counts what it puts into the ring or reaps, or forgets all of it. *)
LEMMA BqlNext == Whole /\ BInv /\ [Next]_vars /\ ~past'.spoiled => BInv'
<1> SUFFICES ASSUME Whole, BInv, [Next]_vars, ~past'.spoiled PROVE BInv'
  OBVIOUS
<1>0. HInv'
  BY BooksNext DEF BInv
<1>a. /\ HInv /\ IInv /\ TypeOK /\ InRing /\ Room /\ TornDown /\ Built
      /\ Reaped /\ Balanced
  BY DEF BInv, HInv, IInv
<1>b. /\ Slots' = Slots
      /\ Cardinality(HeldSlots) \in Nat /\ rp.pkts \in Nat /\ bql \in Int
      /\ Used \in Nat /\ Live \in Nat
  <2>1. Cardinality(HeldSlots) \in Nat
    BY HeldFinite, FS_CardinalityType
  <2> QED
    BY <1>a, <2>1, LocalTypes, AvailIsRest, RoomLeft DEF Slots, TypeOK
<1> USE DEF ring, qvars, books, xvars, rvars, svars
<1>1. ASSUME NEW s \in Skbs, NEW f \in 0 .. MaxSkbFrags, NEW more \in BOOLEAN,
             XmitBegin(s, f, more)
      PROVE  Reaped' /\ Balanced'
  BY <1>1, AccountsKept DEF XmitBegin
<1>2. ASSUME \/ XmitBusy \/ XmitHead \/ XmitFrag \/ XmitOwn \/ XmitMaybeStop \/ XmitStop
             \/ XmitRecheck \/ XmitBell
      PROVE  Reaped' /\ Balanced'
  BY <1>2, AccountsKept DEF XmitBusy, XmitHead, XmitFrag, XmitOwn, XmitMaybeStop, XmitStop,
                            XmitRecheck, XmitBell
<1>5. ASSUME XmitMapFails PROVE Reaped' /\ Balanced'
  <2> DEFINE R == IF xpc = "head" THEN {}
                  ELSE MappedRange(cur_tx + 1, xm.k) \cup {xm.entry}
  <2>1. /\ xpc \in {"head", "frag"} /\ tx_skb' = ClearSkb(R)
        /\ UNCHANGED <<cur_tx, dirty_tx, bql, rpc, rp>>
    BY <1>5 DEF XmitMapFails
  <2>2. \A i \in R : tx_skb[i] = NoSkb
    BY <1>a, <2>1, NothingHeld
  <2> HIDE DEF R
  <2>3. \A i \in Slots : tx_skb'[i] = tx_skb[i]
    BY <2>1, <2>2 DEF ClearSkb
  <2> QED
    BY <2>1, <2>3, AccountsKept
<1>6. ASSUME XmitLast PROVE Reaped' /\ Balanced'
  <2> DEFINE e == Entry(xm.frags)
  <2>1. /\ xm.skb \in Skbs /\ Holding /\ Building /\ xm.frags \in 0 .. MaxSkbFrags
        /\ bql' = bql + 1 /\ UNCHANGED <<cur_tx, dirty_tx, rpc, rp>>
    BY <1>6, <1>a, LocalTypes DEF XmitLast, Built, Building, Holding
  <2>2. e \in Slots /\ tx_skb[e] = NoSkb
    BY <1>a, <2>1, Places
  <2>3. \A i \in Slots : tx_skb'[i] = IF i = e THEN xm.skb ELSE tx_skb[i]
    BY <1>6, <1>a, <2>2 DEF XmitLast, TypeOK
  <2> HIDE DEF e
  <2>4. HeldSlots' = HeldSlots \cup {e} /\ e \notin HeldSlots
    BY <1>b, <2>1, <2>2, <2>3, TxRingAssumption DEF HeldSlots
  <2>5. Cardinality(HeldSlots') = Cardinality(HeldSlots) + 1
    BY <2>4, HeldFinite, FS_AddElement
  <2>6. Balanced'
    BY <1>a, <1>b, <2>1, <2>5 DEF Balanced
  <2>7. Reaped'
    BY <1>a, <2>1 DEF Reaped, Used, Ahead, Wrap
  <2> QED
    BY <2>6, <2>7
<1>8. ASSUME XmitPublish PROVE Reaped' /\ Balanced'
  <2> DEFINE n == xm.frags + 1
  <2>1. /\ xpc = "publish" /\ Building /\ cur_tx' = Wrap(cur_tx + n)
        /\ UNCHANGED <<dirty_tx, tx_skb, bql, rpc, rp>>
    BY <1>8, <1>a, LocalTypes DEF XmitPublish, Building, TypeOK, Index
  <2>2. n \in Nat /\ n <= StopThrs /\ Used + n <= NumTxDesc /\ Live + n <= NumTxDesc
    <3>1. Used + n <= NumTxDesc /\ Live + n <= NumTxDesc
      BY <1>a, <1>b, <2>1, LocalTypes, RoomLeft DEF Room
    <3>2. n \in Nat /\ n <= StopThrs
      BY <1>a, LocalTypes, Sizes
    <3> HIDE DEF n
    <3> QED
      BY <1>b, <3>1, <3>2, Sizes
  <2> HIDE DEF n
  <2>3. Live' = Live + n
    BY <1>a, <2>1, <2>2, LiveGrows
  <2>4. Used' = Used + n
    <3>1. dirty_tx \in Index /\ cur_tx \in Index
      BY <1>a DEF TypeOK
    <3>2. Ahead(dirty_tx, Wrap(cur_tx + n)) = Ahead(dirty_tx, cur_tx) + n
      BY <2>2, <3>1, AheadGrows DEF Used
    <3> QED
      BY <2>1, <3>2 DEF Used, Ahead, Wrap
  <2>5. Reaped'
    <3>1. ASSUME rpc = "loop" PROVE rp.pkts + Live' <= Used'
      BY <1>a, <1>b, <2>2, <2>3, <2>4, <3>1 DEF Reaped, Live
    <3>2. rpc = "loop" => Ahead(rp.d, cur_tx)' = Live'
      BY <2>1 DEF Live
    <3> QED
      BY <2>1, <3>1, <3>2 DEF Reaped
  <2>6. Balanced'
    BY <1>a, <1>b, <2>1 DEF Balanced, HeldSlots
  <2> QED
    BY <2>5, <2>6
<1>12. ASSUME ReapBegin PROVE Reaped' /\ Balanced'
  <2>1. /\ rpc = "idle" /\ rpc' = "loop" /\ rp' = [NoRp EXCEPT !.d = dirty_tx]
        /\ UNCHANGED <<cur_tx, dirty_tx, tx_skb, bql>>
    BY <1>12 DEF ReapBegin
  <2>2. rp'.pkts = 0 /\ rp'.d = dirty_tx
    BY <2>1 DEF NoRp
  <2>3. Used' = Used /\ Ahead(rp.d, cur_tx)' = Used
    BY <2>1, <2>2 DEF Used, Ahead, Wrap
  <2>4. HeldSlots' = HeldSlots
    BY <1>b, <2>1 DEF HeldSlots
  <2> QED
    BY <1>a, <1>b, <2>1, <2>2, <2>3, <2>4 DEF Reaped, Balanced
<1>13. ASSUME ReapOne PROVE Reaped' /\ Balanced'
  <2> DEFINE e == rp.d % NumTxDesc
  <2>1. /\ rpc = "loop" /\ rpc' = "loop" /\ tx_skb' = ClearSkb({e})
        /\ UNCHANGED <<cur_tx, dirty_tx, bql>>
    BY <1>13 DEF ReapOne
  <2>2. rp'.pkts = IF tx_skb[e] # NoSkb THEN rp.pkts + 1 ELSE rp.pkts
    BY <1>13, <1>a DEF ReapOne, TypeOK, RpType
  <2>3. e \in Slots /\ Live' = Live - 1
    BY <1>13, <1>a, LiveShrinks
  <2> HIDE DEF e
  <2>4. HeldSlots' = HeldSlots \ {e}
    BY <1>b, <2>1 DEF HeldSlots, ClearSkb
  <2>5. Cardinality(HeldSlots') = IF e \in HeldSlots THEN Cardinality(HeldSlots) - 1
                                                     ELSE Cardinality(HeldSlots)
    BY <2>4, HeldFinite, FS_RemoveElement
  <2>6. e \in HeldSlots <=> tx_skb[e] # NoSkb
    BY <2>3 DEF HeldSlots
  <2>7. Balanced'
    BY <1>a, <1>b, <2>1, <2>2, <2>5, <2>6 DEF Balanced
  <2>8. Reaped'
    <3>1. Used' = Used
      BY <2>1 DEF Used, Ahead, Wrap
    <3>2. Live = Ahead(rp.d, cur_tx) /\ Live' = Ahead(rp.d, cur_tx)'
      BY <2>1 DEF Live
    <3> QED
      BY <1>a, <1>b, <2>1, <2>2, <2>3, <3>1, <3>2 DEF Reaped
  <2> QED
    BY <2>7, <2>8
<1>14. ASSUME ReapPublish PROVE Reaped' /\ Balanced'
  <2>1. /\ rpc = "loop" /\ UNCHANGED <<cur_tx, tx_skb, bql>>
        /\ rpc' = (IF dirty_tx = rp.d THEN "idle" ELSE "wake")
        /\ rp' = (IF dirty_tx = rp.d THEN NoRp ELSE rp)
    BY <1>14 DEF ReapPublish
  <2>2. ASSUME dirty_tx = rp.d PROVE rp.pkts = 0
    <3>1. Ahead(rp.d, cur_tx) = Used
      BY <2>2 DEF Used
    <3> QED
      BY <1>a, <1>b, <2>1, <3>1 DEF Reaped
  <2>3. HeldSlots' = HeldSlots
    BY <1>b, <2>1 DEF HeldSlots
  <2> QED
    BY <1>a, <1>b, <2>1, <2>2, <2>3 DEF Reaped, Balanced
<1>15. ASSUME ReapComplete PROVE Reaped' /\ Balanced'
  <2>1. rpc = "wake" /\ rpc' \in {"kick", "test"} /\ bql' = bql - rp.pkts /\ UNCHANGED tx_skb
    BY <1>15 DEF ReapComplete
  <2>2. HeldSlots' = HeldSlots
    BY <1>b, <2>1 DEF HeldSlots
  <2> QED
    BY <1>a, <1>b, <2>1, <2>2 DEF Reaped, Balanced
<1>16. ASSUME ReapWake \/ ReapKick PROVE Reaped' /\ Balanced'
  <2>1. rpc \in {"test", "kick"} /\ rpc' \in {"kick", "idle"} /\ UNCHANGED <<bql, tx_skb>>
    BY <1>16 DEF ReapWake, ReapKick
  <2>2. HeldSlots' = HeldSlots
    BY <1>b, <2>1 DEF HeldSlots
  <2> QED
    BY <1>a, <1>b, <2>1, <2>2 DEF Reaped, Balanced
<1>18. ASSUME NicSend \/ NicSleep \/ LinkUp \/ UNCHANGED vars PROVE Reaped' /\ Balanced'
  BY <1>18, AccountsKept DEF NicSend, NicSleep, LinkUp, vars
<1>20. ASSUME NEW k \in ResetKinds, ResetBegin(k) PROVE Reaped' /\ Balanced'
  BY <1>20, AccountsKept DEF ResetBegin
<1>21. ASSUME \/ ResetDetached \/ ResetStopQueue \/ ResetNapiDisable \/ ResetSync
              \/ ResetHw \/ ResetHwStart \/ ResetWakeQueue
       PROVE  Reaped' /\ Balanced'
  BY <1>21, AccountsKept DEF ResetDetached, ResetStopQueue, ResetNapiDisable, ResetSync,
                             ResetHw, ResetHwStart, ResetWakeQueue
<1>26. ASSUME ResetTxClear PROVE Reaped' /\ Balanced'
  <2>1. rpc = "idle" /\ rpc' = "idle" /\ bql' = 0 /\ spc' = "index"
    BY <1>26, <1>a DEF ResetTxClear, TornDown
  <2>2. HeldSlots' = {}
    BY <1>0, <1>b, <2>1 DEF HInv, Emptied, HeldSlots
  <2>3. Cardinality(HeldSlots') = 0
    BY <2>2, FS_EmptySet
  <2> QED
    BY <2>1, <2>3 DEF Reaped, Balanced
<1>27. ASSUME ResetIndexes PROVE Reaped' /\ Balanced'
  <2>1. rpc = "idle" /\ UNCHANGED <<rpc, bql, tx_skb>>
    BY <1>27, <1>a DEF ResetIndexes, TornDown
  <2>2. HeldSlots' = HeldSlots
    BY <1>b, <2>1 DEF HeldSlots
  <2> QED
    BY <1>a, <2>1, <2>2 DEF Reaped, Balanced
<1> QED
  BY <1>0, <1>1, <1>2, <1>5, <1>6, <1>8, <1>12, <1>13, <1>14, <1>15, <1>16, <1>18,
     <1>20, <1>21, <1>26, <1>27
  DEF BInv, Next, XmitStart, Xmit, Reap, Reset

(* What the byte queue limits believe in flight is what the ring holds, plus  *)
(* what rtl_tx has reaped and not yet reported: completion never exceeds what *)
(* was sent, up to the step that spoils the ring.                             *)
THEOREM BqlNeverOverdrawn ==
  ASSUME Whole
  PROVE  Spec => [](past.spoiled \/ BqlBalanced)
<1> DEFINE Kept == TypeOK /\ (past.spoiled \/ BInv)
<1>1. Init => Kept
  BY Whole, BqlInit DEF BInv, HInv, IInv
<1>2. Kept /\ [Next]_vars => Kept'
  BY Whole, BqlNext, SpoiledStays, TypeNext DEF BInv, HInv, IInv
<1>3. Kept => past.spoiled \/ BqlBalanced
  BY DEF BInv, Balanced, HeldSlots, BqlBalanced
<1> HIDE DEF Kept
<1> QED
  BY <1>1, <1>2, <1>3, PTL DEF Spec

-----------------------------------------------------------------------------
(* What the chip meets.  A packet counts as handed over from the step that    *)
(* gives away its head: Pos numbers the slots as Off does, but from the slot  *)
(* after that packet, and Full slots up to there are rtl_tx's to release.     *)
(* Calm operation without padding. *)
Still == Calm /\ ~Padding

Shift  == IF xpc = "publish" THEN xm.frags + 1 ELSE 0
Pos(i) == IF Off(i) >= Shift THEN Off(i) - Shift ELSE Off(i) - Shift + NumTxDesc
Full   == Live + Shift

Succ(i) == IF i = NumTxDesc - 1 THEN 0 ELSE i + 1

(* The packet being built, before its head is given away. *)
Region ==
    xpc \in {"frag", "last", "own"} =>
    /\ \A j \in 0 .. Reached :
          LET t == desc[Entry(j)]
          IN  /\ (t.own <=> j > 0) /\ t.buf = xm.skb /\ ~t.first
              /\ (t.last <=> xpc = "own" /\ j = xm.frags)
    /\ xpc = "own" => tx_skb[Entry(xm.frags)] = xm.skb

(* A slot given to the chip with its whole packet, and not released since. *)
Given(i) == Pos(i) >= NumTxDesc - Full

(* The chip stands at the oldest descriptor given and not sent, from which on *)
(* all are its own, or else where the next packet will begin; and it knows    *)
(* whether it is in the middle of a packet.                                   *)
Chip ==
    nic.on =>
    /\ nic.pos \in Slots
    /\ desc[nic.pos].own => /\ Given(nic.pos)
                            /\ \A i \in Slots : Pos(i) >= Pos(nic.pos) => desc[i].own
    /\ ~desc[nic.pos].own => Pos(nic.pos) = 0
    /\ \A i \in Slots : desc[i].own /\ Given(i) => desc[nic.pos].own /\ Pos(nic.pos) <= Pos(i)
    /\ nic.mid => desc[nic.pos].own /\ ~desc[nic.pos].first
    /\ ~nic.mid /\ desc[nic.pos].own => desc[nic.pos].first

(* A descriptor that does not end its packet is followed by one that goes on, *)
(* but for the newest one of a packet being built; one that does is followed  *)
(* by the first of a packet, or by the rest of the one the chip is sending.   *)
Newest(i) == xpc \in {"frag", "last"} /\ i = Entry(Reached)
Current(i) == nic.mid /\ i = nic.pos
Links ==
    nic.on =>
    \A i \in Slots : desc[i].own =>
    /\ ~desc[i].last /\ ~Newest(i)
          => desc[Succ(i)].own /\ ~desc[Succ(i)].first /\ ~Current(Succ(i))
    /\ desc[i].last /\ desc[Succ(i)].own => desc[Succ(i)].first \/ Current(Succ(i))

Wholes == nic.on => \A i \in Slots : desc[i].own /\ desc[i].first => WholePacket(i)

(* RingEnd is where the ring ends. *)
RingEnds == \A i \in Slots : desc[i].buf # NoSkb => (desc[i].eor <=> i = NumTxDesc - 1)

(* While the ring is emptied the chip is off and stands at its start. *)
Silent ==
    /\ spc \in {"clear", "index", "start"} => ~nic.on /\ nic.pos = 0 /\ ~nic.mid
    /\ spc \in {"index", "start"} => \A i \in Slots : ~desc[i].own

SInv == OInv /\ HInv /\ Region /\ Chip /\ Links /\ Wholes /\ RingEnds /\ Silent

-----------------------------------------------------------------------------
(* Going round the ring, slot by slot and by several slots at once. *)
LEMMA SuccNumbers ==
  ASSUME TypeOK
  PROVE  /\ \A i \in Slots : /\ Succ(i) \in Slots
                             /\ Off(Succ(i)) = IF Off(i) = NumTxDesc - 1 THEN 0 ELSE Off(i) + 1
         /\ \A i, j \in Slots : Succ(i) = Succ(j) => i = j
         /\ \A i \in Slots : Succ(i) # i
<1> DEFINE c == cur_tx % NumTxDesc
<1>1. c \in Slots
  BY ModInSlots DEF TypeOK, Index
<1>2. \A i \in Slots : Off(i) = IF i >= c THEN i - c ELSE i - c + NumTxDesc
  BY DEF Off
<1>3. NumTxDesc \in Nat /\ NumTxDesc >= 2
  BY Sizes
<1> HIDE DEF c
<1>4. \A i \in Slots : Succ(i) \in Slots /\ Succ(i) # i
  BY <1>3 DEF Succ, Slots
<1>5. ASSUME NEW i \in Slots
      PROVE  Off(Succ(i)) = IF Off(i) = NumTxDesc - 1 THEN 0 ELSE Off(i) + 1
  <2>1. Off(Succ(i)) = IF Succ(i) >= c THEN Succ(i) - c ELSE Succ(i) - c + NumTxDesc
    BY <1>2, <1>4
  <2> QED
    BY <1>1, <1>2, <1>3, <2>1 DEF Succ, Slots
<1>6. \A i, j \in Slots : Succ(i) = Succ(j) => i = j
  BY <1>3 DEF Succ, Slots
<1> QED
  BY <1>4, <1>5, <1>6

(* The slot some places further on, past the end of the ring.                *)
LEMMA SlotMod ==
  ASSUME NEW a \in Slots, NEW n \in 0 .. MaxSkbFrags
  PROVE  /\ (a + n) % NumTxDesc = IF a + n < NumTxDesc THEN a + n ELSE a + n - NumTxDesc
         /\ (a + n) % NumTxDesc \in Slots
<1>1. a \in Int /\ n \in Int /\ n \in 0 .. NumTxDesc /\ n < NumTxDesc
  BY Sizes DEF Slots
<1>2. a % NumTxDesc = a
  <2>1. a = NumTxDesc * 0 + a /\ a \in 0 .. NumTxDesc - 1
    BY <1>1, Sizes DEF Slots
  <2> QED
    BY <1>1, <2>1, ModIs
<1>3. (a + n) % NumTxDesc = IF a + n < NumTxDesc THEN a + n ELSE a + n - NumTxDesc
  BY <1>1, <1>2, AddMod
<1> QED
  BY <1>1, <1>3, Sizes DEF Slots

(* Counting from another slot is still a numbering. *)
LEMMA Rotation ==
  ASSUME NEW n \in Nat, NEW a \in 0 .. n - 1, NEW b \in 0 .. n - 1, NEW s \in 0 .. n - 1,
         (IF a >= s THEN a - s ELSE a - s + n) = (IF b >= s THEN b - s ELSE b - s + n)
  PROVE  a = b
<1>1. CASE a >= s /\ b >= s
  BY <1>1
<1>2. CASE a >= s /\ ~(b >= s)
  BY <1>2
<1>3. CASE ~(a >= s) /\ b >= s
  BY <1>3
<1>4. CASE ~(a >= s) /\ ~(b >= s)
  BY <1>4
<1> QED
  BY <1>1, <1>2, <1>3, <1>4

(* Pos is a numbering too. *)
LEMMA PosNumbers ==
  ASSUME IInv
  PROVE  /\ Shift \in 0 .. NumTxDesc - 1 /\ (xpc # "publish" => Shift = 0)
         /\ Full \in Nat /\ Full <= NumTxDesc /\ Full = Live + Shift
         /\ Building /\ xpc # "publish" => Full + xm.frags + 1 <= NumTxDesc
         /\ \A i \in Slots : Pos(i) \in 0 .. NumTxDesc - 1
         /\ \A i, j \in Slots : Pos(i) = Pos(j) => i = j
         /\ \A i \in Slots : Pos(Succ(i)) = IF Pos(i) = NumTxDesc - 1 THEN 0 ELSE Pos(i) + 1
         /\ xpc # "publish" => \A i \in Slots : Pos(i) = Off(i)
<1>1. /\ TypeOK /\ xm.frags \in Nat /\ xm.frags + 1 <= StopThrs
      /\ Live \in Nat /\ Live <= NumTxDesc /\ (Building => Live + xm.frags + 1 <= NumTxDesc)
  BY RoomLeft, LocalTypes, Sizes DEF IInv
<1>2. Shift \in 0 .. NumTxDesc - 1 /\ (xpc # "publish" => Shift = 0)
  BY <1>1, Sizes DEF Shift
<1>3. Full \in Nat /\ Full <= NumTxDesc /\ Full = Live + Shift
  BY <1>1, Sizes DEF Full, Shift, Building
<1>4. Building /\ xpc # "publish" => Full + xm.frags + 1 <= NumTxDesc
  BY <1>1, <1>2, Sizes DEF Full
<1>5. \A i \in Slots : /\ Off(i) \in 0 .. NumTxDesc - 1 /\ Succ(i) \in Slots
                       /\ Off(Succ(i)) = IF Off(i) = NumTxDesc - 1 THEN 0 ELSE Off(i) + 1
  BY <1>1, OffNumbers, SuccNumbers
<1>6. \A i \in Slots : Pos(i) = IF Off(i) >= Shift THEN Off(i) - Shift ELSE Off(i) - Shift + NumTxDesc
  BY DEF Pos
<1>7. ASSUME NEW i \in Slots PROVE Pos(i) \in 0 .. NumTxDesc - 1 /\ (Shift = 0 => Pos(i) = Off(i))
  BY <1>2, <1>5, <1>6, Sizes
<1>8. ASSUME NEW i \in Slots, NEW j \in Slots, Pos(i) = Pos(j) PROVE i = j
  <2>1. /\ Off(i) \in 0 .. NumTxDesc - 1 /\ Off(j) \in 0 .. NumTxDesc - 1
        /\ Pos(i) = IF Off(i) >= Shift THEN Off(i) - Shift ELSE Off(i) - Shift + NumTxDesc
        /\ Pos(j) = IF Off(j) >= Shift THEN Off(j) - Shift ELSE Off(j) - Shift + NumTxDesc
    BY <1>5, <1>6
  <2>2. Off(i) = Off(j)
    <3>1. (IF Off(i) >= Shift THEN Off(i) - Shift ELSE Off(i) - Shift + NumTxDesc)
            = (IF Off(j) >= Shift THEN Off(j) - Shift ELSE Off(j) - Shift + NumTxDesc)
      BY <1>8, <2>1
    <3>2. NumTxDesc \in Nat /\ Shift \in 0 .. NumTxDesc - 1
      BY <1>2, Sizes
    <3> QED
      BY <2>1, <3>1, <3>2, Rotation
  <2> QED
    BY <1>1, <2>2, OffNumbers
<1>9. ASSUME NEW i \in Slots PROVE Pos(Succ(i)) = IF Pos(i) = NumTxDesc - 1 THEN 0 ELSE Pos(i) + 1
  <2>1. Pos(Succ(i)) = IF Off(Succ(i)) >= Shift THEN Off(Succ(i)) - Shift
                                                ELSE Off(Succ(i)) - Shift + NumTxDesc
    BY <1>5, <1>6
  <2>2. /\ Off(i) \in 0 .. NumTxDesc - 1
        /\ Off(Succ(i)) = IF Off(i) = NumTxDesc - 1 THEN 0 ELSE Off(i) + 1
        /\ Pos(i) = IF Off(i) >= Shift THEN Off(i) - Shift ELSE Off(i) - Shift + NumTxDesc
    BY <1>5, <1>6
  <2> QED
    BY <1>2, <2>1, <2>2, Sizes
<1> QED
  BY <1>2, <1>3, <1>4, <1>7, <1>8, <1>9

(* What the chip owns is handed over, or a fragment of the packet being built. *)
LEMMA OwnedWhere ==
  ASSUME SInv, NEW i \in Slots, desc[i].own
  PROVE  \/ Given(i)
         \/ /\ xpc \in {"frag", "last", "own"} /\ Off(i) \in 1 .. Reached
            /\ i = Entry(Off(i)) /\ Pos(i) = Off(i) /\ ~Given(i)
<1>1. IInv /\ TypeOK /\ OwnedInside /\ Region /\ HInv
  BY DEF SInv, OInv, IInv
<1>2. /\ Off(i) \in 0 .. NumTxDesc - 1 /\ Live \in Nat /\ xm.frags \in Nat /\ xm.k \in Nat
      /\ xm.frags <= MaxSkbFrags
  BY <1>1, OffNumbers, RoomLeft, LocalTypes, Sizes
<1>3. Off(i) < Taken \/ Off(i) >= NumTxDesc - Live
  BY <1>1 DEF OwnedInside
<1>4. CASE xpc = "publish"
  <2>1. Shift = xm.frags + 1 /\ Taken = xm.frags + 1
    BY <1>4 DEF Shift, Taken
  <2>2. Full = Live + Shift /\ Full <= NumTxDesc /\ Shift \in 0 .. NumTxDesc - 1
    BY <1>1, PosNumbers
  <2> QED
    BY <1>2, <1>3, <2>1, <2>2, Sizes DEF Pos, Given
<1>5. CASE xpc \in {"frag", "last", "own"} /\ Off(i) < Taken
  <2>1. Taken = Reached + 1 /\ Reached \in 0 .. xm.frags /\ Off(i) \in 0 .. xm.frags /\ Building
    BY <1>1, <1>2, <1>5, Sizes DEF Taken, Reached, HInv, Built, Building
  <2>2. i = Entry(Off(i)) /\ Off(i) < NumTxDesc - Live
    BY <1>1, <2>1, Places
  <2>3. Off(i) # 0
    <3>1. 0 \in 0 .. Reached
      BY <2>1, Sizes
    <3>2. ~desc[Entry(0)].own
      BY <1>1, <1>5, <3>1 DEF Region
    <3> QED
      BY <2>2, <3>2
  <2>4. Pos(i) = Off(i) /\ Full = Live
    BY <1>1, <1>2, <1>5, PosNumbers
  <2> QED
    BY <1>2, <1>5, <2>1, <2>2, <2>3, <2>4, Sizes DEF Given
<1>6. CASE xpc # "publish" /\ Off(i) >= NumTxDesc - Live
  BY <1>1, <1>2, <1>6, PosNumbers DEF Given
<1>7. CASE xpc \notin {"frag", "last", "own", "publish"}
  <2>1. Taken = 0
    BY <1>7 DEF Taken
  <2> QED
    BY <1>2, <1>3, <1>6, <1>7, <2>1
<1> QED
  BY <1>3, <1>4, <1>5, <1>6, <1>7

(* The oldest packet not reaped, if the chip owns its first slot, is where the *)
(* chip is.                                                                    *)
LEMMA Oldest ==
  ASSUME SInv, nic.on, NEW i \in Slots, desc[i].own, Pos(i) = NumTxDesc - Full
  PROVE  i = nic.pos
<1>1. /\ nic.pos \in Slots /\ Pos(nic.pos) \in Int /\ Full \in Nat /\ Pos(i) \in Int
      /\ NumTxDesc \in Nat
  BY PosNumbers, Sizes DEF SInv, Chip, OInv
<1>2. desc[nic.pos].own /\ Pos(nic.pos) <= Pos(i) /\ Pos(nic.pos) >= NumTxDesc - Full
  BY <1>1 DEF SInv, Chip, Given
<1>3. Pos(nic.pos) = Pos(i)
  BY <1>1, <1>2
<1> QED
  BY <1>1, <1>3, PosNumbers DEF SInv, OInv

(* A step that changes nothing the chip can see. *)
LEMMA Unseen ==
  ASSUME SInv, nic'.on => nic.on, nic'.pos = nic.pos, nic'.mid = nic.mid,
         \A i \in Slots : Pos(i)' = Pos(i) /\ desc'[i].own = desc[i].own,
         \A i \in Slots : desc[i].own => /\ desc'[i] = desc[i] /\ tx_skb'[i] = tx_skb[i]
                                         /\ Newest(i) => Newest(i)'
                                         /\ Given(i)' <=> Given(i)
  PROVE  Chip' /\ Links' /\ Wholes'
<1>0. Slots' = Slots
  BY DEF Slots
<1>1. Chip'
  <2> SUFFICES ASSUME nic'.on PROVE Chip'
    BY DEF Chip
  <2>1. nic.on /\ nic.pos \in Slots
    BY DEF SInv, Chip
  <2>2. Pos(nic.pos)' = Pos(nic.pos)
    BY <2>1 DEF Pos, Off, Shift
  <2>3. Given(nic.pos)' <=> (Pos(nic.pos) >= NumTxDesc - Full')
    BY <2>2 DEF Given
  <2> QED
    BY <1>0, <2>1, <2>2 DEF SInv, Chip
<1>2. Links'
  <2> SUFFICES ASSUME nic'.on PROVE Links'
    BY DEF Links
  <2>1. \A i \in Slots : Succ(i) \in Slots
    BY SuccNumbers DEF SInv, OInv, IInv
  <2>2. \A i \in Slots : Current(i)' <=> Current(i)
    BY DEF Current
  <2>3. \A i \in Slots : Succ(i)' = Succ(i)
    BY DEF Succ
  <2> QED
    BY <1>0, <2>1, <2>2, <2>3 DEF SInv, Links
<1>3. Wholes'
  <2> SUFFICES ASSUME nic'.on, NEW i \in Slots, desc'[i].own, desc'[i].first
               PROVE  WholePacket(i)'
    BY <1>0 DEF Wholes
  <2>1. desc[i].own /\ desc[i].first /\ desc'[i] = desc[i] /\ WholePacket(i)
    BY DEF SInv, Wholes
  <2>2. PICK n \in 0 .. MaxSkbFrags :
            /\ tx_skb[(i + n) % NumTxDesc] = desc[i].buf
            /\ \A j \in 0 .. n :
                  LET t == desc[(i + j) % NumTxDesc]
                  IN  /\ t.own /\ t.buf = desc[i].buf
                      /\ t.first = (j = 0) /\ t.last = (j = n)
    BY <2>1 DEF WholePacket
  <2>3. \A j \in 0 .. n : j \in 0 .. MaxSkbFrags /\ (i + j) % NumTxDesc \in Slots
    BY SlotMod, Sizes
  <2>4. n \in 0 .. n
    BY Sizes
  <2> QED
    BY <2>1, <2>2, <2>3, <2>4 DEF WholePacket
<1> QED
  BY <1>1, <1>2, <1>3

(* A step that changes neither the ring nor what is counted along it. *)
LEMMA Quietly ==
  ASSUME SInv, UNCHANGED <<cur_tx, desc, tx_skb>>, Live' = Live, Shift' = Shift,
         nic'.on = nic.on, nic'.pos = nic.pos, nic'.mid = nic.mid,
         \A i \in Slots : Newest(i) => Newest(i)'
  PROVE  Chip' /\ Links' /\ Wholes'
<1>1. \A i \in Slots : Pos(i)' = Pos(i) /\ (Given(i)' <=> Given(i))
  BY DEF Pos, Off, Given, Full
<1> QED
  BY <1>1, Unseen

(* The places of the packet being built, none of them given to the chip yet   *)
(* but as fragments without a head.                                           *)
Gathering == xpc \in {"head", "frag", "last", "own"}

(* Where the packet being built is, by number and by slot.                   *)
LEMMA RegionPlaces ==
  ASSUME SInv, Gathering
  PROVE  /\ Reached \in 0 .. xm.frags /\ Shift = 0 /\ Full = Live /\ xm.skb \in Skbs
         /\ Entry(0) = xm.entry /\ xm.frags \in 0 .. MaxSkbFrags /\ xm.k \in Nat
         /\ \A j \in 0 .. xm.frags :
               /\ Entry(j) \in Slots /\ Off(Entry(j)) = j /\ Pos(Entry(j)) = j
               /\ ~Given(Entry(j)) /\ j < NumTxDesc - Full
         /\ \A i \in Slots : Off(i) = Pos(i)
         /\ \A i \in Slots, j \in 0 .. xm.frags : Off(i) = j => i = Entry(j)
<1>1. HInv /\ IInv /\ TypeOK /\ Building /\ Built
  <2>1. HInv
    BY DEF SInv
  <2>2. Building
    BY DEF Gathering, Building
  <2> QED
    BY <2>1, <2>2 DEF HInv, IInv
<1>2. xm.frags \in 0 .. MaxSkbFrags /\ xm.k \in Nat
  BY <1>1, LocalTypes
<1>3. Reached \in 0 .. xm.frags
  BY <1>1, <1>2, Sizes DEF Reached, Built
<1>4. xpc # "publish"
  BY DEF Gathering
<1>5. Shift = 0 /\ Full = Live /\ Full \in Nat
  <2>1. Shift = 0 /\ Full \in Nat /\ Full = Live + Shift /\ Live \in Nat
    BY <1>1, <1>4, PosNumbers, RoomLeft
  <2> QED
    BY <2>1
<1>6. \A i \in Slots : Off(i) = Pos(i)
  BY <1>1, <1>4, PosNumbers
<1>7. ASSUME NEW j \in 0 .. xm.frags
      PROVE  /\ Entry(j) \in Slots /\ Off(Entry(j)) = j /\ Pos(Entry(j)) = j
             /\ ~Given(Entry(j)) /\ j < NumTxDesc - Full
             /\ \A i \in Slots : Off(i) = j => i = Entry(j)
  <2>1. /\ Entry(j) \in Slots /\ Off(Entry(j)) = j /\ j < NumTxDesc - Live
        /\ \A i \in Slots : Off(i) = j => i = Entry(j)
    BY <1>1, Places
  <2> QED
    BY <1>5, <1>6, <2>1, Sizes DEF Given
<1>8. Entry(0) = xm.entry
  <2>1. 0 \in 0 .. xm.frags
    BY <1>2
  <2> QED
    BY <1>1, <2>1, Places
<1>9. xm.skb \in Skbs
  BY <1>1 DEF Built
<1> QED
  BY <1>2, <1>3, <1>5, <1>6, <1>7, <1>8, <1>9

(* A step elsewhere leaves the packet being built alone. *)
LEMMA RegionKept ==
  ASSUME SInv, UNCHANGED <<xpc, xm>>,
         \A i \in Slots : ~Given(i) => desc'[i] = desc[i] /\ tx_skb'[i] = tx_skb[i]
  PROVE  Region'
<1> SUFFICES ASSUME xpc \in {"frag", "last", "own"} PROVE Region'
  BY DEF Region
<1>1. Gathering
  BY DEF Gathering
<1>2. \A j \in 0 .. Reached : j \in 0 .. xm.frags /\ Entry(j) \in Slots /\ ~Given(Entry(j))
  BY <1>1, RegionPlaces, Sizes
<1>3. Entry(xm.frags) \in Slots /\ ~Given(Entry(xm.frags))
  BY <1>1, RegionPlaces
<1>4. Reached' = Reached /\ \A j : Entry(j)' = Entry(j)
  BY DEF Reached, Entry
<1> QED
  BY <1>2, <1>3, <1>4 DEF SInv, Region

(* Going round by several slots at once. *)
LEMMA PosAdds ==
  ASSUME IInv, NEW i \in Slots, NEW n \in 0 .. MaxSkbFrags
  PROVE  /\ (i + n) % NumTxDesc \in Slots
         /\ Pos((i + n) % NumTxDesc) = IF Pos(i) + n < NumTxDesc THEN Pos(i) + n
                                                               ELSE Pos(i) + n - NumTxDesc
<1> DEFINE c == cur_tx % NumTxDesc
<1> DEFINE m == (i + n) % NumTxDesc
<1>1. c \in Slots
  BY ModInSlots DEF IInv, TypeOK, Index
<1>2. m \in Slots /\ m = IF i + n < NumTxDesc THEN i + n ELSE i + n - NumTxDesc
  BY SlotMod
<1>3. \A j \in Slots : Off(j) = IF j >= c THEN j - c ELSE j - c + NumTxDesc
  BY DEF Off
<1>4. \A j \in Slots : Pos(j) = IF Off(j) >= Shift THEN Off(j) - Shift ELSE Off(j) - Shift + NumTxDesc
  BY DEF Pos
<1>5. Shift \in 0 .. NumTxDesc - 1 /\ NumTxDesc \in Nat /\ n \in 0 .. NumTxDesc - 1
  BY PosNumbers, Sizes
<1> HIDE DEF c, m
<1>6. Off(m) = IF Off(i) + n < NumTxDesc THEN Off(i) + n ELSE Off(i) + n - NumTxDesc
  <2>1. /\ Off(i) = IF i >= c THEN i - c ELSE i - c + NumTxDesc
        /\ Off(m) = IF m >= c THEN m - c ELSE m - c + NumTxDesc
    BY <1>2, <1>3
  <2> QED
    BY <1>1, <1>2, <1>5, <2>1 DEF Slots
<1>7. Off(i) \in 0 .. NumTxDesc - 1
  BY OffNumbers DEF IInv
<1>8. Pos(m) = IF Pos(i) + n < NumTxDesc THEN Pos(i) + n ELSE Pos(i) + n - NumTxDesc
  <2>1. /\ Pos(i) = IF Off(i) >= Shift THEN Off(i) - Shift ELSE Off(i) - Shift + NumTxDesc
        /\ Pos(m) = IF Off(m) >= Shift THEN Off(m) - Shift ELSE Off(m) - Shift + NumTxDesc
    BY <1>2, <1>4
  <2> QED
    BY <1>5, <1>6, <1>7, <2>1
<1> QED
  BY <1>2, <1>8 DEF m

(* What is handed over and not sent is of whole packets, none of which        *)
(* reaches into the packet being built or, past its start, to the chip.       *)
LEMMA Apart ==
  ASSUME SInv, nic.on, NEW i \in Slots, desc[i].own, desc[i].first
  PROVE  \E n \in 0 .. MaxSkbFrags :
            /\ tx_skb[(i + n) % NumTxDesc] = desc[i].buf
            /\ \A j \in 0 .. n :
                  /\ j \in 0 .. MaxSkbFrags /\ (i + j) % NumTxDesc \in Slots
                  /\ desc[(i + j) % NumTxDesc].own
                  /\ desc[(i + j) % NumTxDesc].buf = desc[i].buf
                  /\ desc[(i + j) % NumTxDesc].first = (j = 0)
                  /\ desc[(i + j) % NumTxDesc].last = (j = n)
                  /\ Given((i + j) % NumTxDesc)
                  /\ j # 0 => (i + j) % NumTxDesc # nic.pos
<1>a. TypeOK /\ IInv /\ HInv /\ OInv /\ Region
  BY DEF SInv, OInv, IInv
<1> DEFINE m(j) == (i + j) % NumTxDesc
<1>1. PICK n \in 0 .. MaxSkbFrags :
          /\ tx_skb[m(n)] = desc[i].buf
          /\ \A j \in 0 .. n : /\ desc[m(j)].own /\ desc[m(j)].buf = desc[i].buf
                               /\ desc[m(j)].first = (j = 0) /\ desc[m(j)].last = (j = n)
  BY DEF SInv, Wholes, WholePacket
<1>2. desc[i].buf # NoSkb
  BY <1>a DEF OInv, Mapped
<1>3. \A j \in 0 .. n :
         /\ j \in 0 .. MaxSkbFrags /\ m(j) \in Slots
         /\ Pos(m(j)) = IF Pos(i) + j < NumTxDesc THEN Pos(i) + j ELSE Pos(i) + j - NumTxDesc
  <2>1. \A j \in 0 .. n : j \in 0 .. MaxSkbFrags
    BY Sizes
  <2> QED
    BY <1>a, <2>1, PosAdds
<1>4. n \in 0 .. n /\ 0 \in 0 .. n /\ n \in Nat /\ NumTxDesc \in Nat
  BY Sizes
<1>5. m(0) = i
  <2>1. 0 \in 0 .. MaxSkbFrags /\ i + 0 = i /\ i < NumTxDesc
    BY Sizes DEF Slots
  <2> QED
    BY <2>1, SlotMod
<1> HIDE DEF m
<1>6. ASSUME NEW j \in 0 .. n PROVE Given(m(j))
  <2>1. m(j) \in Slots /\ desc[m(j)].own /\ desc[m(j)].buf = desc[i].buf
    BY <1>1, <1>3
  <2>2. CASE xpc \in {"frag", "last", "own"} /\ Off(m(j)) \in 1 .. Reached
             /\ m(j) = Entry(Off(m(j)))
    <3>a. Gathering /\ xm.skb # NoSkb
      <4>1. Gathering
        BY <2>2 DEF Gathering
      <4> QED
        BY <4>1, RegionPlaces, TxRingAssumption
    <3>1. desc[m(j)].buf = xm.skb
      <4>1. Off(m(j)) \in 0 .. Reached
        BY <2>2, <3>a, RegionPlaces, Sizes
      <4> QED
        BY <1>a, <2>2, <4>1 DEF Region
    <3>2. m(n) \in Slots /\ tx_skb[m(n)] = xm.skb
      BY <1>1, <1>3, <1>4, <2>1, <3>1
    <3>3. ~Holding
      BY <1>a, <3>2 DEF HInv, HeldOnce
    <3>4. xpc = "own" /\ tx_skb[Entry(xm.frags)] = xm.skb /\ Entry(xm.frags) \in Slots
      BY <1>a, <2>2, <3>3, <3>a, RegionPlaces DEF Holding, Region
    <3>5. m(n) = Entry(xm.frags)
      BY <1>a, <3>a, <3>2, <3>4 DEF HInv, HeldOnce
    <3>6. Pos(m(n)) = xm.frags /\ xm.frags <= MaxSkbFrags /\ xm.frags \in Nat
          /\ xm.frags < NumTxDesc - Full /\ Full \in Nat
      BY <1>a, <3>a, <3>5, RegionPlaces, PosNumbers
    <3>7. CASE ~Given(i)
      <4>1. Off(i) \in 1 .. Reached /\ i = Entry(Off(i))
        BY <3>7, OwnedWhere
      <4>2. Off(i) \in 0 .. Reached
        BY <3>a, <4>1, RegionPlaces, Sizes
      <4> QED
        BY <1>a, <2>2, <4>1, <4>2 DEF Region
    <3>8. CASE Given(i)
      <4> DEFINE z == NumTxDesc - Pos(i)
      <4>1. Pos(i) \in 0 .. NumTxDesc - 1 /\ Pos(i) >= NumTxDesc - Full
        BY <1>a, <3>8, PosNumbers DEF Given
      <4>2. Pos(m(n)) = IF Pos(i) + n < NumTxDesc THEN Pos(i) + n ELSE Pos(i) + n - NumTxDesc
        BY <1>3, <1>4
      <4>3. z \in 0 .. n
        BY <1>4, <3>6, <4>1, <4>2
      <4>4. Pos(m(z)) = 0 /\ m(z) \in Slots /\ desc[m(z)].own
        <5>1. m(z) \in Slots /\ desc[m(z)].own
              /\ Pos(m(z)) = IF Pos(i) + z < NumTxDesc THEN Pos(i) + z ELSE Pos(i) + z - NumTxDesc
          BY <1>1, <1>3, <4>3
        <5> QED
          BY <1>4, <4>1, <5>1
      <4>5. m(z) = Entry(0)
        <5>1. 0 \in 0 .. MaxSkbFrags
          BY Sizes
        <5> QED
          BY <3>a, <4>4, <5>1, RegionPlaces
      <4>6. ~desc[Entry(0)].own
        <5>1. 0 \in 0 .. Reached
          BY <3>a, RegionPlaces, Sizes
        <5> QED
          BY <1>a, <2>2, <5>1 DEF Region
      <4> QED
        BY <4>4, <4>5, <4>6
    <3> QED
      BY <3>7, <3>8
  <2> QED
    BY <2>1, <2>2, OwnedWhere
<1>7. ASSUME NEW j \in 0 .. n, j # 0 PROVE m(j) # nic.pos
  <2> DEFINE h == j - 1
  <2>1. h \in 0 .. n /\ h # n
    BY <1>4, <1>7
  <2>2. m(h) \in Slots /\ desc[m(h)].own /\ ~desc[m(h)].last /\ Given(m(h))
    BY <1>1, <1>3, <1>6, <2>1
  <2>3. ~Newest(m(h))
    <3>1. xpc \in {"frag", "last"} => ~Given(Entry(Reached))
      BY RegionPlaces DEF Gathering
    <3> QED
      BY <2>2, <3>1 DEF Newest
  <2>4. Succ(m(h)) = m(j)
    <3>1. h \in 0 .. MaxSkbFrags /\ j \in 0 .. MaxSkbFrags /\ h = j - 1
      BY <1>3, <2>1
    <3>2. /\ m(h) = IF i + h < NumTxDesc THEN i + h ELSE i + h - NumTxDesc
          /\ m(j) = IF i + j < NumTxDesc THEN i + j ELSE i + j - NumTxDesc
      BY <3>1, SlotMod DEF m
    <3>3. m(h) \in 0 .. NumTxDesc - 1 /\ i \in 0 .. NumTxDesc - 1
      BY <2>2 DEF Slots
    <3> HIDE DEF h
    <3> QED
      BY <1>4, <3>1, <3>2, <3>3, Sizes DEF Succ
  <2>5. desc[m(j)].own /\ ~desc[m(j)].first /\ ~Current(m(j))
    BY <2>2, <2>3, <2>4 DEF SInv, Links
  <2> QED
    BY <2>5 DEF SInv, Chip, Current
<1> QED
  BY <1>1, <1>3, <1>6, <1>7 DEF m

(* So a packet stays whole as long as its own slots are left alone. *)
LEMMA WholeStays ==
  ASSUME SInv, nic.on, NEW i \in Slots, desc[i].own, desc[i].first,
         \A m \in Slots : desc[m].own /\ Given(m) /\ (m = i \/ m # nic.pos)
                            => desc'[m] = desc[m] /\ tx_skb'[m] = tx_skb[m]
  PROVE  WholePacket(i)'
<1>1. PICK n \in 0 .. MaxSkbFrags :
            /\ tx_skb[(i + n) % NumTxDesc] = desc[i].buf
            /\ \A j \in 0 .. n :
                  /\ j \in 0 .. MaxSkbFrags /\ (i + j) % NumTxDesc \in Slots
                  /\ desc[(i + j) % NumTxDesc].own
                  /\ desc[(i + j) % NumTxDesc].buf = desc[i].buf
                  /\ desc[(i + j) % NumTxDesc].first = (j = 0)
                  /\ desc[(i + j) % NumTxDesc].last = (j = n)
                  /\ Given((i + j) % NumTxDesc)
                  /\ j # 0 => (i + j) % NumTxDesc # nic.pos
  BY Apart
<1>2. n \in 0 .. n /\ 0 \in 0 .. n /\ 0 \in 0 .. MaxSkbFrags /\ i + 0 = i /\ i < NumTxDesc
  BY Sizes DEF Slots
<1>3. (i + 0) % NumTxDesc = i
  BY <1>2, SlotMod
<1>4. \A j \in 0 .. n : /\ desc'[(i + j) % NumTxDesc] = desc[(i + j) % NumTxDesc]
                       /\ tx_skb'[(i + j) % NumTxDesc] = tx_skb[(i + j) % NumTxDesc]
  BY <1>1, <1>3
<1>5. desc'[i] = desc[i]
  BY <1>2, <1>3, <1>4
<1> QED
  BY <1>1, <1>2, <1>4, <1>5 DEF WholePacket

-----------------------------------------------------------------------------
(* The head is mapped, and not given away: the chip sees nothing of it. *)
LEMMA HeadUnseen ==
  ASSUME Still, SInv, XmitHead
  PROVE  Chip' /\ Links' /\ Wholes' /\ Region'
<1>a. /\ TypeOK /\ IInv /\ HInv /\ OInv /\ Building /\ Gathering
      /\ xpc = "head" /\ xpc' \in {"frag", "last"} /\ xm.k = 0 /\ xm.skb \in Skbs
      /\ UNCHANGED <<cur_tx, dirty_tx, tx_skb, xm, rpc, rp, nic>>
  <2>1. xpc = "head" /\ xpc' \in {"frag", "last"} /\ UNCHANGED <<cur_tx, dirty_tx, tx_skb, xm, rpc, rp, nic>>
    BY DEF XmitHead, rvars
  <2> QED
    BY <2>1 DEF SInv, OInv, IInv, HInv, Building, Gathering, Built
<1>1. xpc' = IF xm.frags > 0 THEN "frag" ELSE "last"
  <2>1. PICK linear \in {FALSE, Padding} : xpc' = IF xm.frags > 0 /\ ~linear THEN "frag" ELSE "last"
    BY DEF XmitHead
  <2>2. ~linear
    BY <2>1 DEF Still
  <2> QED
    BY <2>1, <2>2
<1>2. /\ xm.entry \in Slots /\ Entry(0) = xm.entry /\ ~desc[xm.entry].own /\ xm.frags \in Nat
  <2>1. Taken = 0
    BY <1>a DEF Taken
  <2>2. Entry(0) \in Slots /\ ~desc[Entry(0)].own
    BY <1>a, <2>1, NextIsFree
  <2> QED
    BY <1>a, <2>2, RegionPlaces, Sizes
<1>3. desc' = TxMap(desc, xm.entry, xm.skb, FALSE)
  BY DEF XmitHead
<1>4. /\ \A i \in Slots : i # xm.entry => desc'[i] = desc[i]
      /\ desc'[xm.entry] = [own |-> FALSE, first |-> FALSE, last |-> FALSE,
                            eor |-> xm.entry = NumTxDesc - 1, buf |-> xm.skb]
  BY <1>a, <1>2, <1>3 DEF TxMap, TypeOK, RingType
<1>5. Live' = Live /\ Shift' = Shift
  <2>1. Live' = Live
    BY <1>a, LiveKept
  <2> QED
    BY <1>a, <2>1 DEF Shift
<1>6. \A i \in Slots : Pos(i)' = Pos(i) /\ (Given(i)' <=> Given(i))
  BY <1>a, <1>5 DEF Pos, Off, Given, Full
<1>7. Chip' /\ Links' /\ Wholes'
  <2>1. \A i \in Slots : ~Newest(i)
    BY <1>a DEF Newest
  <2>2. \A i \in Slots : desc'[i].own = desc[i].own
    <3>1. desc[xm.entry].own = FALSE
      BY <1>a, <1>2 DEF TypeOK, RingType, DescType
    <3>2. desc'[xm.entry].own = FALSE
      BY <1>4
    <3> QED
      BY <1>4, <3>1, <3>2
  <2>3. \A i \in Slots : desc[i].own => desc'[i] = desc[i]
    BY <1>2, <1>4
  <2> QED
    BY <1>a, <1>6, <2>1, <2>2, <2>3, Unseen
<1>8. Region'
  <2>1. Reached' = 0
    BY <1>a, <1>1, <1>2 DEF Reached
  <2>2. Entry(0)' = xm.entry
    BY <1>a, <1>2 DEF Entry
  <2>3. \A j \in 0 .. 0 : j = 0
    OBVIOUS
  <2> QED
    BY <1>a, <1>4, <2>1, <2>2, <2>3 DEF Region
<1> QED
  BY <1>7, <1>8

(* A step that leaves the chip, and what was handed over to it, alone. *)
LEMMA ChipStays ==
  ASSUME SInv, nic' = nic, UNCHANGED cur_tx, Live' = Live, Shift' = Shift,
         \A i \in Slots : Given(i) => desc'[i] = desc[i],
         nic.on /\ ~desc[nic.pos].own => ~desc'[nic.pos].own
  PROVE  /\ Chip'
         /\ \A i \in Slots : Pos(i)' = Pos(i) /\ (Given(i)' <=> Given(i))
<1>1. \A i \in Slots : Pos(i)' = Pos(i) /\ (Given(i)' <=> Given(i))
  BY DEF Pos, Off, Given, Full
<1>2. Chip'
  <2> SUFFICES ASSUME nic.on PROVE Chip'
    BY DEF Chip
  <2> DEFINE p == nic.pos
  <2>1. Slots' = Slots /\ nic'.on /\ nic'.pos = p /\ p \in Slots /\ nic'.mid = nic.mid
    BY DEF Slots, SInv, Chip
  <2>2. Pos(nic.pos)' = Pos(p)
    BY <2>1 DEF Pos, Off
  <2>3. Given(nic.pos)' <=> Given(p)
    BY <2>2 DEF Given, Full
  <2>4. /\ desc[p].own => Given(p) /\ \A i \in Slots : Pos(i) >= Pos(p) => desc[i].own
        /\ ~desc[p].own => Pos(p) = 0
        /\ \A i \in Slots : desc[i].own /\ Given(i) => desc[p].own /\ Pos(p) <= Pos(i)
        /\ nic.mid => desc[p].own /\ ~desc[p].first
        /\ ~nic.mid /\ desc[p].own => desc[p].first
    BY DEF SInv, Chip
  <2>5. desc[p].own => desc'[p] = desc[p]
    BY <2>1, <2>4
  <2>6. desc'[p].own => desc[p].own
    OBVIOUS
  <2> HIDE DEF p
  <2>7. ASSUME desc[p].own, NEW i \in Slots, Pos(i) >= Pos(p) PROVE desc'[i].own
    <3>1. desc[i].own /\ Given(p) /\ Full \in Nat /\ Pos(i) \in Int /\ Pos(p) \in Int
      BY <2>1, <2>4, <2>7, PosNumbers DEF SInv, OInv
    <3>2. Given(i)
      BY <2>7, <3>1, Sizes DEF Given
    <3> QED
      BY <3>1, <3>2
  <2>8. \A i \in Slots : desc'[i].own /\ Given(i) => desc'[p].own /\ Pos(p) <= Pos(i)
    BY <2>4, <2>5
  <2>9. /\ desc'[p].own => Given(p) /\ \A i \in Slots : Pos(i)' >= Pos(p) => desc'[i].own
        /\ ~desc'[p].own => Pos(p) = 0
        /\ \A i \in Slots : desc'[i].own /\ Given(i)' => desc'[p].own /\ Pos(p) <= Pos(i)'
        /\ nic.mid => desc'[p].own /\ ~desc'[p].first
        /\ ~nic.mid /\ desc'[p].own => desc'[p].first
    BY <1>1, <2>4, <2>5, <2>6, <2>7, <2>8
  <2> QED
    BY <2>1, <2>2, <2>3, <2>9 DEF Chip
<1> QED
  BY <1>1, <1>2

(* A fragment is given away behind a head that is not: the chip does not look *)
(* past the head.                                                             *)
LEMMA FragBehind ==
  ASSUME SInv, XmitFrag
  PROVE  Chip' /\ Links' /\ Wholes' /\ Region'
<1> DEFINE e == Entry(xm.k + 1)
<1>a. /\ TypeOK /\ IInv /\ HInv /\ OInv /\ Region /\ Gathering
      /\ xpc = "frag" /\ xm.k < xm.frags /\ xm.skb \in Skbs /\ Reached = xm.k
      /\ xpc' = (IF xm.k + 1 = xm.frags THEN "last" ELSE "frag")
      /\ UNCHANGED <<cur_tx, dirty_tx, tx_skb, rpc, rp, nic>>
  <2>1. xpc = "frag" /\ xpc' = (IF xm.k + 1 = xm.frags THEN "last" ELSE "frag")
        /\ UNCHANGED <<cur_tx, dirty_tx, tx_skb, rpc, rp, nic>>
    BY DEF XmitFrag, rvars
  <2> QED
    BY <2>1 DEF SInv, OInv, IInv, HInv, Building, Gathering, Built, Reached
<1>b. /\ xm'.k = xm.k + 1 /\ xm'.frags = xm.frags /\ xm'.skb = xm.skb /\ xm'.entry = xm.entry
      /\ \A j : Entry(j)' = Entry(j)
  <2>1. xm'.k = xm.k + 1 /\ xm'.frags = xm.frags /\ xm'.skb = xm.skb /\ xm'.entry = xm.entry
    BY <1>a DEF XmitFrag, TypeOK, XmType
  <2> QED
    BY <2>1 DEF Entry
<1>1. /\ xm.k \in Nat /\ xm.k \in 0 .. xm.frags /\ xm.k + 1 \in 0 .. xm.frags
      /\ xm.frags \in 0 .. MaxSkbFrags
  BY <1>a, RegionPlaces, Sizes
<1>2. e \in Slots /\ Off(e) = xm.k + 1 /\ Pos(e) = xm.k + 1 /\ ~Given(e) /\ ~desc[e].own
  <2>1. Taken = xm.k + 1
    BY <1>a DEF Taken
  <2> QED
    BY <1>a, <1>1, <2>1, NextIsFree, RegionPlaces
<1>3. /\ \A i \in Slots : i # e => desc'[i] = desc[i]
      /\ desc'[e] = [own |-> TRUE, first |-> FALSE, last |-> FALSE,
                     eor |-> e = NumTxDesc - 1, buf |-> xm.skb]
  BY <1>a, <1>2 DEF XmitFrag, TxMap, TypeOK, RingType
<1>4. Reached' = xm.k + 1 /\ (xpc' = "frag" \/ xpc' = "last")
  BY <1>a, <1>b DEF Reached
<1>5. \A i \in Slots : Pos(i)' = Pos(i) /\ (Given(i)' <=> Given(i))
  <2>1. Live' = Live
    BY <1>a, LiveKept
  <2>2. Shift' = Shift
    BY <1>a DEF Shift
  <2> QED
    BY <1>a, <2>1, <2>2 DEF Pos, Off, Given, Full
<1>6. Slots' = Slots /\ \A i \in Slots : Succ(i)' = Succ(i) /\ (Current(i)' <=> Current(i))
  BY <1>a DEF Slots, Succ, Current
<1>7. nic.on => nic.pos \in Slots /\ nic.pos # e
  BY <1>1, <1>2 DEF SInv, Chip
<1>8. \A i \in Slots : Newest(i)' <=> i = e
  BY <1>b, <1>4 DEF Newest
<1> HIDE DEF e
<1>9. Chip'
  <2>1. Live' = Live /\ Shift' = Shift
    BY <1>a, LiveKept DEF Shift
  <2>2. \A i \in Slots : Given(i) => desc'[i] = desc[i]
    BY <1>2, <1>3
  <2>3. nic.on => desc'[nic.pos] = desc[nic.pos]
    BY <1>3, <1>7
  <2> QED
    BY <1>a, <2>1, <2>2, <2>3, ChipStays
<1>10. Links'
  <2> SUFFICES ASSUME nic.on, NEW i \in Slots, desc'[i].own
               PROVE  /\ ~desc'[i].last /\ ~Newest(i)'
                            => /\ desc'[Succ(i)].own /\ ~desc'[Succ(i)].first
                               /\ ~Current(Succ(i))
                      /\ desc'[i].last /\ desc'[Succ(i)].own
                            => desc'[Succ(i)].first \/ Current(Succ(i))
    <3>1. \A i \in Slots : Succ(i) \in Slots
      BY <1>a, SuccNumbers
    <3>2. \A i \in Slots : Current(Succ(i))' <=> Current(Succ(i))
      BY <1>6, <3>1 DEF Current
    <3> QED
      BY <1>a, <1>6, <3>1, <3>2 DEF Links
  <2>0. Succ(i) \in Slots /\ Pos(Succ(i)) = (IF Pos(i) = NumTxDesc - 1 THEN 0 ELSE Pos(i) + 1)
        /\ Pos(i) \in 0 .. NumTxDesc - 1
    BY <1>a, SuccNumbers, PosNumbers
  <2>1. CASE i = e
    BY <1>3, <1>8, <2>1
  <2>2. CASE i # e /\ Succ(i) = e
    <3>1. Pos(i) = xm.k
      BY <1>1, <1>2, <2>0, <2>2, Sizes
    <3>2. i = Entry(xm.k)
      BY <1>a, <1>1, <3>1, RegionPlaces
    <3>3. ~desc[i].last
      <4>1. xm.k \in 0 .. Reached
        BY <1>a, <1>1
      <4> QED
        BY <1>a, <3>2, <4>1 DEF Region
    <3> QED
      BY <1>3, <1>7, <2>2, <3>3 DEF Current
  <2>3. CASE i # e /\ Succ(i) # e
    <3>1. ~Newest(i)
      <4>1. ASSUME i = Entry(xm.k) PROVE FALSE
        <5>1. Pos(i) = xm.k
          BY <1>a, <1>1, <4>1, RegionPlaces
        <5>2. Pos(Succ(i)) = xm.k + 1
          BY <1>1, <2>0, <5>1, Sizes
        <5>3. Succ(i) = e
          BY <1>a, <1>2, <2>0, <5>2, PosNumbers
        <5> QED
          BY <2>3, <5>3
      <4> QED
        BY <1>a, <4>1 DEF Newest
    <3> QED
      BY <1>3, <2>0, <2>3, <3>1 DEF SInv, Links
  <2> QED
    BY <2>1, <2>2, <2>3
<1>11. Wholes'
  <2> SUFFICES ASSUME nic.on, NEW i \in Slots, desc'[i].own, desc'[i].first PROVE WholePacket(i)'
    BY <1>a, <1>6 DEF Wholes
  <2>1. desc[i].own /\ desc[i].first
    BY <1>3
  <2>2. \A m \in Slots : Given(m) => desc'[m] = desc[m] /\ tx_skb'[m] = tx_skb[m]
    BY <1>a, <1>2, <1>3
  <2> QED
    BY <2>1, <2>2, WholeStays
<1>12. Region'
  <2>1. \A j \in 0 .. xm.k + 1 :
           j = xm.k + 1 \/ (j \in 0 .. xm.k /\ j \in 0 .. xm.frags /\ j # xm.k + 1)
    BY <1>1, Sizes
  <2>2. \A j \in 0 .. xm.k : j \in 0 .. xm.frags => Entry(j) \in Slots /\ Entry(j) # e
    <3>1. \A j \in 0 .. xm.k : j \in 0 .. xm.frags => Entry(j) \in Slots /\ Off(Entry(j)) = j
      BY <1>a, RegionPlaces
    <3>2. \A j \in 0 .. xm.k : j # xm.k + 1
      BY <1>1
    <3> QED
      BY <1>2, <3>1, <3>2
  <2>3. \A j \in 0 .. xm.k : /\ desc[Entry(j)].own <=> j > 0
                            /\ desc[Entry(j)].buf = xm.skb /\ ~desc[Entry(j)].first
                            /\ ~desc[Entry(j)].last
    BY <1>a DEF Region
  <2>4. \A j \in 0 .. xm.k + 1 : /\ desc'[Entry(j)].own <=> j > 0
                                /\ desc'[Entry(j)].buf = xm.skb /\ ~desc'[Entry(j)].first
                                /\ ~desc'[Entry(j)].last
    <3> SUFFICES ASSUME NEW j \in 0 .. xm.k + 1
                 PROVE  /\ desc'[Entry(j)].own <=> j > 0
                        /\ desc'[Entry(j)].buf = xm.skb /\ ~desc'[Entry(j)].first
                        /\ ~desc'[Entry(j)].last
      OBVIOUS
    <3>1. CASE j = xm.k + 1
      <4>1. Entry(j) = e /\ j > 0
        BY <1>1, <3>1 DEF e
      <4> QED
        BY <1>3, <4>1
    <3>2. CASE j # xm.k + 1
      <4>1. j \in 0 .. xm.k /\ Entry(j) \in Slots /\ Entry(j) # e
        BY <2>1, <2>2, <3>2
      <4>2. desc'[Entry(j)] = desc[Entry(j)]
        BY <1>3, <4>1
      <4> QED
        BY <2>3, <4>1, <4>2
    <3> QED
      BY <3>1, <3>2
  <2> QED
    BY <1>b, <1>4, <2>4 DEF Region
<1> QED
  BY <1>9, <1>10, <1>11, <1>12

(* A failed mapping takes back the packet being built, and no other. *)
LEMMA FailTakesBack ==
  ASSUME Still, SInv, XmitMapFails
  PROVE  Chip' /\ Links' /\ Wholes' /\ Region'
<1> DEFINE R == IF xpc = "head" THEN {}
                ELSE MappedRange(cur_tx + 1, xm.k) \cup {xm.entry}
<1>a. /\ TypeOK /\ IInv /\ HInv /\ OInv /\ Region /\ Gathering /\ Built /\ Begun /\ Mapped
      /\ xpc \in {"head", "frag"} /\ xpc' = "idle"
      /\ desc' = ClearDesc(R) /\ tx_skb' = ClearSkb(R)
      /\ UNCHANGED <<cur_tx, dirty_tx, rpc, rp, nic>>
  <2>1. /\ xpc \in {"head", "frag"} /\ xpc' = "idle"
        /\ desc' = ClearDesc(R) /\ tx_skb' = ClearSkb(R)
        /\ UNCHANGED <<cur_tx, dirty_tx, rpc, rp, nic>>
    BY DEF XmitMapFails, rvars
  <2> QED
    BY <2>1 DEF SInv, OInv, IInv, HInv, Gathering
<1>1. ASSUME NEW i \in R
      PROVE  xpc = "frag" /\ \E j \in 0 .. xm.k : j \in 0 .. xm.frags /\ i = Entry(j)
  BY <1>a, <1>1, BackIsBuilt
<1>2. ASSUME NEW i \in Slots, desc[i].own, i \notin R PROVE Given(i)
  <2>1. SUFFICES ASSUME xpc \in {"frag", "last", "own"}, Off(i) \in 1 .. Reached PROVE FALSE
    BY <1>2, OwnedWhere
  <2>2. xpc = "frag" /\ Taken = xm.k + 1 /\ Reached = xm.k /\ xm.k \in Nat
    BY <1>a, <2>1, RegionPlaces DEF Taken, Reached
  <2> QED
    BY <1>a, <1>2, <2>1, <2>2, TakenBack
<1> HIDE DEF R
<1>3. /\ \A i \in Slots : i \notin R => desc'[i] = desc[i] /\ tx_skb'[i] = tx_skb[i]
      /\ \A i \in Slots : i \in R => ~desc'[i].own
  BY <1>a DEF ClearDesc, ClearSkb, NoDesc
<1>4. \A i \in R : i \in Slots /\ ~Given(i)
  BY <1>a, <1>1, RegionPlaces
<1>5. Live' = Live /\ Shift' = Shift
  BY <1>a, LiveKept DEF Shift
<1>6. \A i \in Slots : Given(i) => desc'[i] = desc[i] /\ tx_skb'[i] = tx_skb[i]
  BY <1>3, <1>4
<1>7. \A i \in Slots : desc'[i].own => i \notin R /\ desc[i].own /\ Given(i) /\ desc'[i] = desc[i]
  BY <1>2, <1>3
<1>8. Chip'
  <2>1. nic.on /\ ~desc[nic.pos].own => ~desc'[nic.pos].own
    BY <1>7 DEF SInv, Chip
  <2> QED
    BY <1>a, <1>5, <1>6, <2>1, ChipStays
<1>9. Links'
  <2> SUFFICES ASSUME nic.on, NEW i \in Slots, desc'[i].own
               PROVE  /\ ~desc'[i].last => /\ desc'[Succ(i)].own /\ ~desc'[Succ(i)].first
                                           /\ ~Current(Succ(i))
                      /\ desc'[i].last /\ desc'[Succ(i)].own
                            => desc'[Succ(i)].first \/ Current(Succ(i))
    <3>1. Slots' = Slots /\ \A i \in Slots : Succ(i)' = Succ(i) /\ Succ(i) \in Slots
      BY <1>a, SuccNumbers DEF Slots, Succ
    <3>2. \A i \in Slots : Current(Succ(i))' <=> Current(Succ(i))
      BY <1>a, <3>1 DEF Current
    <3> QED
      BY <1>a, <3>1, <3>2 DEF Links
  <2>1. i \notin R /\ desc[i].own /\ Given(i) /\ desc'[i] = desc[i] /\ Succ(i) \in Slots
    BY <1>a, <1>7, SuccNumbers
  <2>2. ~Newest(i)
    <3>1. xpc \in {"frag", "last"} => ~Given(Entry(Reached))
      BY <1>a, RegionPlaces
    <3> QED
      BY <2>1, <3>1 DEF Newest
  <2>3. ASSUME ~desc[i].last PROVE Succ(i) \notin R
    <3> SUFFICES ASSUME Succ(i) \in R PROVE FALSE
      OBVIOUS
    <3>1. PICK j \in 0 .. xm.k : j \in 0 .. xm.frags /\ Succ(i) = Entry(j) /\ xpc = "frag"
      BY <1>1
    <3>2. desc[Entry(j)].own /\ Reached = xm.k
      BY <2>1, <2>2, <2>3, <3>1 DEF SInv, Links, Reached
    <3>3. j # 0
      BY <1>a, <3>1, <3>2 DEF Region
    <3>4. Pos(Succ(i)) = j /\ Pos(i) \in 0 .. NumTxDesc - 1
          /\ Pos(Succ(i)) = (IF Pos(i) = NumTxDesc - 1 THEN 0 ELSE Pos(i) + 1)
      BY <1>a, <3>1, RegionPlaces, PosNumbers
    <3>5. Pos(i) = j - 1 /\ j - 1 \in 0 .. xm.frags
      BY <1>a, <3>1, <3>3, <3>4, RegionPlaces, Sizes
    <3>6. i = Entry(j - 1)
      BY <1>a, <3>5, RegionPlaces
    <3> QED
      BY <1>a, <2>1, <3>5, <3>6, RegionPlaces
  <2>4. CASE ~desc[i].last
    BY <1>3, <2>1, <2>2, <2>3, <2>4 DEF SInv, Links
  <2>5. CASE desc[i].last
    BY <1>7, <2>1, <2>5 DEF SInv, Links
  <2> QED
    BY <2>1, <2>4, <2>5
<1>10. Wholes'
  <2> SUFFICES ASSUME nic.on, NEW i \in Slots, desc'[i].own, desc'[i].first PROVE WholePacket(i)'
    BY <1>a DEF Wholes, Slots
  <2> QED
    BY <1>6, <1>7, WholeStays
<1>11. Region'
  BY <1>a DEF Region
<1> QED
  BY <1>8, <1>9, <1>10, <1>11

(* The last descriptor is marked: what follows it, if anything, is where the  *)
(* chip is.                                                                   *)
LEMMA LastMarked ==
  ASSUME SInv, XmitLast
  PROVE  Chip' /\ Links' /\ Wholes' /\ Region'
<1> DEFINE e == Entry(xm.frags)
<1>a. /\ TypeOK /\ IInv /\ HInv /\ OInv /\ Region /\ Gathering /\ Building
      /\ xpc = "last" /\ xpc' = "own" /\ Reached = xm.frags
      /\ UNCHANGED <<cur_tx, dirty_tx, rpc, rp, nic>>
  <2>1. xpc = "last" /\ xpc' = "own" /\ UNCHANGED <<cur_tx, dirty_tx, rpc, rp, nic>>
    BY DEF XmitLast, rvars
  <2> QED
    BY <2>1 DEF SInv, OInv, IInv, HInv, Gathering, Building, Reached
<1>b. /\ xm'.frags = xm.frags /\ xm'.skb = xm.skb /\ xm'.entry = xm.entry
      /\ \A j : Entry(j)' = Entry(j)
  <2>1. xm'.frags = xm.frags /\ xm'.skb = xm.skb /\ xm'.entry = xm.entry
    BY <1>a DEF XmitLast, TypeOK, XmType
  <2> QED
    BY <2>1 DEF Entry
<1>1. /\ xm.frags \in 0 .. MaxSkbFrags /\ xm.frags \in 0 .. xm.frags
      /\ e \in Slots /\ Off(e) = xm.frags /\ Pos(e) = xm.frags /\ ~Given(e)
  <2>1. xm.frags \in 0 .. MaxSkbFrags
    BY <1>a, RegionPlaces
  <2> QED
    BY <1>a, <2>1, RegionPlaces, Sizes
<1> HIDE DEF e
<1>2. /\ \A i \in Slots : i # e => desc'[i] = desc[i] /\ tx_skb'[i] = tx_skb[i]
      /\ desc'[e].last /\ desc'[e].own = desc[e].own /\ desc'[e].first = desc[e].first
      /\ desc'[e].buf = desc[e].buf /\ tx_skb'[e] = xm.skb
  BY <1>a, <1>1 DEF XmitLast, TypeOK, RingType, DescType, e
<1>3. Live' = Live /\ Shift' = Shift
  BY <1>a, LiveKept DEF Shift
<1>4. \A i \in Slots : Given(i) => desc'[i] = desc[i] /\ tx_skb'[i] = tx_skb[i]
  BY <1>1, <1>2
<1>5. \A i \in Slots : desc'[i].own = desc[i].own /\ desc'[i].first = desc[i].first
  BY <1>2
<1>6. Chip'
  <2>1. nic.on /\ ~desc[nic.pos].own => ~desc'[nic.pos].own
    BY <1>5 DEF SInv, Chip
  <2> QED
    BY <1>a, <1>3, <1>4, <2>1, ChipStays
<1>7. Links'
  <2> SUFFICES ASSUME nic.on, NEW i \in Slots, desc[i].own
               PROVE  /\ ~desc'[i].last => /\ desc[Succ(i)].own /\ ~desc[Succ(i)].first
                                           /\ ~Current(Succ(i))
                      /\ desc'[i].last /\ desc[Succ(i)].own
                            => desc[Succ(i)].first \/ Current(Succ(i))
    <3>1. Slots' = Slots /\ \A i \in Slots : Succ(i)' = Succ(i) /\ Succ(i) \in Slots
      BY <1>a, SuccNumbers DEF Slots, Succ
    <3>2. \A i \in Slots : Current(Succ(i))' <=> Current(Succ(i))
      BY <1>a, <3>1 DEF Current
    <3> QED
      BY <1>a, <1>5, <3>1, <3>2 DEF Links
  <2>1. CASE i # e
    <3>1. ~Newest(i)
      BY <1>a, <2>1 DEF Newest, e
    <3> QED
      BY <1>2, <2>1, <3>1 DEF SInv, Links
  <2>2. CASE i = e
    <3> SUFFICES ASSUME desc[Succ(e)].own PROVE desc[Succ(e)].first \/ Current(Succ(e))
      BY <1>2, <2>2
    <3>1. Succ(e) \in Slots /\ Pos(Succ(e)) = xm.frags + 1 /\ Off(Succ(e)) = xm.frags + 1
          /\ xm.frags + 1 <= NumTxDesc - Full
      <4>1. Succ(e) \in Slots /\ Pos(Succ(e)) = IF Pos(e) = NumTxDesc - 1 THEN 0 ELSE Pos(e) + 1
        BY <1>a, <1>1, SuccNumbers, PosNumbers
      <4>2. Full \in Nat /\ Full + xm.frags + 1 <= NumTxDesc
        BY <1>a, PosNumbers
      <4>3. Pos(Succ(e)) = xm.frags + 1
        BY <1>1, <4>1, Sizes
      <4> QED
        BY <1>a, <1>1, <4>1, <4>2, <4>3, RegionPlaces, Sizes
    <3>2. Given(Succ(e))
      <4>1. Off(Succ(e)) \notin 1 .. Reached
        BY <1>a, <1>1, <3>1
      <4> QED
        BY <3>1, <4>1, OwnedWhere
    <3>3. Pos(Succ(e)) = NumTxDesc - Full
      <4>1. Full \in Nat
        BY <1>a, PosNumbers
      <4> QED
        BY <1>1, <3>1, <3>2, <4>1, Sizes DEF Given
    <3>4. Succ(e) = nic.pos
      BY <3>1, <3>3, Oldest
    <3> QED
      BY <3>4 DEF SInv, Chip, Current
  <2> QED
    BY <2>1, <2>2
<1>8. Wholes'
  <2> SUFFICES ASSUME nic.on, NEW i \in Slots, desc[i].own, desc[i].first PROVE WholePacket(i)'
    BY <1>a, <1>5 DEF Wholes, Slots
  <2> QED
    BY <1>4, WholeStays
<1>9. Region'
  <2>1. Reached' = xm.frags
    BY <1>a, <1>b DEF Reached
  <2>2. ASSUME NEW j \in 0 .. xm.frags
        PROVE  /\ desc'[Entry(j)].own <=> j > 0
               /\ desc'[Entry(j)].buf = xm.skb /\ ~desc'[Entry(j)].first
               /\ desc'[Entry(j)].last <=> j = xm.frags
    <3>1. /\ desc[Entry(j)].own <=> j > 0
          /\ desc[Entry(j)].buf = xm.skb /\ ~desc[Entry(j)].first /\ ~desc[Entry(j)].last
      BY <1>a DEF Region
    <3>2. j \in 0 .. xm.frags
      BY <1>1, Sizes
    <3>3. Entry(j) \in Slots /\ (Entry(j) = e <=> j = xm.frags)
      BY <1>a, <1>1, <3>2, RegionPlaces DEF e
    <3> QED
      BY <1>2, <3>1, <3>3
  <2>3. tx_skb'[Entry(xm.frags)] = xm.skb
    BY <1>2 DEF e
  <2> QED
    BY <1>a, <1>b, <2>1, <2>2, <2>3 DEF Region
<1> QED
  BY <1>6, <1>7, <1>8, <1>9

(* Giving away the head turns the numbering past the packet. *)
LEMMA Turned ==
  ASSUME SInv, XmitOwn
  PROVE  \A i \in Slots :
            /\ Pos(i)' = IF Pos(i) > xm.frags THEN Pos(i) - (xm.frags + 1)
                                              ELSE Pos(i) - (xm.frags + 1) + NumTxDesc
            /\ Given(i)' <=> Given(i) \/ Pos(i) <= xm.frags
<1>a. /\ TypeOK /\ IInv /\ Gathering /\ Building /\ xpc = "own" /\ xpc' = "publish"
      /\ UNCHANGED <<cur_tx, dirty_tx, xm, rpc, rp>>
  <2>1. xpc = "own" /\ xpc' = "publish" /\ UNCHANGED <<cur_tx, dirty_tx, xm, rpc, rp>>
    BY DEF XmitOwn, rvars
  <2> QED
    BY <2>1 DEF SInv, OInv, IInv, Gathering, Building
<1> DEFINE n == xm.frags + 1
<1>1. n \in Nat /\ Full \in Nat /\ Full + n <= NumTxDesc /\ Shift = 0 /\ NumTxDesc \in Nat
      /\ xm.frags \in Nat
  <2>1. Full \in Nat /\ Full + xm.frags + 1 <= NumTxDesc /\ Shift = 0
    BY <1>a, PosNumbers
  <2> QED
    BY <1>a, <2>1, RegionPlaces, Sizes
<1>2. Shift' = n /\ Live' = Live /\ Full' = Full + n
  <2>1. Shift' = n /\ Live' = Live
    BY <1>a, LiveKept DEF Shift
  <2>2. Full = Live /\ Full' = Live + n
    BY <1>a, <2>1, RegionPlaces DEF Full
  <2> QED
    BY <2>1, <2>2
<1>3. ASSUME NEW i \in Slots
      PROVE  /\ Pos(i)' = IF Pos(i) >= n THEN Pos(i) - n ELSE Pos(i) - n + NumTxDesc
             /\ Given(i)' <=> (Pos(i)' >= NumTxDesc - (Full + n))
  <2>1. Off(i)' = Pos(i)
    BY <1>a, RegionPlaces DEF Off
  <2> QED
    BY <1>2, <2>1 DEF Pos, Given
<1> HIDE DEF n
<1>4. ASSUME NEW i \in Slots PROVE Given(i)' <=> Given(i) \/ Pos(i) < n
  <2>1. Pos(i) \in 0 .. NumTxDesc - 1
    BY <1>a, PosNumbers
  <2>2. CASE Pos(i) >= n
    BY <1>1, <1>3, <2>1, <2>2 DEF Given
  <2>3. CASE Pos(i) < n
    BY <1>1, <1>3, <2>1, <2>3
  <2> QED
    BY <1>1, <2>1, <2>2, <2>3
<1>5. \A i \in Slots : (Pos(i) >= n <=> Pos(i) > xm.frags) /\ (Pos(i) < n <=> Pos(i) <= xm.frags)
  BY <1>a, <1>1, PosNumbers DEF n
<1> QED
  BY <1>3, <1>4, <1>5 DEF n

(* The head is given away: the chip finds a whole packet, and the one before  *)
(* it ends there.                                                             *)
LEMMA HeadGiven ==
  ASSUME SInv, XmitOwn
  PROVE  Chip' /\ Links' /\ Wholes' /\ Region'
<1> DEFINE e == xm.entry
<1> DEFINE n == xm.frags
<1>a. /\ TypeOK /\ IInv /\ HInv /\ OInv /\ Region /\ Gathering /\ Building
      /\ xpc = "own" /\ xpc' = "publish" /\ Reached = n
      /\ UNCHANGED <<cur_tx, dirty_tx, tx_skb, xm, rpc, rp, nic>>
  <2>1. xpc = "own" /\ xpc' = "publish"
        /\ UNCHANGED <<cur_tx, dirty_tx, tx_skb, xm, rpc, rp, nic>>
    BY DEF XmitOwn, rvars
  <2> QED
    BY <2>1 DEF SInv, OInv, IInv, HInv, Gathering, Building, Reached
<1>1. /\ n \in 0 .. MaxSkbFrags /\ n = xm.frags /\ n \in Nat /\ NumTxDesc \in Nat
      /\ e \in Slots /\ Pos(e) = 0 /\ ~Given(e) /\ e = Entry(0)
      /\ Full \in Nat /\ Full + n + 1 <= NumTxDesc /\ n + 1 < NumTxDesc
      /\ \A j \in 0 .. n : j \in 0 .. xm.frags
      /\ \A i \in Slots : Pos(i) \in 0 .. NumTxDesc - 1 /\ Succ(i) \in Slots
  <2>1. n \in 0 .. MaxSkbFrags /\ n = xm.frags /\ 0 \in 0 .. xm.frags
    BY <1>a, RegionPlaces, Sizes
  <2>2. e \in Slots /\ Pos(e) = 0 /\ ~Given(e) /\ e = Entry(0)
    BY <1>a, <2>1, RegionPlaces
  <2>3. Full \in Nat /\ Full + xm.frags + 1 <= NumTxDesc
    BY <1>a, PosNumbers
  <2>4. \A i \in Slots : Pos(i) \in 0 .. NumTxDesc - 1 /\ Succ(i) \in Slots
    BY <1>a, PosNumbers, SuccNumbers
  <2> QED
    BY <2>1, <2>2, <2>3, <2>4, Sizes
<1>2. /\ \A j \in 0 .. n :
            /\ desc[Entry(j)].own <=> j > 0
            /\ desc[Entry(j)].buf = xm.skb /\ ~desc[Entry(j)].first
            /\ desc[Entry(j)].last <=> j = n
      /\ tx_skb[Entry(n)] = xm.skb
  BY <1>a DEF Region
<1>3. /\ ~desc[e].own /\ ~desc[e].first /\ desc[e].buf = xm.skb /\ (desc[e].last <=> n = 0)
  <2>1. 0 \in 0 .. n
    BY <1>1
  <2> QED
    BY <1>1, <1>2, <2>1
<1>4. /\ \A i \in Slots : i # e => desc'[i] = desc[i]
      /\ desc'[e].own /\ desc'[e].first /\ desc'[e].last = desc[e].last
      /\ desc'[e].buf = desc[e].buf
  BY <1>1, <1>a DEF XmitOwn, TypeOK, RingType, DescType
<1>5. \A i \in Slots :
         /\ Pos(i)' = IF Pos(i) > n THEN Pos(i) - (n + 1) ELSE Pos(i) - (n + 1) + NumTxDesc
         /\ Given(i)' <=> Given(i) \/ Pos(i) <= n
         /\ Given(i) <=> Pos(i) >= NumTxDesc - Full
  BY Turned DEF Given
<1>6. ASSUME NEW i \in Slots, Pos(i) <= n PROVE desc'[i].own
  <2>1. Pos(i) \in 0 .. n
    BY <1>1, <1>6
  <2>2. i = Entry(Pos(i))
    BY <1>1, <1>a, <2>1, RegionPlaces
  <2>3. CASE Pos(i) = 0
    BY <1>1, <1>4, <2>2, <2>3
  <2>4. CASE Pos(i) # 0
    <3>1. desc[i].own
      BY <1>1, <1>2, <2>1, <2>2, <2>4
    <3> QED
      BY <1>3, <1>4, <3>1
  <2> QED
    BY <2>3, <2>4
<1>7. \A i \in Slots : desc[i].own => desc'[i] = desc[i] /\ desc'[i].own /\ i # e
  BY <1>3, <1>4
<1>8. \A i \in Slots : desc'[i].own => desc[i].own \/ i = e
  BY <1>4
<1> HIDE DEF e, n
<1>9. Chip'
  <2> SUFFICES ASSUME nic.on PROVE Chip'
    BY <1>a DEF Chip
  <2> DEFINE p == nic.pos
  <2>1. /\ Slots' = Slots /\ nic'.on /\ nic'.pos = p /\ p \in Slots /\ nic'.mid = nic.mid
        /\ desc[p].own => Given(p) /\ \A i \in Slots : Pos(i) >= Pos(p) => desc[i].own
        /\ ~desc[p].own => Pos(p) = 0
        /\ \A i \in Slots : desc[i].own /\ Given(i) => desc[p].own /\ Pos(p) <= Pos(i)
        /\ nic.mid => desc[p].own /\ ~desc[p].first
        /\ ~nic.mid /\ desc[p].own => desc[p].first
    BY <1>a DEF Slots, SInv, Chip
  <2> DEFINE q(i) == IF Pos(i) > n THEN Pos(i) - (n + 1) ELSE Pos(i) - (n + 1) + NumTxDesc
  <2>2. Pos(nic.pos)' = q(p)
    <3>1. Pos(p)' = q(p) /\ nic' = nic
      BY <1>5, <1>a, <2>1
    <3> QED
      BY <3>1 DEF p, Pos, Off
  <2>3. Given(nic.pos)' <=> Given(p) \/ Pos(p) <= n
    <3>1. Given(p)' <=> Given(p) \/ Pos(p) <= n
      BY <1>5, <2>1
    <3>2. nic' = nic
      BY <1>a
    <3> QED
      BY <3>1, <3>2 DEF p, Pos, Off, Given
  <2> HIDE DEF p
  <2>4. /\ desc'[p].own /\ (Given(p) \/ Pos(p) <= n)
        /\ \A i \in Slots : q(i) >= q(p) => desc'[i].own
        /\ \A i \in Slots : desc'[i].own /\ (Given(i) \/ Pos(i) <= n) => q(p) <= q(i)
        /\ nic.mid => ~desc'[p].first
        /\ ~nic.mid => desc'[p].first
    <3>1. CASE desc[p].own
      <4>1. Pos(p) > n /\ Pos(p) >= NumTxDesc - Full /\ q(p) = Pos(p) - (n + 1)
        BY <1>1, <1>5, <2>1, <3>1
      <4>2. ASSUME NEW i \in Slots, q(i) >= q(p) PROVE desc'[i].own
        <5>1. CASE Pos(i) > n
          <6>1. Pos(i) >= Pos(p)
            BY <1>1, <2>1, <4>1, <4>2, <5>1
          <6> QED
            BY <1>7, <2>1, <3>1, <6>1
        <5>2. CASE ~(Pos(i) > n)
          BY <1>1, <1>6, <5>2
        <5> QED
          BY <5>1, <5>2
      <4>3. ASSUME NEW i \in Slots, desc'[i].own, Given(i) \/ Pos(i) <= n PROVE q(p) <= q(i)
        <5>1. CASE Pos(i) <= n
          BY <1>1, <2>1, <4>1, <5>1
        <5>2. CASE Pos(i) > n
          <6>1. Given(i) /\ desc[i].own
            BY <1>1, <1>8, <4>3, <5>2
          <6>2. Pos(p) <= Pos(i)
            BY <2>1, <6>1
          <6> QED
            BY <1>1, <2>1, <4>1, <5>2, <6>2
        <5> QED
          BY <1>1, <5>1, <5>2
      <4>4. desc'[p] = desc[p]
        BY <1>7, <2>1, <3>1
      <4> QED
        BY <2>1, <3>1, <4>2, <4>3, <4>4
    <3>2. CASE ~desc[p].own
      <4>1. p = e /\ Pos(p) = 0 /\ Pos(p) <= n /\ q(p) = NumTxDesc - (n + 1) /\ ~nic.mid
        <5>1. Pos(p) = 0 /\ ~nic.mid
          BY <2>1, <3>2
        <5>2. p = e
          BY <1>1, <1>a, <2>1, <5>1, PosNumbers
        <5> QED
          BY <1>1, <5>1, <5>2
      <4>2. ASSUME NEW i \in Slots, q(i) >= q(p) PROVE desc'[i].own
        <5>1. Pos(i) <= n
          BY <1>1, <4>1, <4>2
        <5> QED
          BY <1>6, <5>1
      <4>3. ASSUME NEW i \in Slots, desc'[i].own, Given(i) \/ Pos(i) <= n PROVE q(p) <= q(i)
        <5>1. Pos(i) <= n
          BY <1>1, <1>8, <2>1, <3>2, <4>3
        <5> QED
          BY <1>1, <4>1, <5>1
      <4> QED
        BY <1>4, <4>1, <4>2, <4>3
    <3> QED
      BY <3>1, <3>2
  <2>5. /\ desc'[p].own => Given(nic.pos)'
        /\ \A i \in Slots : Pos(i)' >= Pos(nic.pos)' => desc'[i].own
        /\ \A i \in Slots : desc'[i].own /\ Given(i)' => Pos(nic.pos)' <= Pos(i)'
    BY <1>5, <2>2, <2>3, <2>4
  <2> QED
    BY <2>1, <2>4, <2>5 DEF Chip
<1>10. Links'
  <2> SUFFICES ASSUME nic.on, NEW i \in Slots, desc'[i].own
               PROVE  /\ ~desc'[i].last => /\ desc'[Succ(i)].own /\ ~desc'[Succ(i)].first
                                           /\ ~Current(Succ(i))
                      /\ desc'[i].last /\ desc'[Succ(i)].own
                            => desc'[Succ(i)].first \/ Current(Succ(i))
    <3>1. Slots' = Slots /\ \A i \in Slots : Succ(i)' = Succ(i) /\ Succ(i) \in Slots
      BY <1>1 DEF Slots, Succ
    <3>2. \A i \in Slots : Current(Succ(i))' <=> Current(Succ(i))
      BY <1>a, <3>1 DEF Current
    <3> QED
      BY <3>1, <3>2, <1>a DEF Links
  <2>0. ~Newest(i) /\ Succ(i) \in Slots
    BY <1>a, <1>1 DEF Newest
  <2>1. CASE i # e
    <3>1. desc[i].own /\ desc'[i] = desc[i]
      BY <1>7, <1>8, <2>1
    <3>2. CASE Succ(i) = e
      BY <1>3, <1>4, <2>0, <3>1, <3>2 DEF SInv, Links
    <3>3. CASE Succ(i) # e
      BY <1>4, <2>0, <3>1, <3>3 DEF SInv, Links
    <3> QED
      BY <3>2, <3>3
  <2>2. CASE i = e
    <3>1. Succ(e) \in Slots /\ Pos(Succ(e)) = 1 /\ Succ(e) # e
      <4>1. Pos(Succ(e)) = IF Pos(e) = NumTxDesc - 1 THEN 0 ELSE Pos(e) + 1
        BY <1>1, <1>a, PosNumbers
      <4> QED
        BY <1>1, <4>1
    <3>2. desc'[Succ(e)] = desc[Succ(e)]
      BY <1>4, <3>1
    <3>3. CASE n # 0
      <4>1. 1 \in 0 .. n /\ 1 \in 0 .. xm.frags
        BY <1>1, <3>3
      <4>2. Succ(e) = Entry(1) /\ ~Given(Entry(1))
        BY <1>a, <3>1, <4>1, RegionPlaces
      <4>3. desc[Succ(e)].own /\ ~desc[Succ(e)].first
        BY <1>2, <4>1, <4>2
      <4>4. ~Current(Succ(e))
        BY <3>1, <4>2, <4>3 DEF SInv, Chip, Current
      <4> QED
        BY <1>3, <1>4, <2>2, <3>2, <3>3, <4>3, <4>4
    <3>4. CASE n = 0
      <4> SUFFICES ASSUME desc[Succ(e)].own PROVE desc[Succ(e)].first \/ Current(Succ(e))
        BY <1>3, <1>4, <2>2, <3>2, <3>4
      <4>1. Given(Succ(e))
        <5>1. Off(Succ(e)) \notin 1 .. Reached
          BY <1>a, <1>1, <3>4 DEF n
        <5> QED
          BY <3>1, <5>1, OwnedWhere
      <4>2. Pos(Succ(e)) = NumTxDesc - Full
        BY <1>1, <1>5, <3>1, <3>4, <4>1
      <4>3. Succ(e) = nic.pos
        BY <3>1, <4>2, Oldest
      <4> QED
        BY <4>3 DEF SInv, Chip, Current
    <3> QED
      BY <3>3, <3>4
  <2> QED
    BY <2>1, <2>2
<1>11. Wholes'
  <2> SUFFICES ASSUME nic.on, NEW i \in Slots, desc'[i].own, desc'[i].first PROVE WholePacket(i)'
    BY <1>a DEF Wholes, Slots
  <2>1. CASE i # e
    <3>1. desc[i].own /\ desc[i].first
      BY <1>7, <1>8, <2>1
    <3>2. \A m \in Slots : desc[m].own => desc'[m] = desc[m] /\ tx_skb'[m] = tx_skb[m]
      BY <1>7, <1>a
    <3> QED
      BY <3>1, <3>2, WholeStays
  <2>2. CASE i = e
    <3>1. \A j \in 0 .. n : (e + j) % NumTxDesc = Entry(j)
      BY DEF Entry, e
    <3>2. ASSUME NEW j \in 0 .. n
          PROVE  /\ desc'[Entry(j)].own /\ desc'[Entry(j)].buf = desc'[e].buf
                 /\ desc'[Entry(j)].first = (j = 0) /\ desc'[Entry(j)].last = (j = n)
      <4>0. desc' \in [Slots -> DescType]
        <5>1. desc \in [Slots -> DescType]
          BY <1>a DEF TypeOK, RingType
        <5>2. desc' = [desc EXCEPT ![xm.entry] = [@ EXCEPT !.own = TRUE, !.first = TRUE]]
          BY DEF XmitOwn
        <5> QED
          BY <5>1, <5>2 DEF DescType
      <4>1. j \in 0 .. xm.frags /\ Entry(j) \in Slots /\ Pos(Entry(j)) = j
        BY <1>1, <1>a, RegionPlaces
      <4>2. CASE j = 0
        BY <1>1, <1>3, <1>4, <4>0, <4>1, <4>2 DEF DescType
      <4>3. CASE j # 0
        <5>1. desc'[Entry(j)] = desc[Entry(j)] /\ j > 0
          BY <1>1, <1>4, <4>1, <4>3
        <5> QED
          BY <1>2, <1>3, <1>4, <4>0, <4>1, <4>3, <5>1 DEF DescType
      <4> QED
        BY <4>2, <4>3
    <3>3. tx_skb'[(e + n) % NumTxDesc] = desc'[e].buf
      <4>1. n \in 0 .. n
        BY <1>1
      <4> QED
        BY <1>a, <1>2, <1>3, <1>4, <3>1, <4>1
    <3> QED
      BY <1>1, <2>2, <3>1, <3>2, <3>3 DEF WholePacket
  <2> QED
    BY <2>1, <2>2
<1>12. Region'
  BY <1>a DEF Region
<1> QED
  BY <1>9, <1>10, <1>11, <1>12

(* The chip sends a descriptor: it goes on to the next one of the packet, or  *)
(* to the first of the next packet.                                           *)
LEMMA ChipGoesOn ==
  ASSUME SInv, NicSend
  PROVE  Chip' /\ Links' /\ Wholes' /\ Region'
<1> DEFINE p == nic.pos
<1> DEFINE q == Succ(nic.pos)
<1>a. /\ TypeOK /\ IInv /\ HInv /\ OInv /\ nic.on /\ p \in Slots /\ desc[p].own
      /\ desc' = [desc EXCEPT ![p].own = FALSE]
      /\ UNCHANGED <<cur_tx, dirty_tx, tx_skb, xpc, xm, rpc, rp>>
  <2>1. /\ nic.on /\ p \in Slots /\ desc[p].own
        /\ desc' = [desc EXCEPT ![p].own = FALSE]
        /\ UNCHANGED <<cur_tx, dirty_tx, tx_skb, xpc, xm, rpc, rp>>
    BY DEF NicSend, xvars, rvars
  <2> QED
    BY <2>1 DEF SInv, OInv, IInv
<1>1. /\ \A i \in Slots : i # p => desc'[i] = desc[i]
      /\ desc'[p].own = FALSE
  BY <1>a DEF TypeOK, RingType, DescType
<1>2. nic'.on /\ nic'.pos = q /\ nic'.mid = ~desc[p].last
  <2>1. desc[p].eor <=> p = NumTxDesc - 1
    BY <1>a DEF SInv, RingEnds, OInv, Mapped
  <2>2. nic' = [nic EXCEPT !.mid = ~desc[p].last, !.pos = IF desc[p].eor THEN 0 ELSE p + 1]
    BY DEF NicSend
  <2> QED
    BY <1>a, <2>1, <2>2 DEF Succ, TypeOK, NicType
<1>3. /\ q \in Slots /\ q # p /\ NumTxDesc \in Nat /\ NumTxDesc >= 2 /\ Full \in Nat
      /\ Pos(q) = IF Pos(p) = NumTxDesc - 1 THEN 0 ELSE Pos(p) + 1
      /\ \A i \in Slots : Pos(i) \in 0 .. NumTxDesc - 1 /\ Succ(i) \in Slots
      /\ \A i \in Slots : Succ(i) = q => i = p
      /\ \A i, j \in Slots : Pos(i) = Pos(j) => i = j
  BY <1>a, SuccNumbers, PosNumbers, Sizes
<1>4. /\ Slots' = Slots /\ \A i \in Slots : Pos(i)' = Pos(i) /\ (Given(i)' <=> Given(i))
      /\ Live' = Live /\ Shift' = Shift
  <2>1. Live' = Live
    BY <1>a, LiveKept
  <2>2. Shift' = Shift
    BY <1>a DEF Shift
  <2> QED
    BY <1>a, <2>1, <2>2 DEF Pos, Off, Given, Full, Slots
<1>5. /\ Given(p) /\ \A i \in Slots : Pos(i) >= Pos(p) => desc[i].own
      /\ \A i \in Slots : desc[i].own /\ Given(i) => Pos(p) <= Pos(i)
      /\ nic.mid => ~desc[p].first
      /\ ~nic.mid => desc[p].first
      /\ \A i \in Slots : Given(i) <=> Pos(i) >= NumTxDesc - Full
  BY <1>a DEF SInv, Chip, Given
<1>6. \A i \in Slots : Newest(i) => ~Given(i)
  <2>1. xpc \in {"frag", "last"} => ~Given(Entry(Reached))
    BY RegionPlaces DEF Gathering
  <2> QED
    BY <2>1 DEF Newest
<1>7. /\ ~desc[p].last => desc[q].own /\ ~desc[q].first
      /\ desc[p].last /\ desc[q].own => desc[q].first
  BY <1>a, <1>3, <1>5, <1>6 DEF SInv, Links, Current
<1>8. Given(q) \/ ~desc[q].own
  <2>1. CASE Pos(p) = NumTxDesc - 1
    <3>1. Pos(q) = 0
      BY <1>3, <2>1
    <3>2. desc[q].own => Given(q) \/ Pos(q) \in 1 .. Reached
      BY <1>3, OwnedWhere
    <3>3. Pos(q) \notin 1 .. Reached
      BY <3>1
    <3> QED
      BY <3>2, <3>3
  <2>2. CASE Pos(p) # NumTxDesc - 1
    BY <1>a, <1>3, <1>5, <2>2
  <2> QED
    BY <2>1, <2>2
<1>9. desc[q].own <=> Pos(p) # NumTxDesc - 1
  <2>1. CASE Pos(p) = NumTxDesc - 1
    <3>1. ~(Pos(p) <= Pos(q))
      BY <1>3, <2>1
    <3> QED
      BY <1>3, <1>5, <1>8, <2>1, <3>1
  <2>2. CASE Pos(p) # NumTxDesc - 1
    <3>1. Pos(q) >= Pos(p)
      BY <1>a, <1>3, <2>2
    <3> QED
      BY <1>3, <1>5, <2>2, <3>1
  <2> QED
    BY <2>1, <2>2
<1>10. \A i \in Slots : desc'[i].own => desc[i].own /\ i # p /\ desc'[i] = desc[i]
  BY <1>1
<1> HIDE DEF p, q
<1>11. Chip'
  <2>2. Pos(nic.pos)' = Pos(q) /\ (Given(nic.pos)' <=> Given(q))
    <3>1. Pos(nic.pos)' = Pos(q)
      BY <1>2, <1>4, <1>a DEF Pos, Off
    <3> QED
      BY <1>2, <1>4, <3>1 DEF Given, Full
  <2>3. desc'[q] = desc[q]
    BY <1>1, <1>3
  <2>4. desc[q].own => /\ Given(q)
                       /\ \A i \in Slots : Pos(i) >= Pos(q) => desc'[i].own
    <3> SUFFICES ASSUME desc[q].own, NEW i \in Slots, Pos(i) >= Pos(q) PROVE desc'[i].own
      BY <1>8
    <3>1. Pos(i) >= Pos(p) /\ i # p
      BY <1>3, <1>9, <1>a
    <3> QED
      BY <1>1, <1>5, <3>1
  <2>5. ~desc[q].own => Pos(q) = 0
    BY <1>3, <1>9
  <2>6. ASSUME NEW i \in Slots, desc'[i].own, Given(i) PROVE desc[q].own /\ Pos(q) <= Pos(i)
    <3>1. desc[i].own /\ i # p /\ Pos(p) <= Pos(i)
      BY <1>5, <1>10, <2>6
    <3>2. Pos(p) # Pos(i)
      BY <1>3, <1>a, <3>1
    <3> QED
      BY <1>3, <1>9, <1>a, <3>1, <3>2
  <2>7. /\ desc'[q].own => Given(nic.pos)' /\ \A i \in Slots : Pos(i)' >= Pos(nic.pos)' => desc'[i].own
        /\ ~desc'[q].own => Pos(nic.pos)' = 0
        /\ \A i \in Slots : desc'[i].own /\ Given(i)' => desc'[q].own /\ Pos(nic.pos)' <= Pos(i)'
        /\ nic'.mid => desc'[q].own /\ ~desc'[q].first
        /\ ~nic'.mid /\ desc'[q].own => desc'[q].first
    BY <1>2, <1>4, <1>7, <2>2, <2>3, <2>4, <2>5, <2>6
  <2> QED
    BY <1>2, <1>3, <1>4, <2>7 DEF Chip
<1>12. Links'
  <2> SUFFICES ASSUME NEW i \in Slots, desc'[i].own
               PROVE  /\ ~desc'[i].last /\ ~Newest(i)
                           => /\ desc'[Succ(i)].own /\ ~desc'[Succ(i)].first
                              /\ Succ(i) # q
                      /\ desc'[i].last /\ desc'[Succ(i)].own => desc'[Succ(i)].first
    <3>1. \A i \in Slots : Succ(i)' = Succ(i) /\ Succ(i) \in Slots
      BY <1>3 DEF Succ
    <3>2. \A i \in Slots : Current(Succ(i))' => Succ(i) = q
      BY <1>2, <3>1 DEF Current
    <3>3. \A i \in Slots : Newest(i)' <=> Newest(i)
      BY <1>a DEF Newest, Entry, Reached
    <3> QED
      BY <1>2, <1>4, <3>1, <3>2, <3>3 DEF Links
  <2>1. desc[i].own /\ i # p /\ desc'[i] = desc[i] /\ Succ(i) \in Slots /\ Succ(i) # q
    BY <1>3, <1>10
  <2>2. CASE ~desc[i].last /\ ~Newest(i)
    <3>1. desc[Succ(i)].own /\ ~desc[Succ(i)].first /\ ~Current(Succ(i))
      BY <1>a, <2>1, <2>2 DEF SInv, Links
    <3>2. Succ(i) # p
      BY <1>5, <3>1 DEF Current, p
    <3> QED
      BY <1>1, <2>1, <2>2, <3>1, <3>2
  <2>3. CASE desc[i].last /\ desc'[Succ(i)].own
    <3>1. Succ(i) # p /\ desc[Succ(i)].own /\ desc'[Succ(i)] = desc[Succ(i)]
      BY <1>10, <2>1, <2>3
    <3>2. desc[Succ(i)].first
      BY <1>a, <2>1, <2>3, <3>1 DEF SInv, Links, Current, p
    <3> QED
      BY <2>1, <2>3, <3>1, <3>2
  <2> QED
    BY <2>1, <2>2, <2>3
<1>13. Wholes'
  <2> SUFFICES ASSUME NEW i \in Slots, desc'[i].own, desc'[i].first PROVE WholePacket(i)'
    BY <1>4 DEF Wholes
  <2>1. desc[i].own /\ desc[i].first /\ i # p
    BY <1>10
  <2>2. \A m \in Slots : m # p => desc'[m] = desc[m] /\ tx_skb'[m] = tx_skb[m]
    BY <1>1, <1>a
  <2> QED
    BY <1>a, <2>1, <2>2, WholeStays DEF p
<1>14. Region'
  <2>1. \A i \in Slots : ~Given(i) => desc'[i] = desc[i] /\ tx_skb'[i] = tx_skb[i]
    BY <1>1, <1>5, <1>a
  <2> QED
    BY <1>a, <2>1, RegionKept
<1> QED
  BY <1>11, <1>12, <1>13, <1>14

(* Publishing cur_tx counts what is there already. *)
LEMMA PublishUnseen ==
  ASSUME SInv, XmitPublish
  PROVE  Chip' /\ Links' /\ Wholes' /\ Region'
<1> DEFINE n == xm.frags + 1
<1>a. /\ TypeOK /\ IInv /\ HInv /\ Building /\ xpc = "publish" /\ xpc' = "stop"
      /\ cur_tx' = Wrap(cur_tx + n) /\ xm.frags \in Nat
      /\ UNCHANGED <<dirty_tx, desc, tx_skb, rpc, rp, nic>>
  <2>1. /\ xpc = "publish" /\ xpc' = "stop" /\ cur_tx' = Wrap(cur_tx + xm.frags + 1)
        /\ UNCHANGED <<dirty_tx, desc, tx_skb, rpc, rp, nic>>
    BY DEF XmitPublish, rvars
  <2>2. TypeOK /\ IInv /\ HInv /\ Building
    BY <2>1 DEF SInv, OInv, IInv, Building
  <2>3. xm.frags \in Nat /\ cur_tx \in Nat
    BY <2>2, LocalTypes, Sizes DEF TypeOK, Index
  <2>4. cur_tx + xm.frags + 1 = cur_tx + n
    BY <2>3
  <2> QED
    BY <2>1, <2>2, <2>3, <2>4
<1>1. /\ Shift = n /\ Shift' = 0 /\ Full = Live + n /\ Full <= NumTxDesc /\ Live \in Nat
      /\ n \in Nat /\ n \in 0 .. NumTxDesc /\ NumTxDesc \in Nat
  <2>1. Shift = n /\ Shift' = 0 /\ Full = Live + n
    BY <1>a DEF Shift, Full
  <2> QED
    BY <1>a, <2>1, PosNumbers, RoomLeft, Sizes
<1> HIDE DEF n
<1>2. Live' = Live + n
  BY <1>1, <1>a, LiveGrows
<1>3. Full' = Full
  BY <1>1, <1>2 DEF Full
<1>4. ASSUME NEW i \in Slots PROVE Pos(i)' = Pos(i)
  <2>1. Off(i)' = Pos(i)
    BY <1>1, <1>a, OffShifts DEF Pos
  <2>2. Pos(i) \in 0 .. NumTxDesc - 1
    BY <1>a, PosNumbers
  <2> QED
    BY <1>1, <2>1, <2>2 DEF Pos
<1>5. Chip' /\ Links' /\ Wholes'
  <2>1. \A i \in Slots : ~Newest(i)
    BY <1>a DEF Newest
  <2>2. \A i \in Slots : Given(i)' <=> Given(i)
    BY <1>3, <1>4 DEF Given
  <2> QED
    BY <1>4, <1>a, <2>1, <2>2, Unseen
<1>6. Region'
  BY <1>a DEF Region
<1> QED
  BY <1>5, <1>6

(* Releasing what the chip has given back takes nothing from it. *)
LEMMA ReleaseUnseen ==
  ASSUME SInv, ReapOne
  PROVE  Chip' /\ Links' /\ Wholes' /\ Region'
<1> DEFINE e == rp.d % NumTxDesc
<1>a. /\ TypeOK /\ IInv /\ HInv /\ ~desc[e].own /\ desc' = ClearDesc({e}) /\ tx_skb' = ClearSkb({e})
      /\ UNCHANGED <<cur_tx, xpc, xm, nic>>
  BY DEF ReapOne, SInv, OInv, IInv, xvars
<1>1. e \in Slots /\ Off(e) = NumTxDesc - Live /\ Live' = Live - 1 /\ Live >= 1
  BY <1>a, LiveShrinks
<1> HIDE DEF e
<1>2. /\ \A i \in Slots : i # e => desc'[i] = desc[i] /\ tx_skb'[i] = tx_skb[i]
      /\ desc'[e] = NoDesc
  BY <1>1, <1>a DEF ClearDesc, ClearSkb
<1>3. /\ Shift' = Shift /\ Full \in Nat /\ Full' = Full - 1 /\ Full = Live + Shift /\ Live \in Nat
      /\ Shift \in Nat /\ Full <= NumTxDesc /\ NumTxDesc \in Nat
  <2>1. Shift' = Shift
    BY <1>a DEF Shift
  <2>2. Full \in Nat /\ Full = Live + Shift /\ Live \in Nat /\ Shift \in Nat /\ Full <= NumTxDesc
    BY <1>a, PosNumbers, RoomLeft, Sizes
  <2>3. Full' = Live' + Shift'
    BY DEF Full
  <2> QED
    BY <1>1, <2>1, <2>2, <2>3, Sizes
<1>4. Pos(e) = NumTxDesc - Full
  BY <1>1, <1>3 DEF Pos
<1>5. ASSUME NEW i \in Slots
      PROVE  /\ Pos(i)' = Pos(i)
             /\ i # e => (Given(i)' <=> Given(i))
  <2>1. Pos(i)' = Pos(i)
    BY <1>3, <1>a DEF Pos, Off
  <2>2. i # e => Pos(i) # NumTxDesc - Full /\ Pos(i) \in 0 .. NumTxDesc - 1
    BY <1>1, <1>4, <1>a, PosNumbers
  <2>3. Given(i)' <=> Pos(i) >= NumTxDesc - (Full - 1)
    BY <1>3, <2>1 DEF Given
  <2>4. Given(i) <=> Pos(i) >= NumTxDesc - Full
    BY DEF Given
  <2> QED
    BY <1>3, <2>1, <2>2, <2>3, <2>4
<1>6. Chip' /\ Links' /\ Wholes'
  <2>1. \A i \in Slots : desc[i].own => i # e
    BY <1>a
  <2>2. \A i \in Slots : Newest(i) => Newest(i)'
    BY <1>a DEF Newest, Entry, Reached
  <2>3. \A i \in Slots : desc'[i].own = desc[i].own
    <3>1. desc[e].own = FALSE
      BY <1>1, <1>a DEF TypeOK, RingType, DescType
    <3>2. desc'[e].own = FALSE
      BY <1>2 DEF NoDesc
    <3> QED
      BY <1>2, <3>1, <3>2
  <2> QED
    BY <1>2, <1>5, <1>a, <2>1, <2>2, <2>3, Unseen
<1>7. Region'
  <2>1. \A i \in Slots : ~Given(i) => i # e
    BY <1>1, <1>3, <1>4 DEF Given
  <2> QED
    BY <1>2, <1>a, <2>1, RegionKept
<1> QED
  BY <1>6, <1>7

(* Every descriptor written says whether it is the last of the ring. *)
LEMMA EndsKept ==
  ASSUME SInv, [Next]_vars
  PROVE  RingEnds'
<1>a. TypeOK /\ RingEnds /\ Slots' = Slots
  BY DEF SInv, OInv, IInv, Slots
<1>1. ASSUME \A i \in Slots : desc'[i].buf = desc[i].buf /\ desc'[i].eor = desc[i].eor PROVE RingEnds'
  BY <1>a, <1>1 DEF RingEnds
<1>2. ASSUME desc' = desc PROVE RingEnds'
  BY <1>1, <1>2
<1>3. ASSUME NEW R, desc' = ClearDesc(R) PROVE RingEnds'
  BY <1>a, <1>3 DEF RingEnds, ClearDesc, NoDesc
<1>4. ASSUME NEW j \in Slots, NEW s, NEW own, desc' = TxMap(desc, j, s, own) PROVE RingEnds'
  BY <1>a, <1>4 DEF RingEnds, TxMap, TypeOK, RingType
<1>5. CASE XmitHead
  BY <1>4, <1>5, <1>a, LocalTypes DEF XmitHead
<1>6. CASE XmitFrag
  <2>1. Entry(xm.k + 1) \in Slots
    BY <1>a, LocalTypes, RingTypes
  <2> QED
    BY <1>4, <1>6, <2>1 DEF XmitFrag
<1>7. CASE XmitMapFails \/ ReapOne \/ ResetTxClear
  BY <1>3, <1>7 DEF XmitMapFails, ReapOne, ResetTxClear
<1>a8. desc \in [Slots -> DescType]
  BY <1>a DEF TypeOK, RingType
<1>8. CASE XmitLast
  <2>1. desc' = [desc EXCEPT ![Entry(xm.frags)].last = TRUE]
    BY <1>8 DEF XmitLast
  <2>2. \A i \in Slots : desc'[i].buf = desc[i].buf /\ desc'[i].eor = desc[i].eor
    BY <1>a8, <2>1 DEF DescType
  <2> QED
    BY <1>1, <2>2
<1>12. CASE XmitOwn
  <2>1. desc' = [desc EXCEPT ![xm.entry] = [@ EXCEPT !.own = TRUE, !.first = TRUE]]
    BY <1>12 DEF XmitOwn
  <2>2. \A i \in Slots : desc'[i].buf = desc[i].buf /\ desc'[i].eor = desc[i].eor
    BY <1>a8, <2>1 DEF DescType
  <2> QED
    BY <1>1, <2>2
<1>13. CASE NicSend
  <2>1. desc' = [desc EXCEPT ![nic.pos].own = FALSE]
    BY <1>13 DEF NicSend
  <2>2. \A i \in Slots : desc'[i].buf = desc[i].buf /\ desc'[i].eor = desc[i].eor
    BY <1>a8, <2>1 DEF DescType
  <2> QED
    BY <1>1, <2>2
<1>9. CASE XmitStart \/ XmitBusy \/ XmitPublish \/ XmitMaybeStop \/ XmitStop \/ XmitRecheck \/ XmitBell
  <2>1. CASE XmitStart
    <3>1. UNCHANGED ring
      BY <2>1 DEF XmitStart, XmitBegin
    <3> QED
      BY <1>2, <3>1 DEF ring
  <2>2. CASE XmitBusy \/ XmitPublish \/ XmitMaybeStop \/ XmitStop
    BY <1>2, <2>2 DEF XmitBusy, XmitPublish, XmitMaybeStop, XmitStop, ring
  <2>3. CASE XmitRecheck \/ XmitBell
    BY <1>2, <2>3 DEF XmitRecheck, XmitBell, ring
  <2> QED
    BY <1>9, <2>1, <2>2, <2>3
<1>10. CASE ReapBegin \/ ReapPublish \/ ReapComplete \/ ReapWake \/ ReapKick \/ NicSleep \/ LinkUp
            \/ UNCHANGED vars
  BY <1>2, <1>10 DEF ReapBegin, ReapPublish, ReapComplete, ReapWake, ReapKick, NicSleep, LinkUp,
                     vars, ring
<1>11. CASE \/ \E k \in ResetKinds : ResetBegin(k)
            \/ ResetDetached \/ ResetStopQueue \/ ResetNapiDisable \/ ResetSync \/ ResetHw
            \/ ResetIndexes \/ ResetHwStart \/ ResetWakeQueue
  BY <1>2, <1>11 DEF ResetBegin, ResetDetached, ResetStopQueue, ResetNapiDisable, ResetSync, ResetHw,
                     ResetIndexes, ResetHwStart, ResetWakeQueue, ring
<1> QED
  BY <1>5, <1>6, <1>7, <1>8, <1>9, <1>10, <1>11, <1>12, <1>13 DEF Next, Xmit, Reap, Reset

(* From the reset of the chip to its start nothing is given to it. *)
LEMMA SilentKept ==
  ASSUME Still, SInv, OInv', [Next]_vars
  PROVE  Silent'
<1>a. TypeOK /\ TornDown /\ sk # "task" /\ Silent /\ ChipOff /\ Slots' = Slots /\ ChipOff'
  BY DEF SInv, OInv, IInv, Slots, Quiet, Still
<1>1. CASE spc' # spc
  <2>1. \/ spc' \notin {"clear", "index", "start"} \/ ResetHw \/ ResetTxClear \/ ResetIndexes
    BY <1>1, <1>a DEF Next, XmitStart, XmitBegin, Xmit, XmitBusy, XmitHead, XmitFrag, XmitMapFails,
        XmitLast, XmitOwn, XmitPublish, XmitMaybeStop, XmitStop, XmitRecheck, XmitBell,
        ReapBegin, Reap, ReapOne, ReapPublish, ReapComplete, ReapWake, ReapKick,
        NicSend, NicSleep, ResetBegin, Reset, ResetDetached, ResetStopQueue, ResetNapiDisable,
        ResetSync, ResetHwStart, ResetWakeQueue, LinkUp, vars, svars
  <2>2. CASE spc' \notin {"clear", "index", "start"}
    BY <2>2 DEF Silent
  <2>3. CASE ResetHw
    BY <2>3 DEF ResetHw, Silent
  <2>4. CASE ResetTxClear
    BY <1>a, <2>4 DEF ResetTxClear, Silent, ChipOff
  <2>5. CASE ResetIndexes
    BY <1>a, <2>5 DEF ResetIndexes, Silent
  <2> QED
    BY <2>1, <2>2, <2>3, <2>4, <2>5
<1>2. CASE spc' = spc /\ spc \in {"clear", "index", "start"}
  <2>1. /\ xpc = "idle" /\ rpc = "idle" /\ ~active /\ NapiOff /\ ~nic.on /\ nic.pos = 0 /\ ~nic.mid
        /\ spc \in {"index", "start"} => \A i \in Slots : ~desc[i].own
    BY <1>2, <1>a DEF TornDown, Silent, NapiOff
  <2>2. UNCHANGED <<desc, nic>>
    <3>1. ~XmitStart /\ ~Xmit
      <4>1. ~XmitStart
        <5>1. ASSUME NEW s \in Skbs, NEW f \in 0 .. MaxSkbFrags, NEW more \in BOOLEAN,
                     XmitBegin(s, f, more)
              PROVE  FALSE
          <6>1. active
            BY <5>1 DEF XmitBegin
          <6> QED
            BY <2>1, <6>1
        <5> QED
          BY <5>1 DEF XmitStart
      <4>2. ~XmitBusy /\ ~XmitHead /\ ~XmitFrag /\ ~XmitMapFails /\ ~XmitLast
        <5>1. ~XmitBusy /\ ~XmitHead
          BY <2>1 DEF XmitBusy, XmitHead
        <5>2. ~XmitFrag
          BY <2>1 DEF XmitFrag
        <5>3. ~XmitMapFails
          BY <2>1 DEF XmitMapFails
        <5>4. ~XmitLast
          BY <2>1 DEF XmitLast
        <5> QED
          BY <5>1, <5>2, <5>3, <5>4
      <4>3. ~(XmitOwn \/ XmitPublish \/ XmitMaybeStop \/ XmitStop \/ XmitRecheck \/ XmitBell)
        BY <2>1 DEF XmitOwn, XmitPublish, XmitMaybeStop, XmitStop, XmitRecheck, XmitBell
      <4> QED
        BY <4>1, <4>2, <4>3 DEF Xmit
    <3>2. ~ReapBegin /\ ~Reap /\ ~NicSend /\ ~NicSleep
      BY <2>1 DEF ReapBegin, Reap, ReapOne, ReapPublish, ReapComplete, ReapWake, ReapKick,
          NicSend, NicSleep
    <3>3. ~Reset /\ \A k \in ResetKinds : ~ResetBegin(k)
      BY <1>2 DEF ResetBegin, Reset, ResetDetached, ResetStopQueue, ResetNapiDisable,
          ResetSync, ResetHw, ResetTxClear, ResetIndexes, ResetHwStart, ResetWakeQueue
    <3> QED
      BY <3>1, <3>2, <3>3 DEF Next, LinkUp, vars, ring
  <2> QED
    BY <1>2, <1>a, <2>1, <2>2 DEF Silent
<1>3. CASE spc' = spc /\ spc \notin {"clear", "index", "start"}
  BY <1>3 DEF Silent
<1> QED
  BY <1>1, <1>2, <1>3

(* At first the chip stands where the first packet will begin. *)
LEMMA MeetsInit == Still /\ Init => SInv
<1> SUFFICES ASSUME Still, Init PROVE SInv
  OBVIOUS
<1>1. OInv /\ HInv
  BY OwnedInit, BooksInit DEF Still, Whole
<1>2. /\ \A i \in Slots : ~desc[i].own /\ desc[i].buf = NoSkb
      /\ nic.pos = 0 /\ ~nic.mid /\ xpc = "idle" /\ cur_tx = 0 /\ 0 \in Slots /\ spc = "idle"
  BY Sizes DEF Init, NoDesc, Slots
<1>3. Pos(0) = 0
  <2>1. Pos(0) = Off(0)
    BY <1>1, <1>2, PosNumbers DEF OInv
  <2>2. cur_tx % NumTxDesc = 0
    <3>1. 0 = NumTxDesc * 0 + 0 /\ 0 \in 0 .. NumTxDesc - 1 /\ 0 \in Int
      BY Sizes
    <3> QED
      BY <1>2, <3>1, ModIs
  <2> QED
    BY <2>1, <2>2 DEF Off
<1>4. Chip
  BY <1>2, <1>3 DEF Chip
<1>5. Region /\ Links /\ Wholes /\ RingEnds /\ Silent
  BY <1>2 DEF Region, Links, Wholes, RingEnds, Silent
<1> QED
  BY <1>1, <1>4, <1>5 DEF SInv

(* Every step leaves the chip before a whole packet or inside one. *)
LEMMA MeetsNext == Still /\ SInv /\ [Next]_vars => SInv'
<1> SUFFICES ASSUME Still, SInv, [Next]_vars PROVE SInv'
  OBVIOUS
<1>a. OInv' /\ HInv'
  BY OwnedNext, BooksNext, CalmNext DEF SInv, OInv, Still, Whole
<1>b. RingEnds' /\ Silent'
  BY <1>a, EndsKept, SilentKept
<1>c. TypeOK /\ TornDown /\ sk # "task" /\ Silent
  BY DEF SInv, OInv, IInv, Quiet, Still
<1> DEFINE Meets == Chip' /\ Links' /\ Wholes' /\ Region'
<1>d. ASSUME UNCHANGED <<cur_tx, desc, tx_skb, xpc, xm>>, Live' = Live,
             nic'.on = nic.on, nic'.pos = nic.pos, nic'.mid = nic.mid
      PROVE  Meets
  <2>1. Shift' = Shift /\ \A i \in Slots : Newest(i) => Newest(i)'
    BY <1>d DEF Shift, Newest, Reached, Entry
  <2>2. Chip' /\ Links' /\ Wholes'
    BY <1>d, <2>1, Quietly
  <2>3. Region'
    BY <1>d, RegionKept
  <2> QED
    BY <2>2, <2>3
<1>e. ASSUME UNCHANGED <<cur_tx, dirty_tx, desc, tx_skb, rpc, rp>>,
             xpc \notin {"frag", "last", "own", "publish"},
             xpc' \notin {"frag", "last", "own", "publish"},
             nic'.on = nic.on, nic'.pos = nic.pos, nic'.mid = nic.mid
      PROVE  Meets
  <2>1. Shift' = Shift /\ \A i \in Slots : Newest(i) => Newest(i)'
    BY <1>e DEF Shift, Newest
  <2>2. Chip' /\ Links' /\ Wholes'
    BY <1>e, <2>1, LiveKept, Quietly
  <2>3. Region'
    BY <1>e DEF Region
  <2> QED
    BY <2>2, <2>3
<1>f. Doorbell => nic'.on = nic.on /\ nic'.pos = nic.pos /\ nic'.mid = nic.mid
  BY <1>c DEF Doorbell, TypeOK, NicType
<1>1. ASSUME XmitStart PROVE Meets
  BY <1>1, <1>e DEF XmitStart, XmitBegin, ring, rvars
<1>2. ASSUME XmitBusy \/ XmitMaybeStop \/ XmitStop \/ XmitRecheck PROVE Meets
  BY <1>2, <1>e DEF XmitBusy, XmitMaybeStop, XmitStop, XmitRecheck, ring, rvars
<1>3. ASSUME XmitBell PROVE Meets
  <2>1. /\ xpc = "bell" /\ xpc' = "idle" /\ UNCHANGED <<cur_tx, dirty_tx, desc, tx_skb, rpc, rp>>
        /\ Doorbell \/ nic' = nic
    BY <1>3 DEF XmitBell, ring, rvars
  <2> QED
    BY <1>e, <1>f, <2>1
<1>4. ASSUME ReapBegin \/ ReapPublish \/ ReapComplete \/ ReapWake \/ ReapKick PROVE Meets
  <2>1. UNCHANGED <<cur_tx, desc, tx_skb, xpc, xm>> /\ (Doorbell \/ nic' = nic)
    BY <1>4 DEF ReapBegin, ReapPublish, ReapComplete, ReapWake, ReapKick, ring, xvars
  <2> QED
    BY <1>4, <1>d, <1>f, <2>1, LiveSteady
<1>5. ASSUME NicSleep PROVE Meets
  <2>1. /\ UNCHANGED <<cur_tx, dirty_tx, desc, tx_skb, xpc, xm, rpc, rp>>
        /\ nic'.on = nic.on /\ nic'.pos = nic.pos /\ nic'.mid = nic.mid
    BY <1>5, <1>c DEF NicSleep, ring, xvars, rvars, TypeOK, NicType
  <2> QED
    BY <1>d, <2>1, LiveKept
<1>6. ASSUME \/ LinkUp \/ UNCHANGED vars \/ \E k \in ResetKinds : ResetBegin(k)
             \/ ResetDetached \/ ResetStopQueue \/ ResetNapiDisable \/ ResetSync \/ ResetWakeQueue PROVE Meets
  <2>1. UNCHANGED <<cur_tx, dirty_tx, desc, tx_skb, xpc, xm, rpc, rp, nic>>
    BY <1>6 DEF LinkUp, vars, ResetBegin, ResetDetached, ResetStopQueue, ResetNapiDisable, ResetSync,
                ResetWakeQueue, ring, xvars, rvars
  <2> QED
    BY <1>d, <2>1, LiveKept
<1>7. ASSUME ResetHw \/ ResetTxClear \/ ResetIndexes PROVE Meets
  <2>1. ~nic'.on /\ xpc' = "idle"
    BY <1>7, <1>c DEF ResetHw, ResetTxClear, ResetIndexes, TornDown, Silent, xvars
  <2> QED
    BY <2>1 DEF Chip, Links, Wholes, Region
<1>8. ASSUME ResetHwStart PROVE Meets
  <2>1. /\ nic'.pos = 0 /\ ~nic'.mid /\ xpc' = "idle" /\ cur_tx' = 0 /\ 0 \in Slots /\ Slots' = Slots
        /\ \A i \in Slots : ~desc'[i].own
    BY <1>8, <1>c, Sizes DEF ResetHwStart, TornDown, Silent, Slots, TypeOK, NicType, ring, xvars
  <2>2. Pos(nic.pos)' = 0
    <3>1. Off(nic.pos)' = 0
      <4>1. 0 = NumTxDesc * 0 + 0 /\ 0 \in 0 .. NumTxDesc - 1 /\ 0 \in Int
        BY Sizes
      <4>2. 0 % NumTxDesc = 0
        BY <4>1, ModIs
      <4> QED
        BY <2>1, <4>2 DEF Off
    <3> QED
      BY <2>1, <3>1 DEF Pos, Shift
  <2>3. Chip'
    BY <2>1, <2>2 DEF Chip
  <2>4. Links' /\ Wholes' /\ Region'
    BY <2>1 DEF Links, Wholes, Region
  <2> QED
    BY <2>3, <2>4
<1>9. ASSUME \/ XmitHead \/ XmitFrag \/ XmitMapFails \/ XmitLast \/ XmitOwn \/ XmitPublish
             \/ ReapOne \/ NicSend
      PROVE  Meets
  BY <1>9, HeadUnseen, FragBehind, FailTakesBack, LastMarked, HeadGiven, PublishUnseen, ReleaseUnseen,
     ChipGoesOn
<1>10. Meets
  BY <1>1, <1>2, <1>3, <1>4, <1>5, <1>6, <1>7, <1>8, <1>9 DEF Next, Xmit, Reap, Reset
<1> QED
  BY <1>10, <1>a, <1>b DEF SInv

(* The chip only ever meets whole packets, mapping failures included: it      *)
(* starts at a first descriptor and never runs into a packet being built.     *)
THEOREM ChipMeetsWhole ==
  ASSUME Still
  PROVE  Spec => []ChipSeesWholePackets
<1>1. Init => SInv
  BY Still, MeetsInit
<1>2. SInv /\ [Next]_vars => SInv'
  BY Still, MeetsNext
<1>3. SInv => ChipSeesWholePackets
  BY DEF SInv, Chip, Wholes, ChipSeesWholePackets
<1> QED
  BY <1>1, <1>2, <1>3, PTL DEF Spec

-----------------------------------------------------------------------------
(* Counting through a finite set of numbers, from the least upwards.           *)
Upto(E, j) == {k \in E : k <= j}
Numbers(E) == E \in SUBSET Int /\ IsFiniteSet(E)

(* Every member has a rank of its own, and every rank its member. *)
LEMMA RankNumbers ==
  ASSUME NEW E, Numbers(E)
  PROVE  /\ Cardinality(E) \in Nat
         /\ \A j \in E : Cardinality(Upto(E, j)) \in 1 .. Cardinality(E)
         /\ \A j, k \in E : j < k => Cardinality(Upto(E, j)) < Cardinality(Upto(E, k))
         /\ \A j, k \in E : Cardinality(Upto(E, j)) = Cardinality(Upto(E, k)) => j = k
         /\ \A n \in 1 .. Cardinality(E) : \E j \in E : Cardinality(Upto(E, j)) = n
<1>1. Cardinality(E) \in Nat
  BY FS_CardinalityType DEF Numbers
<1>2. \A j : Upto(E, j) \in SUBSET E /\ IsFiniteSet(Upto(E, j)) /\ Cardinality(Upto(E, j)) \in Nat
            /\ Cardinality(Upto(E, j)) <= Cardinality(E)
  <2> TAKE j
  <2>1. Upto(E, j) \in SUBSET E
    BY DEF Upto
  <2> QED
    BY <2>1, FS_Subset, FS_CardinalityType DEF Numbers
<1>3. ASSUME NEW j \in E PROVE Cardinality(Upto(E, j)) \in 1 .. Cardinality(E)
  <2>1. j \in Upto(E, j)
    BY DEF Upto, Numbers
  <2>2. Cardinality(Upto(E, j)) # 0
    BY <1>2, <2>1, FS_EmptySet
  <2> QED
    BY <1>1, <1>2, <2>2
<1>4. ASSUME NEW j \in E, NEW k \in E, j < k
      PROVE  Cardinality(Upto(E, j)) < Cardinality(Upto(E, k))
  <2>1. Upto(E, j) \in SUBSET Upto(E, k) /\ k \in Upto(E, k) /\ k \notin Upto(E, j)
    <3>1. \A i \in E : i \in Int
      BY DEF Numbers
    <3>2. \A i \in E : i <= j => i <= k
      BY <1>4, <3>1
    <3>3. k <= k /\ ~(k <= j)
      BY <1>4, <3>1
    <3> QED
      BY <3>2, <3>3 DEF Upto
  <2>2. /\ Cardinality(Upto(E, j)) <= Cardinality(Upto(E, k))
        /\ Cardinality(Upto(E, k)) = Cardinality(Upto(E, j)) => Upto(E, k) = Upto(E, j)
    BY <1>2, <2>1, FS_Subset
  <2> QED
    BY <1>2, <2>1, <2>2
<1>5. ASSUME NEW j \in E, NEW k \in E, Cardinality(Upto(E, j)) = Cardinality(Upto(E, k)) PROVE j = k
  <2>1. j \in Int /\ k \in Int
    BY DEF Numbers
  <2> QED
    BY <1>2, <1>4, <1>5, <2>1
<1>6. ASSUME NEW n \in 1 .. Cardinality(E) PROVE \E j \in E : Cardinality(Upto(E, j)) = n
  <2> DEFINE T == 1 .. Cardinality(E)
             f == [j \in E |-> Cardinality(Upto(E, j))]
  <2>1. f \in [E -> T]
    BY <1>3
  <2>2. \A j, k \in E : f[j] = f[k] => j = k
    BY <1>5
  <2>3. f \in Injection(E, T)
    BY <2>1, <2>2 DEF Injection, IsInjective
  <2>4. IsFiniteSet(T) /\ Cardinality(T) = Cardinality(E)
    <3>1. /\ 1 \in Int /\ Cardinality(E) \in Int
          /\ (IF 1 > Cardinality(E) THEN 0 ELSE Cardinality(E) - 1 + 1) = Cardinality(E)
      BY <1>1
    <3> QED
      BY <3>1, FS_Interval
  <2> HIDE DEF T, f
  <2>5. f \in Surjection(E, T)
    BY <2>3, <2>4, FS_Injection
  <2>6. \E j \in E : f[j] = n
    BY <2>5 DEF Surjection, T
  <2> QED
    BY <2>6 DEF f
<1> QED
  BY <1>1, <1>3, <1>4, <1>5, <1>6

(* The nth member is the one of rank n, and the order is that of the numbers. *)
LEMMA NthNumbers ==
  ASSUME NEW E, Numbers(E)
  PROVE  /\ \A n \in 1 .. Cardinality(E) :
               Nth(E, n) \in E /\ Cardinality(Upto(E, Nth(E, n))) = n
         /\ \A j \in E : Nth(E, Cardinality(Upto(E, j))) = j
         /\ \A m, n \in 1 .. Cardinality(E) : Nth(E, m) < Nth(E, n) <=> m < n
         /\ \A m, n \in 1 .. Cardinality(E) : Nth(E, m) = Nth(E, n) => m = n
<1>1. ASSUME NEW n \in 1 .. Cardinality(E)
      PROVE  Nth(E, n) \in E /\ Cardinality(Upto(E, Nth(E, n))) = n
  <2>1. \E j \in E : Cardinality(Upto(E, j)) = n
    BY RankNumbers
  <2>2. Nth(E, n) = CHOOSE j \in E : Cardinality(Upto(E, j)) = n
    BY DEF Nth, Upto
  <2> QED
    BY <2>1, <2>2
<1>2. ASSUME NEW j \in E PROVE Nth(E, Cardinality(Upto(E, j))) = j
  BY <1>1, RankNumbers
<1>3. ASSUME NEW m \in 1 .. Cardinality(E), NEW n \in 1 .. Cardinality(E)
      PROVE  Nth(E, m) < Nth(E, n) <=> m < n
  <2>1. Nth(E, m) \in Int /\ Nth(E, n) \in Int /\ m \in Int /\ n \in Int
    <3>1. \A i \in E : i \in Int
      BY DEF Numbers
    <3>2. Nth(E, m) \in E /\ Nth(E, n) \in E
      BY <1>1
    <3> QED
      BY <3>1, <3>2
  <2>2. Nth(E, m) < Nth(E, n) => m < n
    BY <1>1, RankNumbers
  <2>3. Nth(E, n) < Nth(E, m) => n < m
    BY <1>1, RankNumbers
  <2>4. Nth(E, m) = Nth(E, n) => m = n
    BY <1>1
  <2> QED
    BY <2>1, <2>2, <2>3, <2>4
<1>4. ASSUME NEW m \in 1 .. Cardinality(E), NEW n \in 1 .. Cardinality(E), Nth(E, m) = Nth(E, n)
      PROVE  m = n
  BY <1>1, <1>4
<1> QED
  BY <1>1, <1>2, <1>3, <1>4

(* A number beyond all of them comes last... *)
LEMMA NthGrown ==
  ASSUME NEW E, Numbers(E), NEW e \in Int, \A k \in E : k < e, NEW G, G = E \cup {e}
  PROVE  /\ Numbers(G) /\ Cardinality(G) = Cardinality(E) + 1
         /\ \A n \in 1 .. Cardinality(E) : Nth(G, n) = Nth(E, n)
         /\ Nth(G, Cardinality(G)) = e
<1>1. e \notin E
  BY DEF Numbers
<1>2. Numbers(G) /\ Cardinality(G) = Cardinality(E) + 1
  BY <1>1, FS_AddElement DEF Numbers
<1>3. ASSUME NEW n \in 1 .. Cardinality(E) PROVE Nth(G, n) = Nth(E, n)
  <2>1. Nth(E, n) \in E /\ Nth(E, n) \in G /\ Cardinality(Upto(E, Nth(E, n))) = n
    BY NthNumbers
  <2>2. Upto(G, Nth(E, n)) = Upto(E, Nth(E, n))
    <3>1. Nth(E, n) < e /\ Nth(E, n) \in Int
      BY <2>1 DEF Numbers
    <3>2. ~(e <= Nth(E, n))
      BY <3>1
    <3> QED
      BY <3>2 DEF Upto
  <2> QED
    BY <1>2, <2>1, <2>2, NthNumbers
<1>4. Nth(G, Cardinality(G)) = e
  <2>1. e \in G /\ Upto(G, e) = G
    <3>1. \A k \in G : k <= e
      BY DEF Numbers
    <3> QED
      BY <3>1 DEF Upto
  <2> QED
    BY <1>2, <2>1, NthNumbers
<1> QED
  BY <1>2, <1>3, <1>4

(* ... without the least, every member moves up... *)
LEMMA NthShrunk ==
  ASSUME NEW E, Numbers(E), NEW e \in E, \A k \in E : e <= k, NEW D, D = E \ {e}
  PROVE  /\ Numbers(D) /\ Cardinality(E) = Cardinality(D) + 1
         /\ Nth(E, 1) = e
         /\ \A n \in 1 .. Cardinality(D) : Nth(D, n) = Nth(E, n + 1)
<1>1. Numbers(D) /\ Cardinality(D) = Cardinality(E) - 1
  BY FS_RemoveElement DEF Numbers
<1>2. Cardinality(E) = Cardinality(D) + 1
  BY <1>1, RankNumbers
<1>3. Nth(E, 1) = e
  <2>1. Upto(E, e) = {e}
    <3>1. \A k \in E : k \in Int
      BY DEF Numbers
    <3>2. \A k \in E : k <= e => k = e
      BY <3>1
    <3>3. e <= e
      BY <3>1
    <3> QED
      BY <3>2, <3>3 DEF Upto
  <2>2. Cardinality(Upto(E, e)) = 1
    BY <2>1, FS_Singleton
  <2> QED
    BY <2>2, NthNumbers
<1>4. ASSUME NEW n \in 1 .. Cardinality(D) PROVE Nth(D, n) = Nth(E, n + 1)
  <2> DEFINE j == Nth(D, n)
  <2>1. j \in D /\ j \in E /\ Cardinality(Upto(D, j)) = n
    BY <1>1, NthNumbers
  <2>2. Upto(E, j) = Upto(D, j) \cup {e} /\ e \notin Upto(D, j)
    BY <2>1 DEF Upto
  <2>3. IsFiniteSet(Upto(D, j))
    <3>1. Upto(D, j) \in SUBSET D
      BY DEF Upto
    <3> QED
      BY <1>1, <3>1, FS_Subset DEF Numbers
  <2>4. Cardinality(Upto(E, j)) = n + 1
    <3>1. Cardinality(Upto(D, j) \cup {e}) = Cardinality(Upto(D, j)) + 1
      BY <2>2, <2>3, FS_AddElement
    <3> QED
      BY <2>1, <2>2, <3>1
  <2> QED
    BY <2>1, <2>4, NthNumbers
<1> QED
  BY <1>1, <1>2, <1>3, <1>4

(* ... and numbers that all move by as much keep their order. *)
LEMMA NthShifted ==
  ASSUME NEW E, Numbers(E), NEW d \in Int, NEW D, D = {k - d : k \in E}
  PROVE  /\ Numbers(D) /\ Cardinality(D) = Cardinality(E)
         /\ \A n \in 1 .. Cardinality(E) : Nth(D, n) = Nth(E, n) - d
<1>1. ASSUME NEW S, S \in SUBSET Int, IsFiniteSet(S), NEW T, T = {k - d : k \in S}
      PROVE  T \in SUBSET Int /\ IsFiniteSet(T) /\ Cardinality(T) = Cardinality(S)
  <2> DEFINE f == [k \in S |-> k - d]
  <2>1. f \in [S -> T] /\ \A j, k \in S : f[j] = f[k] => j = k
    BY <1>1
  <2>2. \A t \in T : \E k \in S : f[k] = t
    BY <1>1
  <2>3. f \in Injection(S, T) /\ f \in Surjection(S, T)
    BY <2>1, <2>2 DEF Injection, IsInjective, Surjection
  <2>4. ExistsBijection(S, T)
    BY <2>3 DEF ExistsBijection, Bijection
  <2>5. T \in SUBSET Int
    BY <1>1
  <2> QED
    BY <1>1, <2>4, <2>5, FS_Bijection
<1>2. Numbers(D) /\ Cardinality(D) = Cardinality(E)
  BY <1>1 DEF Numbers
<1>3. ASSUME NEW n \in 1 .. Cardinality(E) PROVE Nth(D, n) = Nth(E, n) - d
  <2> DEFINE j == Nth(E, n)
  <2>1. j \in E /\ j \in Int /\ Cardinality(Upto(E, j)) = n
    BY NthNumbers DEF Numbers
  <2>2. Upto(D, j - d) = {k - d : k \in Upto(E, j)}
    BY <2>1 DEF Upto, Numbers
  <2>3. Upto(E, j) \in SUBSET Int /\ IsFiniteSet(Upto(E, j))
    <3>1. Upto(E, j) \in SUBSET E
      BY DEF Upto
    <3> QED
      BY <3>1, FS_Subset DEF Numbers
  <2>4. Cardinality(Upto(D, j - d)) = n
    BY <1>1, <2>1, <2>2, <2>3
  <2>5. j - d \in D
    BY <2>1
  <2> QED
    BY <1>2, <2>4, <2>5, NthNumbers
<1> QED
  BY <1>2, <1>3

-----------------------------------------------------------------------------
(* What has been handed over, oldest first, from the slot of dirty_tx on.      *)
Laid ==
    /\ Handed \in 0 .. NumTxDesc /\ Handed = Used + Shift
    /\ Live <= Used /\ Full <= Handed
    /\ \A j \in 1 .. Handed : At(j) \in Slots /\ Pos(At(j)) = NumTxDesc - Handed + j - 1
    /\ \A i, j \in Slots : Pos(i) = Pos(j) => i = j

(* That is where the numbering from cur_tx has it. *)
LEMMA LaidOut == IInv => Laid
<1> SUFFICES ASSUME IInv PROVE Laid
  OBVIOUS
<1>1. /\ TypeOK /\ InRing /\ Room /\ xm.frags \in Nat /\ xm.frags + 1 <= StopThrs
      /\ cur_tx \in Index /\ dirty_tx \in Index
  BY LocalTypes, Sizes DEF IInv, TypeOK
<1>2. Used \in 0 .. NumTxDesc /\ Live <= Used /\ Live \in Nat
  BY <1>1, AvailIsRest, RoomLeft DEF InRing, Live
<1>3. Shift \in 0 .. NumTxDesc - 1 /\ Used + Shift <= NumTxDesc
  <2>1. xpc = "publish" => Used + xm.frags + 1 <= NumTxDesc
    BY <1>1 DEF Room, Building
  <2> QED
    BY <1>1, <1>2, <2>1, PosNumbers, Sizes DEF Shift
<1>4. Handed = Used + Shift
  BY DEF Handed, Used, Shift
<1>5. Full = Live + Shift
  BY DEF Full
<1>6. ASSUME NEW j \in 1 .. Handed
      PROVE  At(j) \in Slots /\ Pos(At(j)) = NumTxDesc - Handed + j - 1
  <2> DEFINE m == j - 1
             d == dirty_tx % NumTxDesc
             c == cur_tx % NumTxDesc
             a == At(j)
  <2>1. m \in 0 .. NumTxDesc - 1 /\ m < Used + Shift /\ j \in Int
    BY <1>2, <1>3, <1>4, Sizes
  <2>2. dirty_tx \in Int /\ cur_tx \in Int /\ d \in Slots /\ c \in Slots
    <3>1. dirty_tx \in Int /\ cur_tx \in Int
      BY <1>1, Sizes DEF Index
    <3> QED
      BY <3>1, ModInSlots
  <2>3. a = IF d + m < NumTxDesc THEN d + m ELSE d + m - NumTxDesc
    <3>1. a = (dirty_tx + m) % NumTxDesc
      BY <2>1, <2>2 DEF At
    <3>2. m \in 0 .. NumTxDesc
      BY <2>1, Sizes
    <3> QED
      BY <2>2, <3>1, <3>2, AddMod
  <2>4. c = IF d + Used < NumTxDesc THEN d + Used ELSE d + Used - NumTxDesc
    <3>1. cur_tx = Wrap(dirty_tx + Used)
      BY <1>1, <1>2, Sizes DEF Used, Ahead, Wrap, Index
    <3> QED
      BY <1>1, <1>2, <3>1, Step
  <2>5. a \in Slots
    BY <2>1, <2>2, <2>3, Sizes DEF Slots
  <2>6. Off(a) = IF a >= c THEN a - c ELSE a - c + NumTxDesc
    BY DEF Off
  <2>7. Pos(a) = IF Off(a) >= Shift THEN Off(a) - Shift ELSE Off(a) - Shift + NumTxDesc
    BY DEF Pos
  <2> HIDE DEF m, d, c, a
  <2>8. Off(a) = IF m < Used THEN NumTxDesc - Used + m ELSE m - Used
    BY <1>2, <1>3, <2>1, <2>2, <2>3, <2>4, <2>5, <2>6, Sizes DEF Slots
  <2>9. Pos(a) = NumTxDesc - Handed + m
    BY <1>2, <1>3, <1>4, <2>1, <2>7, <2>8, Sizes
  <2> QED
    BY <2>1, <2>5, <2>9, <1>2, <1>3, <1>4, Sizes DEF a, m
<1>7. Handed \in 0 .. NumTxDesc /\ Full <= Handed
  BY <1>2, <1>3, <1>4, <1>5, Sizes
<1> QED
  BY <1>2, <1>4, <1>6, <1>7, PosNumbers DEF Laid

(* A packet that is held is among those handed over, or is about to be. *)
LEMMA EndsWhere ==
  ASSUME HInv
  PROVE  /\ Numbers(Ends) /\ Ends \in SUBSET (1 .. Handed)
         /\ \A j \in Ends : At(j) \in Slots /\ Given(At(j)) /\ j > Handed - Full
         /\ \A i, j \in Ends : At(i) = At(j) => i = j
         /\ \A i \in Slots : tx_skb[i] # NoSkb =>
               (\E j \in Ends : i = At(j)) \/ (xpc = "own" /\ Off(i) = xm.frags)
<1>1. /\ IInv /\ TypeOK /\ HeldInside /\ NumTxDesc \in Nat
      /\ xm.frags \in Nat /\ xm.frags + 1 <= StopThrs /\ StopThrs \in Nat
  BY LocalTypes, Sizes DEF HInv, IInv
<1>2. /\ Handed \in 0 .. NumTxDesc /\ Handed = Used + Shift /\ Live <= Used /\ Full <= Handed
      /\ Full \in Nat /\ Full <= NumTxDesc /\ Live \in Nat /\ Shift \in Nat /\ Used \in Nat /\ Full = Live + Shift
      /\ \A j \in 1 .. Handed : At(j) \in Slots /\ Pos(At(j)) = NumTxDesc - Handed + j - 1
      /\ Building => Live + xm.frags + 1 <= NumTxDesc
  BY <1>1, LaidOut, PosNumbers, RoomLeft, AvailIsRest DEF IInv, Laid
<1>3. Ends \in SUBSET (1 .. Handed)
  BY DEF Ends
<1>4. Numbers(Ends)
  <2>1. IsFiniteSet(1 .. Handed)
    BY <1>2, FS_Interval
  <2>2. \A j \in 1 .. Handed : j \in Int
    OBVIOUS
  <2> QED
    BY <1>3, <2>1, <2>2, FS_Subset DEF Numbers
<1>5. ASSUME NEW i \in Slots, tx_skb[i] # NoSkb
      PROVE  Given(i) \/ (xpc = "own" /\ Off(i) = xm.frags)
  <2>1. Off(i) >= NumTxDesc - Live \/ (xpc \in {"own", "publish"} /\ Off(i) = xm.frags)
    BY <1>1, <1>5 DEF HeldInside
  <2>2. /\ Off(i) \in 0 .. NumTxDesc - 1
        /\ Pos(i) = IF Off(i) >= Shift THEN Off(i) - Shift ELSE Off(i) - Shift + NumTxDesc
    BY <1>1, OffNumbers DEF Pos
  <2>3. xpc = "publish" => Shift = xm.frags + 1 /\ Live + xm.frags + 1 <= NumTxDesc
    BY <1>2 DEF Shift, Building
  <2>4. xpc # "publish" => Shift = 0
    BY DEF Shift
  <2>5. Pos(i) >= NumTxDesc - Full \/ (xpc = "own" /\ Off(i) = xm.frags)
    BY <1>1, <1>2, <2>1, <2>2, <2>3, <2>4
  <2> QED
    BY <2>5 DEF Given
<1>6. ASSUME NEW i \in Slots, tx_skb[i] # NoSkb, Given(i) PROVE \E j \in Ends : i = At(j)
  <2> DEFINE j == Pos(i) - (NumTxDesc - Handed) + 1
  <2>1. Pos(i) \in 0 .. NumTxDesc - 1 /\ Pos(i) >= NumTxDesc - Full
    BY <1>1, <1>6, PosNumbers DEF Given
  <2>2. j \in 1 .. Handed
    <3>1. Handed \in 0 .. NumTxDesc /\ Full <= Handed /\ Full \in Nat
      BY <1>2
    <3> QED
      BY <1>1, <2>1, <3>1
  <2>3. At(j) \in Slots /\ Pos(At(j)) = Pos(i)
    BY <1>1, <1>2, <2>1, <2>2
  <2>4. i = At(j)
    BY <1>1, <2>3, PosNumbers
  <2> QED
    BY <1>6, <2>2, <2>4 DEF Ends
<1>7. ASSUME NEW j \in Ends PROVE At(j) \in Slots /\ Given(At(j)) /\ j > Handed - Full
  <2>1. j \in 1 .. Handed /\ tx_skb[At(j)] # NoSkb /\ At(j) \in Slots
        /\ Pos(At(j)) = NumTxDesc - Handed + j - 1
    BY <1>2 DEF Ends
  <2>2. ~(xpc = "own" /\ Off(At(j)) = xm.frags)
    <3>1. xpc = "own" => Shift = 0 /\ Used + xm.frags + 1 <= NumTxDesc /\ Pos(At(j)) = Off(At(j))
      BY <1>1, <2>1, PosNumbers DEF IInv, Room, Building, HInv
    <3> QED
      BY <1>1, <1>2, <2>1, <3>1
  <2>3. Given(At(j))
    BY <1>5, <2>1, <2>2
  <2>4. j > Handed - Full
    BY <1>1, <1>2, <2>1, <2>3 DEF Given
  <2> QED
    BY <2>1, <2>3, <2>4
<1>8. ASSUME NEW i \in Ends, NEW j \in Ends, At(i) = At(j) PROVE i = j
  BY <1>1, <1>2, <1>3, <1>8
<1> QED
  BY <1>3, <1>4, <1>5, <1>6, <1>7, <1>8

-----------------------------------------------------------------------------
(* The two sides of the mapping: the sequence lists the packets of the ends    *)
(* in their order, and the set has those whose end the chip has given back.    *)
Bars ==
    /\ Numbers(Ends)
    /\ \A j \in Ends : tx_skb[At(j)] \in Skbs
    /\ \A i, j \in Ends : tx_skb[At(i)] = tx_skb[At(j)] => i = j
    /\ pendingBar \in Seq(Skbs) /\ Len(pendingBar) = Cardinality(Ends)
    /\ \A n \in 1 .. Cardinality(Ends) : \A k :
          k = Nth(Ends, n) => k \in Ends /\ pendingBar[n] = tx_skb[At(k)]
    /\ \A j \in Ends : \E n \in 1 .. Cardinality(Ends) : j = Nth(Ends, n)
    /\ goneBar = {tx_skb[At(j)] : j \in {k \in Ends : ~desc[At(k)].own}}

(* So they are wherever the books of the ring are in order. *)
LEMMA BarsAre == HInv => Bars
<1> SUFFICES ASSUME HInv PROVE Bars
  OBVIOUS
<1>1. /\ Numbers(Ends) /\ Ends \in SUBSET (1 .. Handed)
      /\ \A j \in Ends : At(j) \in Slots
      /\ \A i, j \in Ends : At(i) = At(j) => i = j
  BY EndsWhere
<1>2. \A j \in Ends : tx_skb[At(j)] # NoSkb /\ tx_skb[At(j)] \in Skbs
  <2>1. \A j \in Ends : tx_skb[At(j)] # NoSkb
    BY DEF Ends
  <2>2. \A i \in Slots : tx_skb[i] \in SkbOrNo
    BY DEF HInv, IInv, TypeOK
  <2> QED
    BY <1>1, <2>1, <2>2 DEF SkbOrNo
<1>3. ASSUME NEW i \in Ends, NEW j \in Ends, tx_skb[At(i)] = tx_skb[At(j)] PROVE i = j
  <2>1. At(i) = At(j)
    BY <1>1, <1>2, <1>3 DEF HInv, HeldOnce
  <2> QED
    BY <1>1, <2>1
<1>4. Cardinality(Ends) \in Nat
  BY <1>1, RankNumbers
<1>5. /\ \A n \in 1 .. Cardinality(Ends) : Nth(Ends, n) \in Ends
      /\ \A j \in Ends : \E n \in 1 .. Cardinality(Ends) : j = Nth(Ends, n)
  <2>1. \A j \in Ends : Cardinality(Upto(Ends, j)) \in 1 .. Cardinality(Ends)
    BY <1>1, RankNumbers
  <2> QED
    BY <1>1, <2>1, NthNumbers
<1>6. pendingBar = [n \in 1 .. Cardinality(Ends) |-> tx_skb[At(Nth(Ends, n))]]
  BY DEF pendingBar
<1>7. pendingBar \in Seq(Skbs) /\ Len(pendingBar) = Cardinality(Ends)
  <2>1. pendingBar \in [1 .. Cardinality(Ends) -> Skbs]
    BY <1>2, <1>5, <1>6
  <2> QED
    BY <1>4, <2>1
<1> QED
  BY <1>1, <1>2, <1>3, <1>5, <1>6, <1>7 DEF Bars, goneBar

(* A packet of the ring is gone when its end has been given back. *)
LEMMA GoneIs ==
  ASSUME Bars
  PROVE  /\ \A j \in Ends : tx_skb[At(j)] \in goneBar <=> ~desc[At(j)].own
         /\ \A s \in goneBar : \E j \in Ends : s = tx_skb[At(j)] /\ ~desc[At(j)].own
  BY DEF Bars

(* Where the packets stay in the ring, perhaps counted from another slot, and  *)
(* stay with the chip or with the driver, nothing happens to the queue.        *)
LEMMA SameBars ==
  ASSUME Bars, Bars', NEW d \in Int, Ends' = {k - d : k \in Ends},
         \A k \in Ends : /\ At(k - d)' = At(k) /\ tx_skb'[At(k)] = tx_skb[At(k)]
                         /\ desc'[At(k)].own = desc[At(k)].own
  PROVE  UNCHANGED <<pendingBar, goneBar>>
<1>1. /\ Numbers(Ends) /\ pendingBar \in Seq(Skbs) /\ Len(pendingBar) = Cardinality(Ends)
      /\ \A n \in 1 .. Cardinality(Ends) : \A k :
          k = Nth(Ends, n) => k \in Ends /\ pendingBar[n] = tx_skb[At(k)]
      /\ goneBar = {tx_skb[At(j)] : j \in {k \in Ends : ~desc[At(k)].own}}
  BY DEF Bars
<1>2. /\ pendingBar' \in Seq(Skbs) /\ Len(pendingBar') = Cardinality(Ends')
      /\ \A n \in 1 .. Cardinality(Ends') : \A k :
          k = Nth(Ends', n) => pendingBar'[n] = tx_skb'[At(k)']
      /\ goneBar' = {tx_skb'[At(j)'] : j \in {k \in Ends' : ~desc'[At(k)'].own}}
  BY DEF Bars, Nth
<1>3. /\ Cardinality(Ends') = Cardinality(Ends)
      /\ \A n \in 1 .. Cardinality(Ends) : Nth(Ends', n) = Nth(Ends, n) - d
  <2>1. PICK E, D : E = Ends /\ D = Ends'
    OBVIOUS
  <2>2. Numbers(E) /\ D = {k - d : k \in E}
    BY <1>1, <2>1
  <2>3. Cardinality(D) = Cardinality(E) /\ \A n \in 1 .. Cardinality(E) : Nth(D, n) = Nth(E, n) - d
    BY <2>2, NthShifted
  <2> QED
    BY <2>1, <2>3
<1>4. pendingBar' = pendingBar
  <2>1. ASSUME NEW n \in 1 .. Cardinality(Ends) PROVE pendingBar'[n] = pendingBar[n]
    <3>1. PICK k \in Ends : k = Nth(Ends, n) /\ pendingBar[n] = tx_skb[At(k)]
      BY <1>1
    <3>2. k - d = Nth(Ends', n)
      BY <1>3, <3>1
    <3>3. pendingBar'[n] = tx_skb'[At(k - d)']
      BY <1>2, <1>3, <3>2
    <3> QED
      BY <3>1, <3>3
  <2> QED
    BY <1>1, <1>2, <1>3, <2>1
<1>5. goneBar' = goneBar
  BY <1>1, <1>2
<1> QED
  BY <1>4, <1>5

(* Sequences are the same when their elements are... *)
LEMMA SameSeq ==
  ASSUME NEW S, NEW p \in Seq(S), NEW q \in Seq(S), Len(p) = Len(q),
         \A n \in 1 .. Len(p) : p[n] = q[n]
  PROVE  p = q
  OBVIOUS

(* ... and Append adds one behind the others. *)
LEMMA LongerSeq ==
  ASSUME NEW S, NEW q \in Seq(S), NEW s \in S
  PROVE  /\ Append(q, s) \in Seq(S) /\ Len(Append(q, s)) = Len(q) + 1
         /\ \A n \in 1 .. Len(q) + 1 : Append(q, s)[n] = IF n = Len(q) + 1 THEN s ELSE q[n]
  OBVIOUS

(* Head is the first of a sequence, and Tail moves the others up. *)
LEMMA ShorterSeq ==
  ASSUME NEW S, NEW q \in Seq(S), Len(q) >= 1
  PROVE  /\ q # <<>> /\ Head(q) = q[1]
         /\ Tail(q) \in Seq(S) /\ Len(Tail(q)) = Len(q) - 1
         /\ \A n \in 1 .. Len(q) - 1 : Tail(q)[n] = q[n + 1]
  OBVIOUS

(* A new end behind the others is a packet accepted. *)
LEMMA AcceptBars ==
  ASSUME Bars, Bars', NEW e \in Int, \A k \in Ends : k < e, Ends' = Ends \cup {e},
         \A k \in Ends : /\ At(k)' = At(k) /\ tx_skb'[At(k)] = tx_skb[At(k)]
                         /\ desc'[At(k)].own = desc[At(k)].own,
         desc'[At(e)'].own
  PROVE  \E s \in Skbs : Abstract!Accept(s)
<1>1. /\ Numbers(Ends) /\ pendingBar \in Seq(Skbs) /\ Len(pendingBar) = Cardinality(Ends)
      /\ \A n \in 1 .. Cardinality(Ends) : \A k :
          k = Nth(Ends, n) => k \in Ends /\ pendingBar[n] = tx_skb[At(k)]
      /\ goneBar = {tx_skb[At(j)] : j \in {k \in Ends : ~desc[At(k)].own}}
  BY DEF Bars
<1>2. /\ pendingBar' \in Seq(Skbs) /\ Len(pendingBar') = Cardinality(Ends')
      /\ \A n \in 1 .. Cardinality(Ends') : \A k :
          k = Nth(Ends', n) => pendingBar'[n] = tx_skb'[At(k)']
      /\ goneBar' = {tx_skb'[At(j)'] : j \in {k \in Ends' : ~desc'[At(k)'].own}}
      /\ \A j \in Ends' : tx_skb'[At(j)'] \in Skbs
      /\ \A i, j \in Ends' : tx_skb'[At(i)'] = tx_skb'[At(j)'] => i = j
  BY DEF Bars, Nth
<1>3. /\ Cardinality(Ends') = Cardinality(Ends) + 1
      /\ \A n \in 1 .. Cardinality(Ends) : Nth(Ends', n) = Nth(Ends, n)
      /\ Nth(Ends', Cardinality(Ends')) = e
      /\ Cardinality(Ends) \in Nat
  <2>1. Numbers(Ends)
    BY <1>1
  <2>2. Cardinality(Ends) \in Nat
    BY <2>1, RankNumbers
  <2>3. Cardinality(Ends') = Cardinality(Ends) + 1
    BY <2>1, NthGrown
  <2>4. \A n \in 1 .. Cardinality(Ends) : Nth(Ends', n) = Nth(Ends, n)
    BY <2>1, NthGrown
  <2>5. Nth(Ends', Cardinality(Ends')) = e
    BY <2>1, NthGrown
  <2> QED
    BY <2>2, <2>3, <2>4, <2>5
<1>4. e \in Ends' /\ e \notin Ends
  BY <1>1 DEF Numbers
<1> DEFINE s == tx_skb'[At(e)']
<1>5. s \in Skbs
  BY <1>2, <1>4
<1>6. ASSUME NEW n \in 1 .. Cardinality(Ends) PROVE pendingBar'[n] = pendingBar[n] /\ pendingBar[n] # s
  <2>1. PICK k \in Ends : k = Nth(Ends, n) /\ pendingBar[n] = tx_skb[At(k)]
    BY <1>1
  <2>2. k = Nth(Ends', n) /\ n \in 1 .. Cardinality(Ends') /\ k \in Ends' /\ k # e
    <3>1. k = Nth(Ends', n)
      BY <1>3, <2>1
    <3>2. n \in 1 .. Cardinality(Ends')
      BY <1>3
    <3>3. k \in Ends' /\ k # e
      BY <1>4, <2>1
    <3> QED
      BY <3>1, <3>2, <3>3
  <2>3. pendingBar'[n] = tx_skb'[At(k)']
    BY <1>2, <2>2
  <2> QED
    BY <1>2, <1>4, <2>1, <2>2, <2>3
<1>7. pendingBar'[Cardinality(Ends) + 1] = s
  <2>1. Cardinality(Ends') \in 1 .. Cardinality(Ends') /\ e = Nth(Ends', Cardinality(Ends'))
    BY <1>3
  <2>2. pendingBar'[Cardinality(Ends')] = tx_skb'[At(e)']
    BY <1>2, <2>1
  <2> QED
    BY <1>3, <2>2
<1>8. pendingBar' = Append(pendingBar, s)
  <2> HIDE DEF s
  <2>1. Len(pendingBar') = Len(pendingBar) + 1 /\ Len(pendingBar) = Cardinality(Ends)
    BY <1>1, <1>2, <1>3
  <2>2. /\ Append(pendingBar, s) \in Seq(Skbs) /\ Len(Append(pendingBar, s)) = Len(pendingBar) + 1
        /\ \A n \in 1 .. Len(pendingBar) + 1 :
              Append(pendingBar, s)[n] = IF n = Len(pendingBar) + 1 THEN s ELSE pendingBar[n]
    BY <1>1, <1>5, LongerSeq
  <2>3. ASSUME NEW n \in 1 .. Len(pendingBar) + 1 PROVE pendingBar'[n] = Append(pendingBar, s)[n]
    <3>1. n = Len(pendingBar) + 1 \/ n \in 1 .. Cardinality(Ends)
      BY <1>3, <2>1
    <3> QED
      BY <1>3, <1>6, <1>7, <2>1, <2>2, <3>1
  <2>4. pendingBar' \in Seq(Skbs)
    BY <1>2
  <2> QED
    BY <2>1, <2>2, <2>3, <2>4, SameSeq
<1>9. goneBar' = goneBar
  BY <1>1, <1>2, <1>4
<1>10. s \notin Abstract!Queued
  BY <1>1, <1>6 DEF Abstract!Queued
<1>11. Abstract!Accept(s)
  BY <1>8, <1>9, <1>10 DEF Abstract!Accept
<1> QED
  BY <1>5, <1>11

(* The chip gives back the oldest end it still has: a packet is transmitted. *)
LEMMA TransmitBars ==
  ASSUME Bars, Bars', NEW e \in Ends, Ends' = Ends,
         \A k \in Ends : /\ At(k)' = At(k) /\ tx_skb'[At(k)] = tx_skb[At(k)]
                         /\ k # e => desc'[At(k)].own = desc[At(k)].own
                         /\ desc[At(k)].own <=> e <= k,
         ~desc'[At(e)].own
  PROVE  Abstract!Transmit
<1>1. /\ Numbers(Ends) /\ pendingBar \in Seq(Skbs) /\ Len(pendingBar) = Cardinality(Ends)
      /\ \A n \in 1 .. Cardinality(Ends) : \A k :
          k = Nth(Ends, n) => k \in Ends /\ pendingBar[n] = tx_skb[At(k)]
      /\ \A j \in Ends : \E n \in 1 .. Cardinality(Ends) : j = Nth(Ends, n)
      /\ goneBar = {tx_skb[At(j)] : j \in {k \in Ends : ~desc[At(k)].own}}
  BY DEF Bars
<1>2. /\ pendingBar' \in Seq(Skbs) /\ Len(pendingBar') = Cardinality(Ends')
      /\ \A n \in 1 .. Cardinality(Ends') : \A k :
          k = Nth(Ends', n) => pendingBar'[n] = tx_skb'[At(k)']
      /\ goneBar' = {tx_skb'[At(j)'] : j \in {k \in Ends' : ~desc'[At(k)'].own}}
  BY DEF Bars, Nth
<1>3. pendingBar' = pendingBar
  <2>1. ASSUME NEW n \in 1 .. Cardinality(Ends) PROVE pendingBar'[n] = pendingBar[n]
    BY <1>1, <1>2
  <2> QED
    BY <1>1, <1>2, <2>1
<1>4. PICK i \in 1 .. Len(pendingBar) : e = Nth(Ends, i) /\ pendingBar[i] = tx_skb[At(e)]
  BY <1>1
<1>5. \A j \in 1 .. Cardinality(Ends) : \A k : k = Nth(Ends, j) => (k < e <=> j < i)
  BY <1>1, <1>4, NthNumbers
<1>6. ASSUME NEW k \in Ends PROVE ~desc[At(k)].own <=> k < e
  BY <1>1 DEF Numbers
<1>7. goneBar = {pendingBar[j] : j \in 1 .. i - 1}
  <2>1. ASSUME NEW s \in goneBar PROVE \E j \in 1 .. i - 1 : s = pendingBar[j]
    <3>1. PICK k \in Ends : s = tx_skb[At(k)] /\ ~desc[At(k)].own
      BY <1>1
    <3>2. PICK j \in 1 .. Cardinality(Ends) : k = Nth(Ends, j)
      BY <1>1
    <3>3. j < i /\ pendingBar[j] = s
      BY <1>1, <1>5, <1>6, <3>1, <3>2
    <3>4. j \in 1 .. i - 1
      BY <3>3
    <3> QED
      BY <3>3, <3>4
  <2>2. ASSUME NEW j \in 1 .. i - 1 PROVE pendingBar[j] \in goneBar
    <3>1. j \in 1 .. Cardinality(Ends) /\ j < i
      BY <1>1, <1>4
    <3>2. PICK k \in Ends : k = Nth(Ends, j) /\ pendingBar[j] = tx_skb[At(k)]
      BY <1>1, <3>1
    <3>3. ~desc[At(k)].own
      BY <1>5, <1>6, <3>1, <3>2
    <3> QED
      BY <1>1, <3>2, <3>3
  <2> QED
    BY <2>1, <2>2
<1>8. goneBar' = goneBar \cup {pendingBar[i]}
  BY <1>1, <1>2, <1>4
<1> QED
  BY <1>3, <1>4, <1>7, <1>8 DEF Abstract!Transmit

(* The oldest end, which the chip has given back, is reaped: a packet is released. *)
LEMMA ReleaseBars ==
  ASSUME Bars, Bars', NEW e \in Ends, \A k \in Ends : e <= k, ~desc[At(e)].own, Ends' = Ends \ {e},
         \A k \in Ends' : /\ At(k)' = At(k) /\ tx_skb'[At(k)] = tx_skb[At(k)]
                          /\ desc'[At(k)].own = desc[At(k)].own
  PROVE  Abstract!Release
<1>1. /\ Numbers(Ends) /\ pendingBar \in Seq(Skbs) /\ Len(pendingBar) = Cardinality(Ends)
      /\ \A n \in 1 .. Cardinality(Ends) : \A k :
          k = Nth(Ends, n) => k \in Ends /\ pendingBar[n] = tx_skb[At(k)]
      /\ goneBar = {tx_skb[At(j)] : j \in {k \in Ends : ~desc[At(k)].own}}
      /\ \A i, j \in Ends : tx_skb[At(i)] = tx_skb[At(j)] => i = j
  BY DEF Bars
<1>2. /\ pendingBar' \in Seq(Skbs) /\ Len(pendingBar') = Cardinality(Ends')
      /\ \A n \in 1 .. Cardinality(Ends') : \A k :
          k = Nth(Ends', n) => k \in Ends' /\ pendingBar'[n] = tx_skb'[At(k)']
      /\ goneBar' = {tx_skb'[At(j)'] : j \in {k \in Ends' : ~desc'[At(k)'].own}}
  BY DEF Bars, Nth
<1>3. /\ Cardinality(Ends) = Cardinality(Ends') + 1 /\ Cardinality(Ends') \in Nat
      /\ Nth(Ends, 1) = e
      /\ \A n \in 1 .. Cardinality(Ends') : Nth(Ends', n) = Nth(Ends, n + 1)
  <2>1. Numbers(Ends)
    BY <1>1
  <2>2. Numbers(Ends')
    BY <2>1, NthShrunk
  <2>3. Cardinality(Ends') \in Nat
    BY <2>2, RankNumbers
  <2>4. Cardinality(Ends) = Cardinality(Ends') + 1
    BY <2>1, NthShrunk
  <2>5. Nth(Ends, 1) = e
    BY <2>1, NthShrunk
  <2>6. \A n \in 1 .. Cardinality(Ends') : Nth(Ends', n) = Nth(Ends, n + 1)
    BY <2>1, NthShrunk
  <2> QED
    BY <2>3, <2>4, <2>5, <2>6
<1>4. pendingBar \in Seq(Skbs) /\ Len(pendingBar) = Cardinality(Ends') + 1 /\ Len(pendingBar) >= 1
  BY <1>1, <1>3
<1>5. /\ pendingBar # <<>> /\ Head(pendingBar) = pendingBar[1]
      /\ Tail(pendingBar) \in Seq(Skbs) /\ Len(Tail(pendingBar)) = Len(pendingBar) - 1
      /\ \A n \in 1 .. Len(pendingBar) - 1 : Tail(pendingBar)[n] = pendingBar[n + 1]
  BY <1>4, ShorterSeq
<1>6. pendingBar[1] = tx_skb[At(e)]
  <2>1. 1 \in 1 .. Cardinality(Ends) /\ e = Nth(Ends, 1)
    BY <1>3
  <2> QED
    BY <1>1, <2>1
<1>7. pendingBar' = Tail(pendingBar)
  <2>1. ASSUME NEW n \in 1 .. Cardinality(Ends') PROVE pendingBar'[n] = pendingBar[n + 1]
    <3>1. PICK k \in Ends' : k = Nth(Ends', n) /\ pendingBar'[n] = tx_skb'[At(k)']
      BY <1>2
    <3>2. n + 1 \in 1 .. Cardinality(Ends)
      BY <1>3
    <3>3. k = Nth(Ends, n + 1)
      BY <1>3, <3>1
    <3>4. k \in Ends /\ pendingBar[n + 1] = tx_skb[At(k)]
      BY <1>1, <3>2, <3>3
    <3> QED
      BY <3>1, <3>4
  <2>2. pendingBar' \in Seq(Skbs) /\ Len(pendingBar') = Cardinality(Ends')
    BY <1>2
  <2>3. Len(pendingBar') = Len(Tail(pendingBar)) /\ Cardinality(Ends') = Len(pendingBar) - 1
    BY <1>3, <1>4, <1>5, <2>2
  <2>4. \A n \in 1 .. Len(pendingBar') : pendingBar'[n] = Tail(pendingBar)[n]
    BY <1>5, <2>1, <2>2, <2>3
  <2> QED
    BY <1>5, <2>2, <2>3, <2>4, SameSeq
<1>8. tx_skb[At(e)] \in goneBar /\ goneBar' = goneBar \ {tx_skb[At(e)]}
  BY <1>1, <1>2
<1> QED
  BY <1>5, <1>6, <1>7, <1>8 DEF Abstract!Release

(* Without ends there is nothing left: the queue is flushed. *)
LEMMA FlushBars ==
  ASSUME Bars', Ends' = {}
  PROVE  Abstract!Flush
<1>1. /\ pendingBar' \in Seq(Skbs) /\ Len(pendingBar') = Cardinality(Ends')
      /\ goneBar' = {tx_skb'[At(j)'] : j \in {k \in Ends' : ~desc'[At(k)'].own}}
  BY DEF Bars
<1>2. Len(pendingBar') = 0
  BY <1>1, FS_EmptySet
<1>3. pendingBar' = <<>> /\ goneBar' = {}
  BY <1>1, <1>2
<1> QED
  BY <1>3 DEF Abstract!Flush

-----------------------------------------------------------------------------
(* Each step of the ring is a step of the queue, or none.                      *)
QueueSteps == [Abstract!Next]_(Abstract!qv)

(* A step that leaves both sides alone is a stutter. *)
LEMMA QueueStays ==
  ASSUME UNCHANGED <<pendingBar, goneBar>>
  PROVE  QueueSteps
  BY DEF QueueSteps, Abstract!qv

(* Nothing handed over is touched. *)
LEMMA StillBars ==
  ASSUME Bars, Bars', UNCHANGED dirty_tx, Handed' = Handed,
         \A j \in 1 .. Handed : /\ tx_skb'[At(j)] = tx_skb[At(j)]
                                /\ desc'[At(j)].own = desc[At(j)].own
  PROVE  QueueSteps
<1>1. \A j : At(j)' = At(j)
  BY DEF At
<1>2. Ends' = Ends /\ Ends \in SUBSET (1 .. Handed)
  BY <1>1 DEF Ends
<1>3. Ends = {k - 0 : k \in Ends} /\ \A k \in Ends : k - 0 = k
  <2>1. \A k \in Ends : k \in Int
    BY DEF Bars, Numbers
  <2>2. \A k \in Ends : k - 0 = k
    BY <2>1
  <2> QED
    BY <2>2
<1>4. 0 \in Int /\ Ends' = {k - 0 : k \in Ends}
  BY <1>2, <1>3
<1>5. \A k \in Ends : /\ At(k - 0)' = At(k) /\ tx_skb'[At(k)] = tx_skb[At(k)]
                      /\ desc'[At(k)].own = desc[At(k)].own
  BY <1>1, <1>2, <1>3
<1> QED
  BY <1>4, <1>5, SameBars, QueueStays

(* A step that leaves the ring itself alone touches nothing of it. *)
LEMMA IdleBars ==
  ASSUME Bars, Bars', UNCHANGED <<cur_tx, dirty_tx, tx_skb>>, Shift' = Shift,
         \A i \in Slots : desc'[i].own = desc[i].own, Laid
  PROVE  QueueSteps
<1>1. Handed' = Handed
  BY DEF Handed, Shift, Ahead, Wrap
<1>2. \A j \in 1 .. Handed : At(j) \in Slots
  BY DEF Laid
<1> QED
  BY <1>1, <1>2, StillBars

(* The packet being built is in none of those slots. *)
LEMMA BuiltAside ==
  ASSUME HInv, Laid, xpc \in {"head", "frag", "last", "own"}, NEW n \in 0 .. xm.frags, NEW j \in 1 .. Handed
  PROVE  Entry(n) # At(j)
<1>1. IInv /\ Building /\ Entry(n) \in Slots /\ Off(Entry(n)) = n
  BY Places DEF HInv, Building
<1>2. Pos(Entry(n)) = n /\ Shift = 0
  BY <1>1, PosNumbers DEF Shift
<1>3. Used + xm.frags + 1 <= NumTxDesc /\ NumTxDesc \in Nat /\ xm.frags \in Nat
  BY <1>1, Sizes, LocalTypes DEF IInv, Room
<1>4. Pos(At(j)) = NumTxDesc - Handed + j - 1 /\ Handed = Used + Shift /\ Handed \in 0 .. NumTxDesc
  BY DEF Laid
<1>5. Used \in Nat
  BY <1>1, AvailIsRest DEF IInv
<1> QED
  BY <1>2, <1>3, <1>4, <1>5

(* Building a packet is no business of the queue's... *)
LEMMA BuildingBars ==
  ASSUME SInv, SInv', Bars, Bars', Laid, XmitHead \/ XmitFrag \/ XmitMapFails \/ XmitLast
  PROVE  QueueSteps
<1>1. /\ HInv /\ IInv /\ TypeOK /\ Built /\ Building /\ xpc \in {"head", "frag", "last", "own"}
      /\ xm.frags \in 0 .. MaxSkbFrags /\ xm.k \in Nat /\ xm.entry \in Slots
      /\ UNCHANGED <<cur_tx, dirty_tx>> /\ MaxSkbFrags \in Nat
  <2>1. xpc \in {"head", "frag", "last", "own"} /\ UNCHANGED <<cur_tx, dirty_tx>>
    BY DEF XmitHead, XmitFrag, XmitMapFails, XmitLast
  <2> QED
    BY <2>1, LocalTypes, Sizes DEF SInv, HInv, IInv, Building
<1>2. Shift' = Shift
  BY DEF XmitHead, XmitFrag, XmitMapFails, XmitLast, Shift
<1>3. Handed' = Handed
  BY <1>1, <1>2 DEF Handed, Shift, Ahead, Wrap
<1>4. \A j \in 1 .. Handed : At(j) \in Slots
  BY DEF Laid
<1>5. \A i \in Slots : (\A n \in 0 .. xm.frags : i # Entry(n)) =>
          tx_skb'[i] = tx_skb[i] /\ desc'[i].own = desc[i].own
  <2> SUFFICES ASSUME NEW i \in Slots, \A n \in 0 .. xm.frags : i # Entry(n)
               PROVE  tx_skb'[i] = tx_skb[i] /\ desc'[i].own = desc[i].own
    OBVIOUS
  <2>0. /\ desc \in RingType /\ tx_skb \in [Slots -> SkbOrNo]
        /\ 0 \in 0 .. xm.frags /\ Entry(0) = xm.entry
    <3>1. 0 \in 0 .. xm.frags
      BY <1>1
    <3> QED
      BY <1>1, <3>1, Places DEF TypeOK
  <2>1. CASE XmitHead
    <3>1. desc' = TxMap(desc, xm.entry, xm.skb, FALSE) /\ tx_skb' = tx_skb /\ i # xm.entry
      BY <2>0, <2>1 DEF XmitHead
    <3> QED
      BY <2>0, <3>1 DEF TxMap, RingType
  <2>2. CASE XmitFrag
    <3>1. xm.k + 1 \in 0 .. xm.frags
      BY <1>1, <2>2 DEF XmitFrag, Built
    <3>2. desc' = TxMap(desc, Entry(xm.k + 1), xm.skb, TRUE) /\ tx_skb' = tx_skb /\ i # Entry(xm.k + 1)
      BY <2>2, <3>1 DEF XmitFrag
    <3> QED
      BY <2>0, <3>2 DEF TxMap, RingType
  <2>3. CASE XmitMapFails
    <3> DEFINE R == IF xpc = "head" THEN {}
                    ELSE MappedRange(cur_tx + 1, xm.k) \cup {xm.entry}
    <3>1. desc' = ClearDesc(R) /\ tx_skb' = ClearSkb(R) /\ xpc \in {"head", "frag"}
      BY <2>3 DEF XmitMapFails
    <3>2. ASSUME i \in R PROVE FALSE
      <4>1. xpc = "frag" /\ i \in MappedRange(cur_tx + 1, xm.k) \cup {xm.entry}
        BY <3>1, <3>2
      <4>2. \E j \in 0 .. xm.k : j \in 0 .. xm.frags /\ i = Entry(j)
        BY <1>1, <4>1, BackIsBuilt
      <4> QED
        BY <4>2
    <3> HIDE DEF R
    <3> QED
      BY <3>1, <3>2 DEF ClearDesc, ClearSkb
  <2>4. CASE XmitLast
    <3>1. /\ desc' = [desc EXCEPT ![Entry(xm.frags)].last = TRUE]
          /\ tx_skb' = [tx_skb EXCEPT ![Entry(xm.frags)] = xm.skb] /\ i # Entry(xm.frags)
      BY <1>1, <2>4 DEF XmitLast
    <3> QED
      BY <2>0, <3>1 DEF RingType
  <2> QED
    BY <2>1, <2>2, <2>3, <2>4
<1>6. \A j \in 1 .. Handed : /\ tx_skb'[At(j)] = tx_skb[At(j)]
                             /\ desc'[At(j)].own = desc[At(j)].own
  <2> TAKE j \in 1 .. Handed
  <2>1. \A n \in 0 .. xm.frags : At(j) # Entry(n)
    BY <1>1, BuiltAside
  <2> QED
    BY <1>4, <1>5, <2>1
<1> QED
  BY <1>1, <1>3, <1>6, StillBars

(* ... until its head is given to the chip, which queues it... *)
LEMMA OwnBars ==
  ASSUME SInv, Bars, Bars', Laid, Laid', XmitOwn
  PROVE  QueueSteps
<1>1. /\ HInv /\ IInv /\ TypeOK /\ Built /\ Building /\ xpc = "own" /\ xpc' = "publish"
      /\ xm.frags \in 0 .. MaxSkbFrags /\ xm.entry \in Slots /\ xm.skb \in Skbs
      /\ UNCHANGED <<cur_tx, dirty_tx, tx_skb, xm, rpc, rp>>
      /\ desc' = [desc EXCEPT ![xm.entry] = [@ EXCEPT !.own = TRUE, !.first = TRUE]]
      /\ NumTxDesc \in Nat /\ MaxSkbFrags \in Nat
  <2>1. /\ xpc = "own" /\ xpc' = "publish" /\ UNCHANGED <<cur_tx, dirty_tx, tx_skb, xm, rpc, rp>>
        /\ desc' = [desc EXCEPT ![xm.entry] = [@ EXCEPT !.own = TRUE, !.first = TRUE]]
    BY DEF XmitOwn, rvars
  <2>2. HInv /\ IInv /\ TypeOK /\ Built /\ Building
    BY <2>1 DEF SInv, HInv, IInv, Building
  <2>3. xm.skb \in Skbs
    BY <2>2 DEF Built
  <2> QED
    BY <2>1, <2>2, <2>3, LocalTypes, Sizes
<1> DEFINE F == xm.frags
<1>2. /\ Shift = 0 /\ Shift' = F + 1 /\ Used' = Used /\ Used \in Nat
      /\ Handed = Used /\ Handed' = Used + F + 1
      /\ Used + F + 1 <= NumTxDesc /\ F \in Nat
  <2>1. Shift = 0 /\ Shift' = F + 1 /\ Used' = Used
    BY <1>1 DEF Shift, Used, Ahead, Wrap
  <2>2. Used \in Nat
    BY <1>1, AvailIsRest DEF IInv
  <2>3. Used + F + 1 <= NumTxDesc /\ F \in Nat
    BY <1>1, Sizes, LocalTypes DEF IInv, Room
  <2>4. Handed = Used + Shift /\ Handed' = Used' + Shift'
    BY DEF Laid
  <2> QED
    BY <1>1, <2>1, <2>2, <2>3, <2>4
<1>3. \A j : At(j)' = At(j)
  BY <1>1 DEF At
<1>4. ASSUME NEW n \in 0 .. xm.frags, n <= F
      PROVE  /\ Used + n + 1 \in 1 .. Handed' /\ At(Used + n + 1) = Entry(n)
             /\ Entry(n) \in Slots /\ Off(Entry(n)) = n
  <2>1. Entry(n) \in Slots /\ Off(Entry(n)) = n
    BY <1>1, Places
  <2>2. PICK i : i = Entry(n)
    OBVIOUS
  <2>3. PICK j : j = Used + n + 1
    OBVIOUS
  <2>4. Off(i)' = n /\ i \in Slots'
    BY <1>1, <2>1, <2>2 DEF Off, Slots
  <2>5. Pos(i)' = NumTxDesc - F - 1 + n
    <3>1. Pos(i)' = IF Off(i)' >= Shift' THEN Off(i)' - Shift' ELSE Off(i)' - Shift' + NumTxDesc
      BY DEF Pos
    <3> QED
      BY <1>1, <1>2, <1>4, <2>4, <3>1
  <2>6. j \in 1 .. Handed'
    BY <1>1, <1>2, <1>4, <2>3
  <2>7. At(j)' \in Slots' /\ Pos(At(j))' = NumTxDesc - Handed' + j - 1
    BY <2>6 DEF Laid
  <2>8. Pos(At(j))' = Pos(i)'
    BY <1>1, <1>2, <2>3, <2>5, <2>7
  <2>9. PICK k : k = At(j)'
    OBVIOUS
  <2>10. Pos(k)' = Pos(i)' /\ k \in Slots'
    BY <2>7, <2>8, <2>9 DEF Pos, Off, Shift
  <2>11. k = i
    BY <2>4, <2>10 DEF Laid
  <2> QED
    BY <1>3, <2>1, <2>2, <2>3, <2>6, <2>9, <2>11
<1>5. PICK e : e = Used + F + 1
  OBVIOUS
<1>6. e \in Int /\ e = Handed' /\ e \in 1 .. Handed' /\ At(e) = Entry(F) /\ At(e)' = Entry(F)
  BY <1>1, <1>2, <1>3, <1>4, <1>5
<1>7. \A k \in Ends : k \in 1 .. Handed /\ k < e
  BY <1>1, <1>2, <1>5 DEF Ends
<1>8. tx_skb[Entry(F)] = xm.skb /\ xm.skb # NoSkb
  BY <1>1, TxRingAssumption DEF SInv, Region
<1>9. ASSUME NEW n \in 0 .. xm.frags, n < F PROVE tx_skb[Entry(n)] = NoSkb
  <2>1. Entry(n) \in Slots /\ Off(Entry(n)) = n
    BY <1>1, <1>4, <1>9
  <2>2. Live <= Used /\ Live \in Nat
    BY <1>1, RoomLeft DEF Laid
  <2> QED
    BY <1>1, <1>2, <1>9, <2>1, <2>2 DEF HInv, HeldInside
<1>10. Ends' = Ends \cup {e}
  <2>1. ASSUME NEW j \in 1 .. Handed', tx_skb[At(j)] # NoSkb, j \notin 1 .. Handed PROVE j = e
    <3>1. PICK n \in 0 .. xm.frags : n <= F /\ j = Used + n + 1
      <4>1. j - Used - 1 \in 0 .. xm.frags /\ j - Used - 1 <= F /\ j = Used + (j - Used - 1) + 1
        BY <1>1, <1>2, <2>1
      <4> QED
        BY <4>1
    <3>2. At(j) = Entry(n)
      BY <1>4, <3>1
    <3>3. ~(n < F)
      BY <1>9, <2>1, <3>2
    <3> QED
      BY <1>1, <1>5, <3>1, <3>3
  <2>2. \A j \in 1 .. Handed : j \in 1 .. Handed'
    BY <1>1, <1>2
  <2>3. Ends' = {j \in 1 .. Handed' : tx_skb[At(j)] # NoSkb}
    BY <1>1, <1>3 DEF Ends
  <2>4. tx_skb[At(e)] # NoSkb
    BY <1>6, <1>8
  <2>5. Ends = {j \in 1 .. Handed : tx_skb[At(j)] # NoSkb}
    BY DEF Ends
  <2> QED
    BY <1>6, <2>1, <2>2, <2>3, <2>4, <2>5
<1>11. desc \in RingType
  BY <1>1 DEF TypeOK
<1>12. \A k \in Ends : /\ At(k)' = At(k) /\ tx_skb'[At(k)] = tx_skb[At(k)]
                       /\ desc'[At(k)].own = desc[At(k)].own
  <2> TAKE k \in Ends
  <2>1. 0 \in 0 .. xm.frags /\ Entry(0) = xm.entry
    <3>1. 0 \in 0 .. xm.frags
      BY <1>1
    <3> QED
      BY <1>1, <3>1, Places
  <2>2. At(k) # xm.entry /\ At(k) \in Slots
    BY <1>1, <1>7, <2>1, BuiltAside DEF Laid
  <2> QED
    BY <1>1, <1>3, <1>11, <2>2 DEF RingType
<1>13. desc'[At(e)'].own
  <2>1. CASE F = 0
    <3>1. 0 \in 0 .. xm.frags /\ Entry(0) = xm.entry
      <4>1. 0 \in 0 .. xm.frags
        BY <1>1
      <4> QED
        BY <1>1, <4>1, Places
    <3>2. At(e)' = xm.entry
      BY <1>6, <2>1, <3>1
    <3> QED
      BY <1>1, <1>11, <3>2 DEF RingType, DescType
  <2>2. CASE F # 0
    <3>1. desc[Entry(F)].own
      <4>1. Reached = F /\ F \in 0 .. Reached /\ F > 0
        BY <1>1, <2>2 DEF Reached
      <4> QED
        BY <1>1, <4>1 DEF SInv, Region
    <3>2. Entry(F) \in Slots
      BY <1>1, <1>4
    <3> QED
      BY <1>1, <1>6, <1>11, <3>1, <3>2 DEF RingType, DescType
  <2> QED
    BY <2>1, <2>2
<1>14. \E s \in Skbs : Abstract!Accept(s)
  BY <1>6, <1>7, <1>10, <1>12, <1>13, AcceptBars
<1> QED
  BY <1>14 DEF QueueSteps, Abstract!Next

(* ... and cur_tx only says so. *)
LEMMA PublishBars ==
  ASSUME SInv, Bars, Bars', Laid, Laid', XmitPublish
  PROVE  QueueSteps
<1>1. /\ IInv /\ TypeOK /\ Building /\ xpc = "publish" /\ xpc' = "stop" /\ xm.frags \in 0 .. MaxSkbFrags
      /\ UNCHANGED <<dirty_tx, desc, tx_skb, xm>> /\ cur_tx' = Wrap(cur_tx + xm.frags + 1)
      /\ NumTxDesc \in Nat /\ MaxSkbFrags \in Nat /\ StopThrs = MaxSkbFrags + 1
  <2>1. /\ xpc = "publish" /\ xpc' = "stop" /\ UNCHANGED <<dirty_tx, desc, tx_skb, xm>>
        /\ cur_tx' = Wrap(cur_tx + xm.frags + 1)
    BY DEF XmitPublish
  <2>2. IInv /\ TypeOK /\ Building
    BY <2>1 DEF SInv, HInv, IInv, Building
  <2> QED
    BY <2>1, <2>2, LocalTypes, Sizes
<1>2. Used + xm.frags + 1 <= NumTxDesc /\ Used \in Nat
  BY <1>1, AvailIsRest DEF IInv, Room
<1>3. Used' = Used + (xm.frags + 1)
  <2>1. dirty_tx \in Index /\ cur_tx \in Index /\ xm.frags + 1 \in Nat /\ cur_tx \in Int
    BY <1>1, Sizes DEF TypeOK, Index
  <2>2. Ahead(dirty_tx, cur_tx) + (xm.frags + 1) <= NumTxDesc
    BY <1>1, <1>2 DEF Used
  <2>3. Ahead(dirty_tx, Wrap(cur_tx + (xm.frags + 1))) = Ahead(dirty_tx, cur_tx) + (xm.frags + 1)
    BY <2>1, <2>2, AheadGrows
  <2>4. cur_tx' = Wrap(cur_tx + (xm.frags + 1))
    BY <1>1, <2>1
  <2> QED
    BY <1>1, <2>3, <2>4 DEF Used, Ahead, Wrap
<1>4. Shift = xm.frags + 1 /\ Shift' = 0
  BY <1>1 DEF Shift
<1>5. Handed' = Handed
  BY <1>1, <1>2, <1>3, <1>4 DEF Laid
<1> QED
  BY <1>1, <1>5, StillBars

(* The reaper releases the oldest end, or a slot before it... *)
LEMMA ReapBars ==
  ASSUME SInv, Bars, Bars', Laid, ReapOne
  PROVE  QueueSteps
<1> DEFINE r == rp.d % NumTxDesc
<1>1. /\ HInv /\ IInv /\ TypeOK /\ r \in Slots /\ ~desc[r].own
      /\ UNCHANGED <<cur_tx, dirty_tx, xpc, xm>>
      /\ desc' = ClearDesc({r}) /\ tx_skb' = ClearSkb({r})
  <2>1. HInv /\ IInv /\ TypeOK
    BY DEF SInv, HInv, IInv
  <2>2. r \in Slots
    BY <2>1, LiveShrinks
  <2>3. /\ ~desc[r].own /\ UNCHANGED <<cur_tx, dirty_tx, xpc, xm>>
        /\ desc' = ClearDesc({r}) /\ tx_skb' = ClearSkb({r})
    BY DEF ReapOne, xvars
  <2> QED
    BY <2>1, <2>2, <2>3
<1>2. Off(r) = NumTxDesc - Live /\ Live >= 1 /\ Live \in Nat
  BY <1>1, LiveShrinks, RoomLeft
<1>3. /\ Full = Live + Shift /\ Full \in Nat /\ Full <= NumTxDesc /\ Shift \in 0 .. NumTxDesc - 1
      /\ NumTxDesc \in Nat
  BY <1>1, PosNumbers, Sizes
<1>4. Pos(r) = NumTxDesc - Full
  <2>1. Pos(r) = IF Off(r) >= Shift THEN Off(r) - Shift ELSE Off(r) - Shift + NumTxDesc
    BY DEF Pos
  <2> QED
    BY <1>2, <1>3, <2>1
<1>5. Handed \in 0 .. NumTxDesc /\ Full <= Handed
  BY DEF Laid
<1>6. PICK e : e = Handed - Full + 1
  OBVIOUS
<1>7. e \in 1 .. Handed /\ At(e) = r
  <2>1. e \in 1 .. Handed
    BY <1>2, <1>3, <1>5, <1>6
  <2>2. At(e) \in Slots /\ Pos(At(e)) = NumTxDesc - Handed + e - 1
    BY <2>1 DEF Laid
  <2>3. Pos(At(e)) = Pos(r)
    BY <1>3, <1>4, <1>5, <1>6, <2>2
  <2> QED
    BY <1>1, <2>1, <2>2, <2>3 DEF Laid
<1>8. \A k \in Ends : k \in 1 .. Handed /\ At(k) \in Slots /\ e <= k
  <2> TAKE k \in Ends
  <2>1. k \in 1 .. Handed /\ At(k) \in Slots /\ k > Handed - Full
    BY <1>1, EndsWhere
  <2> QED
    BY <1>3, <1>5, <1>6, <2>1
<1>9. \A j : At(j)' = At(j)
  BY <1>1 DEF At
<1>10. Handed' = Handed
  BY <1>1 DEF Handed, Ahead, Wrap
<1>11. \A i \in Slots : /\ tx_skb'[i] = IF i = r THEN NoSkb ELSE tx_skb[i]
                        /\ i # r => desc'[i] = desc[i]
  BY <1>1 DEF ClearDesc, ClearSkb
<1>12. \A k \in 1 .. Handed : At(k) \in Slots /\ (At(k) = r <=> k = e)
  <2> TAKE k \in 1 .. Handed
  <2>1. At(k) \in Slots /\ Pos(At(k)) = NumTxDesc - Handed + k - 1
    BY DEF Laid
  <2>2. Pos(At(e)) = NumTxDesc - Handed + e - 1
    BY <1>7 DEF Laid
  <2> QED
    BY <1>3, <1>5, <1>7, <2>1, <2>2
<1>13. Ends' = Ends \ {e}
  <2>1. \A j \in 1 .. Handed : tx_skb'[At(j)] # NoSkb <=> tx_skb[At(j)] # NoSkb /\ j # e
    BY <1>11, <1>12
  <2>2. Ends' = {j \in 1 .. Handed : tx_skb'[At(j)] # NoSkb}
    BY <1>9, <1>10 DEF Ends
  <2>3. Ends = {j \in 1 .. Handed : tx_skb[At(j)] # NoSkb}
    BY DEF Ends
  <2> QED
    BY <2>1, <2>2, <2>3
<1>14. \A k \in Ends : k # e => /\ At(k)' = At(k) /\ tx_skb'[At(k)] = tx_skb[At(k)]
                                /\ desc'[At(k)].own = desc[At(k)].own
  BY <1>8, <1>9, <1>11, <1>12
<1>15. CASE e \in Ends
  <2>1. Abstract!Release
    BY <1>1, <1>7, <1>8, <1>13, <1>14, <1>15, ReleaseBars
  <2> QED
    BY <2>1 DEF QueueSteps, Abstract!Next
<1>16. CASE e \notin Ends
  <2>1. tx_skb[r] = NoSkb
    BY <1>7, <1>16 DEF Ends
  <2>2. \A k \in Ends : k # e
    BY <1>16
  <2>3. Ends' = Ends
    BY <1>13, <1>16
  <2>4. \A k \in Ends : k - 0 = k
    BY <1>8
  <2>5. 0 \in Int /\ Ends' = {k - 0 : k \in Ends}
    BY <2>3, <2>4
  <2>6. \A k \in Ends : /\ At(k - 0)' = At(k) /\ tx_skb'[At(k)] = tx_skb[At(k)]
                        /\ desc'[At(k)].own = desc[At(k)].own
    BY <1>9, <1>14, <2>2, <2>4
  <2> QED
    BY <2>5, <2>6, SameBars, QueueStays
<1> QED
  BY <1>15, <1>16

(* ... and by publishing dirty_tx lets go of slots that hold nothing. *)
LEMMA RetireBars ==
  ASSUME SInv, Bars, Bars', Laid, Laid', ReapPublish
  PROVE  QueueSteps
<1>1. /\ HInv /\ IInv /\ TypeOK /\ rpc = "loop" /\ dirty_tx' = rp.d
      /\ UNCHANGED <<cur_tx, desc, tx_skb, xpc, xm>> /\ NumTxDesc \in Nat
  BY Sizes DEF ReapPublish, SInv, HInv, IInv, xvars
<1>2. Live = Ahead(rp.d, cur_tx) /\ Used' = Live /\ Shift' = Shift /\ Full = Live + Shift
  BY <1>1 DEF Live, Used, Ahead, Wrap, Shift, Full
<1>3. /\ Live \in Nat /\ Used \in Nat /\ Shift \in Nat /\ Live <= Used
      /\ Handed = Used + Shift /\ Handed' = Live + Shift /\ Handed \in 0 .. NumTxDesc
  <2>1. Live \in Nat /\ Used \in Nat /\ Shift \in 0 .. NumTxDesc - 1
    BY <1>1, RoomLeft, AvailIsRest, PosNumbers DEF IInv
  <2>2. Handed = Used + Shift /\ Handed' = Used' + Shift' /\ Live <= Used /\ Handed \in 0 .. NumTxDesc
    BY DEF Laid
  <2> QED
    BY <1>1, <1>2, <2>1, <2>2
<1>4. PICK d : d = Used - Live
  OBVIOUS
<1>5. d \in Nat /\ Handed' = Handed - d
  BY <1>3, <1>4
<1>6. \A i : Pos(i)' = Pos(i)
  BY <1>1, <1>2 DEF Pos, Off
<1>7. ASSUME NEW k \in 1 .. Handed, k > d PROVE k - d \in 1 .. Handed' /\ At(k - d)' = At(k)
  <2>1. PICK j : j = k - d
    OBVIOUS
  <2>2. j \in 1 .. Handed'
    BY <1>3, <1>5, <1>7, <2>1
  <2>3. At(j)' \in Slots' /\ Pos(At(j))' = NumTxDesc - Handed' + j - 1
    BY <2>2 DEF Laid
  <2>4. At(k) \in Slots /\ Pos(At(k)) = NumTxDesc - Handed + k - 1
    BY DEF Laid
  <2>5. PICK i : i = At(j)'
    OBVIOUS
  <2>6. Pos(i)' = NumTxDesc - Handed' + j - 1
    BY <2>3, <2>5 DEF Pos, Off, Shift
  <2>7. i \in Slots /\ Pos(i) = Pos(At(k))
    BY <1>1, <1>3, <1>5, <1>6, <2>1, <2>3, <2>4, <2>5, <2>6 DEF Slots
  <2>8. i = At(k)
    BY <2>4, <2>7 DEF Laid
  <2> QED
    BY <2>1, <2>2, <2>5, <2>8
<1>8. \A k \in Ends : k \in 1 .. Handed /\ k > d /\ k \in Int
  <2> TAKE k \in Ends
  <2>1. k \in 1 .. Handed /\ k > Handed - Full
    BY <1>1, EndsWhere
  <2> QED
    BY <1>2, <1>3, <1>4, <2>1
<1>9. Ends' = {k - d : k \in Ends}
  <2>1. Ends' = {j \in 1 .. Handed' : tx_skb[At(j)'] # NoSkb}
    BY <1>1 DEF Ends
  <2>2. ASSUME NEW k \in Ends PROVE k - d \in Ends'
    <3>1. k - d \in 1 .. Handed' /\ At(k - d)' = At(k) /\ tx_skb[At(k)] # NoSkb
      BY <1>7, <1>8 DEF Ends
    <3> QED
      BY <2>1, <3>1
  <2>3. ASSUME NEW j \in Ends' PROVE \E k \in Ends : j = k - d
    <3>1. j \in 1 .. Handed' /\ tx_skb[At(j)'] # NoSkb
      BY <2>1
    <3>2. PICK k : k = j + d
      OBVIOUS
    <3>3. k \in 1 .. Handed /\ k > d /\ j = k - d
      BY <1>3, <1>5, <3>1, <3>2
    <3>4. At(j)' = At(k)
      BY <1>7, <3>3
    <3>5. k \in Ends
      BY <3>1, <3>3, <3>4 DEF Ends
    <3> QED
      BY <3>3, <3>5
  <2> QED
    BY <2>2, <2>3
<1>10. d \in Int
  BY <1>5
<1>11. \A k \in Ends : /\ At(k - d)' = At(k) /\ tx_skb'[At(k)] = tx_skb[At(k)]
                       /\ desc'[At(k)].own = desc[At(k)].own
  BY <1>1, <1>7, <1>8
<1> QED
  BY <1>9, <1>10, <1>11, SameBars, QueueStays

(* The chip sends the oldest packet it has, or a part of it. *)
LEMMA SendBars ==
  ASSUME SInv, Bars, Bars', Laid, NicSend
  PROVE  QueueSteps
<1>1. /\ HInv /\ IInv /\ TypeOK /\ nic.on /\ nic.pos \in Slots /\ desc[nic.pos].own
      /\ UNCHANGED <<cur_tx, dirty_tx, tx_skb, xpc, xm>>
      /\ desc' = [desc EXCEPT ![nic.pos].own = FALSE] /\ desc \in RingType /\ NumTxDesc \in Nat
  BY Sizes DEF NicSend, SInv, HInv, IInv, TypeOK, xvars
<1>2. \A j : At(j)' = At(j)
  BY <1>1 DEF At
<1>3. Handed' = Handed
  BY <1>1 DEF Handed, Ahead, Wrap
<1>4. \A k \in Ends : /\ k \in 1 .. Handed /\ At(k) \in Slots /\ Given(At(k)) /\ k \in Int
                      /\ Pos(At(k)) = NumTxDesc - Handed + k - 1
  BY <1>1, EndsWhere DEF Laid
<1>5. \A i \in Slots : /\ i # nic.pos => desc'[i] = desc[i]
                       /\ ~desc'[nic.pos].own
  BY <1>1 DEF RingType, DescType
<1>6. CASE \E e \in Ends : At(e) = nic.pos
  <2>1. PICK e \in Ends : At(e) = nic.pos
    BY <1>6
  <2>2. Handed \in 0 .. NumTxDesc
    BY DEF Laid
  <2>3. \A k \in Ends : desc[At(k)].own <=> e <= k
    <3> TAKE k \in Ends
    <3>1. e <= k <=> Pos(nic.pos) <= Pos(At(k))
      BY <1>1, <1>4, <2>1, <2>2
    <3>2. desc[At(k)].own => Pos(nic.pos) <= Pos(At(k))
      BY <1>1, <1>4 DEF SInv, Chip
    <3>3. Pos(At(k)) >= Pos(nic.pos) => desc[At(k)].own
      BY <1>1, <1>4 DEF SInv, Chip
    <3>4. Pos(nic.pos) \in Int /\ Pos(At(k)) \in Int
      BY <1>1, <1>4, PosNumbers
    <3> QED
      BY <3>1, <3>2, <3>3, <3>4
  <2>4. \A k \in Ends : k # e => At(k) # nic.pos
    BY <1>1, <2>1, EndsWhere
  <2>5. Ends' = Ends
    BY <1>1, <1>2, <1>3 DEF Ends
  <2>6. ~desc'[At(e)].own
    BY <1>1, <1>5, <2>1
  <2>7. \A k \in Ends : /\ At(k)' = At(k) /\ tx_skb'[At(k)] = tx_skb[At(k)]
                        /\ k # e => desc'[At(k)].own = desc[At(k)].own
                        /\ desc[At(k)].own <=> e <= k
    BY <1>1, <1>2, <1>4, <1>5, <2>3, <2>4
  <2>8. Abstract!Transmit
    BY <2>5, <2>6, <2>7, TransmitBars
  <2> QED
    BY <2>8 DEF QueueSteps, Abstract!Next
<1>7. CASE \A e \in Ends : At(e) # nic.pos
  <2>1. Ends' = Ends
    BY <1>1, <1>2, <1>3 DEF Ends
  <2>2. \A k \in Ends : k - 0 = k
    BY <1>4
  <2>3. 0 \in Int /\ Ends' = {k - 0 : k \in Ends}
    BY <2>1, <2>2
  <2>4. \A k \in Ends : /\ At(k - 0)' = At(k) /\ tx_skb'[At(k)] = tx_skb[At(k)]
                        /\ desc'[At(k)].own = desc[At(k)].own
    BY <1>1, <1>2, <1>4, <1>5, <1>7, <2>2
  <2> QED
    BY <2>3, <2>4, SameBars, QueueStays
<1> QED
  BY <1>6, <1>7

(* The teardown flushes the queue. *)
LEMMA ClearBars ==
  ASSUME SInv, SInv', Bars', ResetTxClear \/ ResetIndexes
  PROVE  QueueSteps
<1>1. \A i \in Slots : tx_skb'[i] = NoSkb
  <2>1. CASE ResetTxClear
    <3>1. spc' = "index" /\ Slots' = Slots
      BY <2>1 DEF ResetTxClear, Slots
    <3> QED
      BY <3>1 DEF SInv, HInv, Emptied
  <2>2. CASE ResetIndexes
    <3>1. spc = "index" /\ tx_skb' = tx_skb
      BY <2>2 DEF ResetIndexes
    <3> QED
      BY <3>1 DEF SInv, HInv, Emptied
  <2> QED
    BY <2>1, <2>2
<1>2. dirty_tx' \in Int
  BY Sizes DEF SInv, HInv, IInv, TypeOK, Index
<1>3. \A j \in Int : At(j)' \in Slots
  BY <1>2, ModInSlots DEF At
<1>4. \A j \in Ends' : j \in Int
  BY DEF Bars, Numbers
<1>5. \A j \in Ends' : tx_skb'[At(j)'] # NoSkb
  BY DEF Ends
<1>6. Ends' = {}
  BY <1>1, <1>3, <1>4, <1>5
<1>7. Abstract!Flush
  BY <1>6, FlushBars
<1> QED
  BY <1>7 DEF QueueSteps, Abstract!Next

(* Every step of the ring, then. *)
LEMMA QueueNext ==
  ASSUME Still, SInv, SInv', [Next]_vars
  PROVE  QueueSteps
<1>1. Bars /\ Bars' /\ Laid /\ Laid'
  <2>1. HInv /\ HInv' /\ IInv /\ IInv'
    BY DEF SInv, HInv
  <2>2. HInv' => Bars'
    BY BarsAre, PTL
  <2>3. IInv' => Laid'
    BY LaidOut, PTL
  <2> QED
    BY <2>1, <2>2, <2>3, BarsAre, LaidOut
<1>2. IInv /\ IInv'
  BY DEF SInv, HInv
<1>3. ASSUME UNCHANGED <<cur_tx, dirty_tx, tx_skb, desc>>, Shift' = Shift PROVE QueueSteps
  BY <1>1, <1>3, IdleBars
<1>4. ASSUME XmitStart \/ XmitBusy \/ XmitMaybeStop \/ XmitStop \/ XmitRecheck \/ XmitBell
      PROVE  QueueSteps
  <2>1. UNCHANGED <<cur_tx, dirty_tx, tx_skb, desc>> /\ xpc # "publish" /\ xpc' # "publish"
    <3>1. CASE XmitStart
      <4>1. UNCHANGED ring /\ xpc = "idle" /\ xpc' \in {"busy", "head"}
        BY <3>1 DEF XmitStart, XmitBegin
      <4> QED
        BY <4>1 DEF ring
    <3>2. CASE XmitBusy \/ XmitMaybeStop \/ XmitStop \/ XmitRecheck \/ XmitBell
      BY <3>2 DEF XmitBusy, XmitMaybeStop, XmitStop, XmitRecheck, XmitBell, ring
    <3> QED
      BY <1>4, <3>1, <3>2
  <2> QED
    BY <1>3, <2>1 DEF Shift
<1>5. ASSUME \/ ReapBegin \/ ReapComplete \/ ReapWake \/ ReapKick \/ NicSleep \/ LinkUp \/ UNCHANGED vars
             \/ \E k \in ResetKinds : ResetBegin(k)
             \/ ResetDetached \/ ResetStopQueue \/ ResetNapiDisable \/ ResetSync \/ ResetHw
             \/ ResetHwStart \/ ResetWakeQueue
      PROVE  QueueSteps
  <2>1. UNCHANGED <<cur_tx, dirty_tx, tx_skb, desc, xpc, xm>>
    BY <1>5 DEF ReapBegin, ReapComplete, ReapWake, ReapKick, NicSleep, LinkUp, vars, ResetBegin,
         ResetDetached, ResetStopQueue, ResetNapiDisable, ResetSync, ResetHw, ResetHwStart, ResetWakeQueue,
         ring, xvars
  <2> QED
    BY <1>3, <2>1 DEF Shift
<1>6. ASSUME XmitHead \/ XmitFrag \/ XmitMapFails \/ XmitLast PROVE QueueSteps
  BY <1>1, <1>6, BuildingBars
<1>7. ASSUME XmitOwn PROVE QueueSteps
  BY <1>1, <1>7, OwnBars
<1>8. ASSUME XmitPublish PROVE QueueSteps
  BY <1>1, <1>8, PublishBars
<1>9. ASSUME ReapOne PROVE QueueSteps
  BY <1>1, <1>9, ReapBars
<1>10. ASSUME ReapPublish PROVE QueueSteps
  BY <1>1, <1>10, RetireBars
<1>11. ASSUME NicSend PROVE QueueSteps
  BY <1>1, <1>11, SendBars
<1>12. ASSUME ResetTxClear \/ ResetIndexes PROVE QueueSteps
  BY <1>1, <1>12, ClearBars
<1> QED
  BY <1>4, <1>5, <1>6, <1>7, <1>8, <1>9, <1>10, <1>11, <1>12 DEF Next, Xmit, Reap, Reset

(* The ring implements the safety part of TxQueue, for every size, number of   *)
(* fragments and set of packets, failed mappings, close and reopen included:   *)
(* packets are sent and released in the order of start_xmit, each once, or     *)
(* flushed by the teardown.                                                    *)
THEOREM RingIsQueue ==
  ASSUME Still
  PROVE  Spec => Abstract!Safety
<1>1. Init => SInv
  BY Still, MeetsInit
<1>2. SInv /\ [Next]_vars => SInv'
  BY Still, MeetsNext
<1>3. Init => Abstract!Init
  <2> SUFFICES ASSUME Init PROVE Abstract!Init
    OBVIOUS
  <2>1. SInv /\ Bars
    BY <1>1, BarsAre DEF SInv
  <2>2. \A i \in Slots : tx_skb[i] = NoSkb
    BY DEF Init
  <2>3. Handed = 0
    BY Sizes DEF Init, Handed, Ahead, Wrap
  <2>4. Ends = {}
    BY <2>3 DEF Ends
  <2>5. pendingBar \in Seq(Skbs) /\ Len(pendingBar) = 0
    BY <2>1, <2>4, FS_EmptySet DEF Bars
  <2>6. pendingBar = <<>> /\ goneBar = {}
    BY <2>4, <2>5 DEF goneBar
  <2> QED
    BY <2>6 DEF Abstract!Init
<1>4. SInv /\ SInv' /\ [Next]_vars => [Abstract!Next]_(Abstract!qv)
  BY Still, QueueNext DEF QueueSteps
<1> QED
  BY <1>1, <1>2, <1>3, <1>4, PTL DEF Spec, Abstract!Safety
=============================================================================
