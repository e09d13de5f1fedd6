--------------------------- MODULE IrqNapi_proofs ---------------------------
(***************************************************************************)
(* Proofs about IrqNapi, for every set of devices and every bound: that    *)
(* the teardown is left alone; and, when a handler is not held up for a    *)
(* whole poll or reset, that no event is lost.                             *)
(***************************************************************************)
EXTENDS IrqNapi, TLAPS

(* NAPIF_STATE_SCHED belongs to one at a time: the handler that set it, the  *)
(* poll list, the poll, or the thread that disabled the instance.            *)
HandlerOwns == hpc \in {"mask", "schedule"}
ListOwns    == queued = TRUE
PollOwns    == ppc \in {"tx", "rx", "complete", "full"}
ResetOwns   == spc \in {"sync", "synced", "mask", "ack", "hw", "enable"}

OneOwner ==
    /\ sched = TRUE <=> HandlerOwns \/ ListOwns \/ PollOwns \/ ResetOwns
    /\ HandlerOwns => ~ListOwns /\ ~PollOwns /\ ~ResetOwns
    /\ ListOwns => ~PollOwns /\ ~ResetOwns
    /\ PollOwns => ~ResetOwns

(* The grace period: the poll that only has to unmask yet is waited for.     *)
Waited ==
    /\ spc = "synced" /\ ppc = "enable" => "poll" \in awaits
    /\ spc \in {"mask", "ack", "hw", "enable"} => ppc = "idle"
    /\ spc \in {"ack", "hw", "enable"} => mask = FALSE
    /\ disable = TRUE <=> spc = "wait"

IInv == TypeOK /\ OneOwner /\ Waited

(* What is still to come that will look at, or drop, whatever there is.       *)
Coming ==
    \/ pending = TRUE \/ spc # "idle" \/ queued = TRUE
    \/ PollOwns /\ missed = TRUE

(* The same for one event, which the poll may have left to do.                *)
WillLook(e) ==
    \/ Coming
    \/ ppc \in {"tx", "full"}
    \/ e = "rx" /\ ppc = "rx"

Acked ==
    /\ hpc = "ack" => Coming
    /\ hpc \in {"report", "prep", "mask", "schedule", "ack"} =>
          st # {} /\ (st \subseteq status \/ spc = "hw")

Looked == \A e \in Polled : e \in work => e \in status \/ WillLook(e)

Stopped == spc \in {"enable", "start"} => work \cap Polled = {}

(* Whoever masked the interrupt is still about to unmask it, and a line that  *)
(* is up has sent its message.                                                *)
Unmasks ==
    /\ mask = TRUE \/ sched = TRUE \/ ppc = "enable" \/ spc # "idle"
    /\ Msi /\ Line => msg = TRUE \/ hpc # "idle" \/ stuck = TRUE

(* A handler that told the phy of a link change is over before the phy looks. *)
Told ==
    hpc \in {"prep", "mask", "schedule", "ack"} /\ "link" \in st /\ "sys" \notin st
        => phyq = TRUE

LInv == Acked /\ Looked /\ Stopped /\ Unmasks /\ Told /\ NoSilentLink

-----------------------------------------------------------------------------
(* Every step by the action that takes it. *)
AnyStep ==
    \/ \E e \in irq_mask : ChipEvent(e)
    \/ IrqEnter \/ IrqRead \/ IrqReport \/ PhyWork \/ IrqPrep \/ IrqMask
    \/ IrqSchedule \/ IrqAck \/ PollBegin \/ PollTx \/ PollRx \/ PollComplete
    \/ PollFull \/ PollEnable \/ ResetBegin \/ NapiDisable \/ NapiDisabled \/ Sync
    \/ Synced \/ MaskAll \/ AckAll \/ HwReset \/ NapiEnable \/ HwStart

(* A step is one of those the proofs take one by one.                        *)
LEMMA Steps == ASSUME Next PROVE AnyStep
BY DEF Next, Irq, Poll, Reset, AnyStep

(* The values the variables may have, and what is known of a device. *)
Typed ==
    /\ setup \in Setups /\ status \subseteq irq_mask /\ work \subseteq irq_mask
    /\ mask \in BOOLEAN /\ msg \in BOOLEAN /\ stuck \in BOOLEAN
    /\ st \subseteq irq_mask
    /\ sched \in BOOLEAN /\ missed \in BOOLEAN /\ disable \in BOOLEAN
    /\ queued \in BOOLEAN /\ pending \in BOOLEAN /\ missedlink \in BOOLEAN /\ phyq \in BOOLEAN
    /\ hpc \in {"idle", "read", "report", "prep", "mask", "schedule", "ack"}
    /\ ppc \in {"idle", "tx", "rx", "complete", "full", "enable"}
    /\ spc \in {"idle", "disable", "wait", "sync", "synced", "mask", "ack", "hw",
                "enable", "start"}
    /\ awaits \subseteq {"handler", "poll"}
    /\ bounds \in [{"events", "full", "shared", "resets"} -> Nat]

(* The types, and that only a scheduled poll is on the list, are TypeOK.     *)
LEMMA TypedIsTypeOK == ASSUME Typed, queued = TRUE => sched = TRUE PROVE TypeOK
BY DEF Typed, TypeOK

(* The values that describe the devices.                                     *)
LEMMA SetupType ==
    ASSUME Typed
    PROVE  Msi \in BOOLEAN /\ Shared \in BOOLEAN /\ irq_mask \subseteq {"rx", "tx", "link", "over", "sys"}
BY IrqAssumption DEF Typed, Msi, Shared, irq_mask

(* For the provers: FALSE is a Boolean.                                      *)
LEMMA FalseIsBoolean == \A x : x = FALSE => x \in BOOLEAN
OBVIOUS

(* A bound counts up.                                                        *)
LEMMA CountType ==
    ASSUME Typed, NEW b \in {"events", "full", "shared", "resets"}, NEW m, Count(b, m)
    PROVE  bounds' \in [{"events", "full", "shared", "resets"} -> Nat]
BY DEF Typed, Count

(* Every step keeps the types.                                               *)
LEMMA TypedStep == ASSUME Typed, [Next]_vars PROVE Typed'
<1> USE DEF Typed, irq_mask, Msi, chip, hvars, napi, svars, Line
<1>1. CASE UNCHANGED vars
  BY <1>1 DEF vars
<1>2. ASSUME NEW e \in irq_mask, ChipEvent(e) PROVE Typed'
  BY <1>2, CountType DEF ChipEvent, SetIntr
<1>3. CASE IrqEnter
  BY <1>3, CountType, FalseIsBoolean DEF IrqEnter
<1>4. CASE IrqRead
  <2>1. /\ UNCHANGED <<setup, chip, sched, missed, disable, queued, ppc, spc, pending, missedlink>>
        /\ UNCHANGED <<phyq, bounds>>
    BY <1>4 DEF IrqRead
  <2>2. st' \subseteq irq_mask /\ hpc' \in {"idle", "report"}
    BY <1>4 DEF IrqRead, HandlerReturns
  <2>3. awaits' \subseteq {"handler", "poll"}
    BY <1>4 DEF IrqRead, HandlerReturns
  <2> QED BY <2>1, <2>2, <2>3
<1>5. CASE IrqReport
  BY <1>5 DEF IrqReport
<1>6. CASE PhyWork
  BY <1>6, FalseIsBoolean DEF PhyWork
<1>7. CASE IrqPrep
  <2>1. CASE sched \/ disable
    BY <1>7, <2>1, FalseIsBoolean DEF IrqPrep
  <2>2. CASE ~(sched \/ disable)
    BY <1>7, <2>2, FalseIsBoolean DEF IrqPrep
  <2> QED BY <2>1, <2>2
<1>8. CASE IrqMask
  BY <1>8, FalseIsBoolean DEF IrqMask, SetIntr
<1>9. CASE IrqSchedule
  BY <1>9 DEF IrqSchedule
<1>10. CASE IrqAck
  BY <1>10 DEF IrqAck, SetIntr, HandlerReturns
<1>11. CASE PollBegin
  BY <1>11, FalseIsBoolean DEF PollBegin
<1>12. CASE PollTx
  BY <1>12 DEF PollTx
<1>13. CASE PollRx
  BY <1>13, CountType DEF PollRx
<1>14. CASE PollComplete
  <2>1. UNCHANGED <<setup, chip, hpc, st, disable, spc, pending, missedlink, phyq, bounds>>
    BY <1>14 DEF PollComplete
  <2>2. /\ sched' \in BOOLEAN /\ queued' \in BOOLEAN /\ ppc' \in {"idle", "enable"}
        /\ awaits' \subseteq {"handler", "poll"}
    <3>1. CASE missed
      BY <1>14, <3>1, FalseIsBoolean DEF PollComplete, PollReturns
    <3>2. CASE ~(missed)
      BY <1>14, <3>2, FalseIsBoolean DEF PollComplete, PollReturns
    <3> QED BY <3>1, <3>2
  <2>3. missed' \in BOOLEAN
    BY <1>14, FalseIsBoolean DEF PollComplete
  <2> QED BY <2>1, <2>2, <2>3
<1>15. CASE PollFull
  <2>1. UNCHANGED <<setup, chip, hpc, st, disable, spc, pending, missedlink, phyq, bounds>>
    BY <1>15 DEF PollFull
  <2>2. /\ sched' \in BOOLEAN /\ queued' \in BOOLEAN /\ ppc' \in {"idle", "enable"}
        /\ awaits' \subseteq {"handler", "poll"}
    <3>1. CASE disable /\ ~missed
      BY <1>15, <3>1, FalseIsBoolean DEF PollFull, PollReturns
    <3>2. CASE ~(disable /\ ~missed)
      BY <1>15, <3>2, FalseIsBoolean DEF PollFull, PollReturns
    <3> QED BY <3>1, <3>2
  <2>3. missed' \in BOOLEAN
    BY <1>15, FalseIsBoolean DEF PollFull
  <2> QED BY <2>1, <2>2, <2>3
<1>16. CASE PollEnable
  BY <1>16 DEF PollEnable, SetIntr, PollReturns
<1>17. CASE ResetBegin
  BY <1>17, CountType, FalseIsBoolean DEF ResetBegin
<1>18. CASE NapiDisable
  BY <1>18 DEF NapiDisable
<1>19. CASE NapiDisabled
  BY <1>19, FalseIsBoolean DEF NapiDisabled
<1>20. CASE Sync
  BY <1>20 DEF Sync
<1>21. CASE Synced
  BY <1>21 DEF Synced
<1>22. CASE MaskAll
  BY <1>22, FalseIsBoolean DEF MaskAll, SetIntr
<1>23. CASE AckAll
  BY <1>23 DEF AckAll, SetIntr
<1>24. CASE HwReset
  <2>1. CASE SetIntr(status, mask) /\ UNCHANGED missedlink
    BY <1>24, <2>1, FalseIsBoolean DEF HwReset, SetIntr
  <2>2. CASE SetIntr({}, mask) /\ missedlink' = (missedlink \/ "link" \in status)
    BY <1>24, <2>2, FalseIsBoolean DEF HwReset, SetIntr
  <2> QED BY <2>1, <2>2, <1>24 DEF HwReset
<1>25. CASE NapiEnable
  BY <1>25, FalseIsBoolean DEF NapiEnable
<1>26. CASE HwStart
  BY <1>26 DEF HwStart, SetIntr
<1> QED BY <1>1, <1>2, <1>3, <1>4, <1>5, <1>6, <1>7, <1>8, <1>9, <1>10, <1>11, <1>12, <1>13, <1>14, <1>15, <1>16, <1>17, <1>18, <1>19, <1>20, <1>21, <1>22, <1>23, <1>24, <1>25, <1>26, Steps DEF AnyStep, irq_mask

(* Who owns the instance, and that nobody is between two owners. *)
LEMMA OwnerStep ==
    ASSUME Typed, OneOwner, Waited, [Next]_vars
    PROVE  OneOwner'
<1> USE DEF Typed, OneOwner, Waited, HandlerOwns, ListOwns, PollOwns, ResetOwns, chip, hvars, napi, svars
<1>1. CASE UNCHANGED vars
  BY <1>1 DEF vars
<1>2. ASSUME NEW e \in irq_mask, ChipEvent(e) PROVE OneOwner'
  BY <1>2 DEF ChipEvent, SetIntr
<1>3. CASE IrqEnter
  BY <1>3 DEF IrqEnter
<1>4. CASE IrqRead
  BY <1>4 DEF IrqRead, HandlerReturns
<1>5. CASE IrqReport
  BY <1>5 DEF IrqReport
<1>6. CASE PhyWork
  BY <1>6 DEF PhyWork
<1>7. CASE IrqPrep
  BY <1>7 DEF IrqPrep
<1>8. CASE IrqMask
  BY <1>8 DEF IrqMask, SetIntr
<1>9. CASE IrqSchedule
  BY <1>9 DEF IrqSchedule
<1>10. CASE IrqAck
  BY <1>10 DEF IrqAck, SetIntr, HandlerReturns
<1>11. CASE PollBegin
  BY <1>11 DEF PollBegin
<1>12. CASE PollTx
  BY <1>12 DEF PollTx
<1>13. CASE PollRx
  BY <1>13 DEF PollRx
<1>14. CASE PollComplete
  BY <1>14 DEF PollComplete, PollReturns
<1>15. CASE PollFull
  BY <1>15 DEF PollFull, PollReturns
<1>16. CASE PollEnable
  BY <1>16 DEF PollEnable, SetIntr, PollReturns
<1>17. CASE ResetBegin
  BY <1>17 DEF ResetBegin
<1>18. CASE NapiDisable
  BY <1>18 DEF NapiDisable
<1>19. CASE NapiDisabled
  BY <1>19 DEF NapiDisabled
<1>20. CASE Sync
  BY <1>20 DEF Sync
<1>21. CASE Synced
  BY <1>21 DEF Synced
<1>22. CASE MaskAll
  BY <1>22 DEF MaskAll, SetIntr
<1>23. CASE AckAll
  BY <1>23 DEF AckAll, SetIntr
<1>24. CASE HwReset
  BY <1>24 DEF HwReset, SetIntr
<1>25. CASE NapiEnable
  BY <1>25 DEF NapiEnable
<1>26. CASE HwStart
  BY <1>26 DEF HwStart, SetIntr
<1> QED BY <1>1, <1>2, <1>3, <1>4, <1>5, <1>6, <1>7, <1>8, <1>9, <1>10, <1>11, <1>12, <1>13, <1>14, <1>15, <1>16, <1>17, <1>18, <1>19, <1>20, <1>21, <1>22, <1>23, <1>24, <1>25, <1>26, Steps DEF AnyStep

(* The teardown has waited for the poll before it masks. *)
LEMMA WaitedStep ==
    ASSUME Typed, OneOwner, Waited, [Next]_vars
    PROVE  Waited'
<1> USE DEF Typed, OneOwner, Waited, HandlerOwns, ListOwns, PollOwns, ResetOwns, chip, hvars, napi, svars
<1>1. CASE UNCHANGED vars
  BY <1>1 DEF vars
<1>2. ASSUME NEW e \in irq_mask, ChipEvent(e) PROVE Waited'
  BY <1>2 DEF ChipEvent, SetIntr
<1>3. CASE IrqEnter
  BY <1>3 DEF IrqEnter
<1>4. CASE IrqRead
  BY <1>4 DEF IrqRead, HandlerReturns
<1>5. CASE IrqReport
  BY <1>5 DEF IrqReport
<1>6. CASE PhyWork
  BY <1>6 DEF PhyWork
<1>7. CASE IrqPrep
  BY <1>7 DEF IrqPrep
<1>8. CASE IrqMask
  BY <1>8 DEF IrqMask, SetIntr
<1>9. CASE IrqSchedule
  BY <1>9 DEF IrqSchedule
<1>10. CASE IrqAck
  BY <1>10 DEF IrqAck, SetIntr, HandlerReturns
<1>11. CASE PollBegin
  BY <1>11 DEF PollBegin
<1>12. CASE PollTx
  BY <1>12 DEF PollTx
<1>13. CASE PollRx
  BY <1>13 DEF PollRx
<1>14. CASE PollComplete
  BY <1>14 DEF PollComplete, PollReturns
<1>15. CASE PollFull
  BY <1>15 DEF PollFull, PollReturns
<1>16. CASE PollEnable
  BY <1>16 DEF PollEnable, SetIntr, PollReturns
<1>17. CASE ResetBegin
  BY <1>17 DEF ResetBegin
<1>18. CASE NapiDisable
  BY <1>18 DEF NapiDisable
<1>19. CASE NapiDisabled
  BY <1>19 DEF NapiDisabled
<1>20. CASE Sync
  BY <1>20 DEF Sync
<1>21. CASE Synced
  BY <1>21 DEF Synced
<1>22. CASE MaskAll
  BY <1>22 DEF MaskAll, SetIntr
<1>23. CASE AckAll
  BY <1>23 DEF AckAll, SetIntr
<1>24. CASE HwReset
  BY <1>24 DEF HwReset, SetIntr
<1>25. CASE NapiEnable
  BY <1>25 DEF NapiEnable
<1>26. CASE HwStart
  BY <1>26 DEF HwStart, SetIntr
<1> QED BY <1>1, <1>2, <1>3, <1>4, <1>5, <1>6, <1>7, <1>8, <1>9, <1>10, <1>11, <1>12, <1>13, <1>14, <1>15, <1>16, <1>17, <1>18, <1>19, <1>20, <1>21, <1>22, <1>23, <1>24, <1>25, <1>26, Steps DEF AnyStep

-----------------------------------------------------------------------------
(* A handler that has looked leaves somebody who will look again. *)
LEMMA AckedStep ==
    ASSUME Typed, OneOwner, Waited, SlowHandler = FALSE, Acked, [Next]_vars
    PROVE  Acked'
<1> USE DEF Typed, OneOwner, Waited, Acked, Coming, irq_mask, HandlerOwns, ListOwns, PollOwns, ResetOwns, chip, hvars, napi, svars
<1>1. CASE UNCHANGED vars
  BY <1>1 DEF vars
<1>2. ASSUME NEW e \in irq_mask, ChipEvent(e) PROVE Acked'
  BY <1>2 DEF ChipEvent, SetIntr
<1>3. CASE IrqEnter
  BY <1>3 DEF IrqEnter
<1>4. CASE IrqRead
  BY <1>4 DEF IrqRead, HandlerReturns
<1>5. CASE IrqReport
  BY <1>5 DEF IrqReport
<1>6. CASE PhyWork
  BY <1>6 DEF PhyWork
<1>7. CASE IrqPrep
  BY <1>7 DEF IrqPrep
<1>8. CASE IrqMask
  BY <1>8 DEF IrqMask, SetIntr
<1>9. CASE IrqSchedule
  BY <1>9 DEF IrqSchedule
<1>10. CASE IrqAck
  BY <1>10 DEF IrqAck, SetIntr, HandlerReturns
<1>11. CASE PollBegin
  BY <1>11 DEF PollBegin
<1>12. CASE PollTx
  BY <1>12 DEF PollTx
<1>13. CASE PollRx
  BY <1>13 DEF PollRx
<1>14. CASE PollComplete
  BY <1>14 DEF PollComplete, PollReturns
<1>15. CASE PollFull
  BY <1>15 DEF PollFull, PollReturns
<1>16. CASE PollEnable
  BY <1>16 DEF PollEnable, SetIntr, PollReturns
<1>17. CASE ResetBegin
  BY <1>17 DEF ResetBegin
<1>18. CASE NapiDisable
  BY <1>18 DEF NapiDisable
<1>19. CASE NapiDisabled
  BY <1>19 DEF NapiDisabled
<1>20. CASE Sync
  BY <1>20 DEF Sync
<1>21. CASE Synced
  BY <1>21 DEF Synced
<1>22. CASE MaskAll
  BY <1>22 DEF MaskAll, SetIntr
<1>23. CASE AckAll
  BY <1>23 DEF AckAll, SetIntr
<1>24. CASE HwReset
  BY <1>24 DEF HwReset, SetIntr
<1>25. CASE NapiEnable
  BY <1>25 DEF NapiEnable
<1>26. CASE HwStart
  BY <1>26 DEF HwStart, SetIntr
<1> QED BY <1>1, <1>2, <1>3, <1>4, <1>5, <1>6, <1>7, <1>8, <1>9, <1>10, <1>11, <1>12, <1>13, <1>14, <1>15, <1>16, <1>17, <1>18, <1>19, <1>20, <1>21, <1>22, <1>23, <1>24, <1>25, <1>26, Steps DEF AnyStep

(* What the chip has done is in the status, or somebody will look at it. *)
LEMMA LookedStep ==
    ASSUME Typed, OneOwner, Waited, SlowHandler = FALSE, Acked, Stopped, Looked, [Next]_vars
    PROVE  Looked'
<1> USE DEF Typed, OneOwner, Waited, Acked, Stopped, Looked, WillLook, Coming, Polled, irq_mask, HandlerOwns, ListOwns, PollOwns, ResetOwns, chip, hvars, napi, svars
<1>1. CASE UNCHANGED vars
  BY <1>1 DEF vars
<1>2. ASSUME NEW e \in irq_mask, ChipEvent(e) PROVE Looked'
  BY <1>2 DEF ChipEvent, SetIntr
<1>3. CASE IrqEnter
  BY <1>3 DEF IrqEnter
<1>4. CASE IrqRead
  BY <1>4 DEF IrqRead, HandlerReturns
<1>5. CASE IrqReport
  BY <1>5 DEF IrqReport
<1>6. CASE PhyWork
  BY <1>6 DEF PhyWork
<1>7. CASE IrqPrep
  BY <1>7 DEF IrqPrep
<1>8. CASE IrqMask
  BY <1>8 DEF IrqMask, SetIntr
<1>9. CASE IrqSchedule
  BY <1>9 DEF IrqSchedule
<1>10. CASE IrqAck
  BY <1>10 DEF IrqAck, SetIntr, HandlerReturns
<1>11. CASE PollBegin
  BY <1>11 DEF PollBegin
<1>12. CASE PollTx
  BY <1>12 DEF PollTx
<1>13. CASE PollRx
  BY <1>13 DEF PollRx
<1>14. CASE PollComplete
  BY <1>14 DEF PollComplete, PollReturns
<1>15. CASE PollFull
  BY <1>15 DEF PollFull, PollReturns
<1>16. CASE PollEnable
  BY <1>16 DEF PollEnable, SetIntr, PollReturns
<1>17. CASE ResetBegin
  BY <1>17 DEF ResetBegin
<1>18. CASE NapiDisable
  BY <1>18 DEF NapiDisable
<1>19. CASE NapiDisabled
  BY <1>19 DEF NapiDisabled
<1>20. CASE Sync
  BY <1>20 DEF Sync
<1>21. CASE Synced
  BY <1>21 DEF Synced
<1>22. CASE MaskAll
  BY <1>22 DEF MaskAll, SetIntr
<1>23. CASE AckAll
  BY <1>23 DEF AckAll, SetIntr
<1>24. CASE HwReset
  BY <1>24 DEF HwReset, SetIntr
<1>25. CASE NapiEnable
  BY <1>25 DEF NapiEnable
<1>26. CASE HwStart
  BY <1>26 DEF HwStart, SetIntr
<1> QED BY <1>1, <1>2, <1>3, <1>4, <1>5, <1>6, <1>7, <1>8, <1>9, <1>10, <1>11, <1>12, <1>13, <1>14, <1>15, <1>16, <1>17, <1>18, <1>19, <1>20, <1>21, <1>22, <1>23, <1>24, <1>25, <1>26, Steps DEF AnyStep

(* Between the reset of the chip and its start nothing happens. *)
LEMMA StoppedStep ==
    ASSUME Typed, OneOwner, Waited, SlowHandler = FALSE, Stopped, [Next]_vars
    PROVE  Stopped'
<1> USE DEF Typed, Stopped, Polled, irq_mask, chip, hvars, napi, svars
<1>1. CASE UNCHANGED vars
  BY <1>1 DEF vars
<1>2. ASSUME NEW e \in irq_mask, ChipEvent(e) PROVE Stopped'
  BY <1>2 DEF ChipEvent, SetIntr
<1>3. CASE IrqEnter
  BY <1>3 DEF IrqEnter
<1>4. CASE IrqRead
  BY <1>4 DEF IrqRead, HandlerReturns
<1>5. CASE IrqReport
  BY <1>5 DEF IrqReport
<1>6. CASE PhyWork
  BY <1>6 DEF PhyWork
<1>7. CASE IrqPrep
  BY <1>7 DEF IrqPrep
<1>8. CASE IrqMask
  BY <1>8 DEF IrqMask, SetIntr
<1>9. CASE IrqSchedule
  BY <1>9 DEF IrqSchedule
<1>10. CASE IrqAck
  BY <1>10 DEF IrqAck, SetIntr, HandlerReturns
<1>11. CASE PollBegin
  BY <1>11 DEF PollBegin
<1>12. CASE PollTx
  BY <1>12 DEF PollTx
<1>13. CASE PollRx
  BY <1>13 DEF PollRx
<1>14. CASE PollComplete
  BY <1>14 DEF PollComplete, PollReturns
<1>15. CASE PollFull
  BY <1>15 DEF PollFull, PollReturns
<1>16. CASE PollEnable
  BY <1>16 DEF PollEnable, SetIntr, PollReturns
<1>17. CASE ResetBegin
  BY <1>17 DEF ResetBegin
<1>18. CASE NapiDisable
  BY <1>18 DEF NapiDisable
<1>19. CASE NapiDisabled
  BY <1>19 DEF NapiDisabled
<1>20. CASE Sync
  BY <1>20 DEF Sync
<1>21. CASE Synced
  BY <1>21 DEF Synced
<1>22. CASE MaskAll
  BY <1>22 DEF MaskAll, SetIntr
<1>23. CASE AckAll
  BY <1>23 DEF AckAll, SetIntr
<1>24. CASE HwReset
  BY <1>24 DEF HwReset, SetIntr
<1>25. CASE NapiEnable
  BY <1>25 DEF NapiEnable
<1>26. CASE HwStart
  BY <1>26 DEF HwStart, SetIntr
<1> QED BY <1>1, <1>2, <1>3, <1>4, <1>5, <1>6, <1>7, <1>8, <1>9, <1>10, <1>11, <1>12, <1>13, <1>14, <1>15, <1>16, <1>17, <1>18, <1>19, <1>20, <1>21, <1>22, <1>23, <1>24, <1>25, <1>26, Steps DEF AnyStep

(* The interrupt does not stay masked, and no edge is missed. *)
LEMMA UnmasksStep ==
    ASSUME Typed, OneOwner, Waited, SlowHandler = FALSE, Acked, Unmasks, [Next]_vars
    PROVE  Unmasks'
<1> USE DEF Typed, OneOwner, Waited, Acked, Unmasks, Line, Msi, irq_mask, HandlerOwns, ListOwns, PollOwns, ResetOwns, chip, hvars, napi, svars
<1>1. CASE UNCHANGED vars
  BY <1>1 DEF vars
<1>2. ASSUME NEW e \in irq_mask, ChipEvent(e) PROVE Unmasks'
  BY <1>2 DEF ChipEvent, SetIntr
<1>3. CASE IrqEnter
  BY <1>3 DEF IrqEnter
<1>4. CASE IrqRead
  BY <1>4 DEF IrqRead, HandlerReturns
<1>5. CASE IrqReport
  BY <1>5 DEF IrqReport
<1>6. CASE PhyWork
  BY <1>6 DEF PhyWork
<1>7. CASE IrqPrep
  BY <1>7 DEF IrqPrep
<1>8. CASE IrqMask
  BY <1>8 DEF IrqMask, SetIntr
<1>9. CASE IrqSchedule
  BY <1>9 DEF IrqSchedule
<1>10. CASE IrqAck
  BY <1>10 DEF IrqAck, SetIntr, HandlerReturns
<1>11. CASE PollBegin
  BY <1>11 DEF PollBegin
<1>12. CASE PollTx
  BY <1>12 DEF PollTx
<1>13. CASE PollRx
  BY <1>13 DEF PollRx
<1>14. CASE PollComplete
  BY <1>14 DEF PollComplete, PollReturns
<1>15. CASE PollFull
  BY <1>15 DEF PollFull, PollReturns
<1>16. CASE PollEnable
  BY <1>16 DEF PollEnable, SetIntr, PollReturns
<1>17. CASE ResetBegin
  BY <1>17 DEF ResetBegin
<1>18. CASE NapiDisable
  BY <1>18 DEF NapiDisable
<1>19. CASE NapiDisabled
  BY <1>19 DEF NapiDisabled
<1>20. CASE Sync
  BY <1>20 DEF Sync
<1>21. CASE Synced
  BY <1>21 DEF Synced
<1>22. CASE MaskAll
  BY <1>22 DEF MaskAll, SetIntr
<1>23. CASE AckAll
  BY <1>23 DEF AckAll, SetIntr
<1>24. CASE HwReset
  BY <1>24 DEF HwReset, SetIntr
<1>25. CASE NapiEnable
  BY <1>25 DEF NapiEnable
<1>26. CASE HwStart
  BY <1>26 DEF HwStart, SetIntr
<1> QED BY <1>1, <1>2, <1>3, <1>4, <1>5, <1>6, <1>7, <1>8, <1>9, <1>10, <1>11, <1>12, <1>13, <1>14, <1>15, <1>16, <1>17, <1>18, <1>19, <1>20, <1>21, <1>22, <1>23, <1>24, <1>25, <1>26, Steps DEF AnyStep

(* The phy hears of a link change before its bit is acked. *)
LEMMA LinkStep ==
    ASSUME Typed, OneOwner, Waited, SlowHandler = FALSE, Told, NoSilentLink, [Next]_vars
    PROVE  Told' /\ NoSilentLink'
<1> USE DEF Typed, Told, NoSilentLink, Polled, irq_mask, chip, hvars, napi, svars
<1>1. CASE UNCHANGED vars
  BY <1>1 DEF vars
<1>2. ASSUME NEW e \in irq_mask, ChipEvent(e) PROVE Told' /\ NoSilentLink'
  BY <1>2 DEF ChipEvent, SetIntr
<1>3. CASE IrqEnter
  BY <1>3 DEF IrqEnter
<1>4. CASE IrqRead
  BY <1>4 DEF IrqRead, HandlerReturns
<1>5. CASE IrqReport
  BY <1>5 DEF IrqReport
<1>6. CASE PhyWork
  BY <1>6 DEF PhyWork
<1>7. CASE IrqPrep
  BY <1>7 DEF IrqPrep
<1>8. CASE IrqMask
  BY <1>8 DEF IrqMask, SetIntr
<1>9. CASE IrqSchedule
  BY <1>9 DEF IrqSchedule
<1>10. CASE IrqAck
  BY <1>10 DEF IrqAck, SetIntr, HandlerReturns
<1>11. CASE PollBegin
  BY <1>11 DEF PollBegin
<1>12. CASE PollTx
  BY <1>12 DEF PollTx
<1>13. CASE PollRx
  BY <1>13 DEF PollRx
<1>14. CASE PollComplete
  BY <1>14 DEF PollComplete, PollReturns
<1>15. CASE PollFull
  BY <1>15 DEF PollFull, PollReturns
<1>16. CASE PollEnable
  BY <1>16 DEF PollEnable, SetIntr, PollReturns
<1>17. CASE ResetBegin
  BY <1>17 DEF ResetBegin
<1>18. CASE NapiDisable
  BY <1>18 DEF NapiDisable
<1>19. CASE NapiDisabled
  BY <1>19 DEF NapiDisabled
<1>20. CASE Sync
  BY <1>20 DEF Sync
<1>21. CASE Synced
  BY <1>21 DEF Synced
<1>22. CASE MaskAll
  BY <1>22 DEF MaskAll, SetIntr
<1>23. CASE AckAll
  BY <1>23 DEF AckAll, SetIntr
<1>24. CASE HwReset
  <2>1. /\ UNCHANGED <<hpc, st, phyq>>
        /\ work' = work \ Polled
    BY <1>24 DEF HwReset
  <2>2. CASE SetIntr(status, mask) /\ UNCHANGED missedlink
    BY <2>1, <2>2 DEF SetIntr
  <2>3. CASE SetIntr({}, mask) /\ missedlink' = (missedlink \/ "link" \in status)
    BY <2>1, <2>3 DEF SetIntr
  <2> QED BY <1>24, <2>2, <2>3 DEF HwReset
<1>25. CASE NapiEnable
  BY <1>25 DEF NapiEnable
<1>26. CASE HwStart
  BY <1>26 DEF HwStart, SetIntr
<1> QED BY <1>1, <1>2, <1>3, <1>4, <1>5, <1>6, <1>7, <1>8, <1>9, <1>10, <1>11, <1>12, <1>13, <1>14, <1>15, <1>16, <1>17, <1>18, <1>19, <1>20, <1>21, <1>22, <1>23, <1>24, <1>25, <1>26, Steps DEF AnyStep

-----------------------------------------------------------------------------
(* Nobody has SCHED in the first state.                                      *)
LEMMA InitOwned == Init => Typed /\ OneOwner /\ Waited
<1> SUFFICES ASSUME Init PROVE Typed /\ OneOwner /\ Waited
  OBVIOUS
<1> USE DEF Init
<1>1. /\ mask \in BOOLEAN /\ msg \in BOOLEAN /\ stuck \in BOOLEAN /\ sched \in BOOLEAN
      /\ missed \in BOOLEAN /\ disable \in BOOLEAN /\ queued \in BOOLEAN
      /\ pending \in BOOLEAN /\ missedlink \in BOOLEAN /\ phyq \in BOOLEAN
  BY Zenon
<1>2. /\ setup \in Setups /\ status \subseteq irq_mask /\ work \subseteq irq_mask
      /\ st \subseteq irq_mask /\ awaits \subseteq {"handler", "poll"}
      /\ bounds \in [{"events", "full", "shared", "resets"} -> Nat]
  OBVIOUS
<1>3. Typed
  BY <1>1, <1>2 DEF Typed
<1>4. OneOwner /\ Waited
  BY DEF OneOwner, Waited, HandlerOwns, ListOwns, PollOwns, ResetOwns
<1> QED BY <1>3, <1>4

(* Types, owners and the grace period hold for every device and every bound,  *)
(* whether a handler may be held up or not.                                   *)
THEOREM InductiveInvariant == Spec => []IInv
<1>1. Init => Typed /\ OneOwner /\ Waited
  BY InitOwned
<1>2. Typed /\ OneOwner /\ Waited /\ [Next]_vars => (Typed /\ OneOwner /\ Waited)'
  BY TypedStep, OwnerStep, WaitedStep
<1>3. Typed /\ OneOwner /\ Waited => IInv
  BY TypedIsTypeOK DEF IInv, OneOwner, ListOwns
<1> QED BY <1>1, <1>2, <1>3, PTL DEF Spec

(* From the masking of the interrupt to rtl_hw_start no poll of              *)
(* rtl8169_cleanup's device runs or is about to, and nobody unmasks.          *)
THEOREM TeardownLeftAlone == Spec => []TeardownUndisturbed
<1>1. IInv => TeardownUndisturbed
  <2> SUFFICES ASSUME IInv, spc \in {"mask", "ack", "hw", "enable"}
               PROVE  /\ ppc = "idle" /\ ~queued /\ sched
                      /\ spc # "mask" => ~mask
    BY DEF TeardownUndisturbed
  <2> USE DEF IInv, OneOwner, Waited
  <2>1. ResetOwns
    BY DEF ResetOwns
  <2>2. sched = TRUE /\ ~ListOwns
    BY <2>1
  <2>3. queued \in BOOLEAN /\ mask \in BOOLEAN
    BY DEF TypeOK
  <2> QED BY <2>2, <2>3 DEF ListOwns
<1> QED BY <1>1, InductiveInvariant, PTL

-----------------------------------------------------------------------------
(* Everything that may still look at the device, for handlers of ordinary     *)
(* length.                                                                    *)
LEMMA NothingLost == ASSUME SlowHandler = FALSE PROVE Spec => [](IInv /\ LInv)
<1> DEFINE Inv == Typed /\ OneOwner /\ Waited /\ LInv
<1>1. Init => Inv
  <2>1. Init => Typed /\ OneOwner /\ Waited
    BY InitOwned
  <2>2. Init => Acked /\ Looked /\ Stopped /\ Told /\ NoSilentLink
    BY DEF Init, Acked, Looked, Stopped, Told, NoSilentLink
  <2>3. Init => Unmasks
    BY DEF Init, Unmasks, Line
  <2> QED BY <2>1, <2>2, <2>3 DEF LInv
<1>2. Inv /\ [Next]_vars => Inv'
  <2> SUFFICES ASSUME Inv, [Next]_vars PROVE Inv'
    OBVIOUS
  <2>1. Typed' /\ OneOwner' /\ Waited'
    BY TypedStep, OwnerStep, WaitedStep
  <2>2. Acked /\ Looked /\ Stopped /\ Unmasks /\ Told /\ NoSilentLink
    BY DEF LInv
  <2>3. Acked' /\ Looked' /\ Stopped' /\ Unmasks' /\ Told' /\ NoSilentLink'
    BY <2>2, AckedStep, LookedStep, StoppedStep, UnmasksStep, LinkStep
  <2> QED BY <2>1, <2>3 DEF LInv
<1>3. Inv => IInv /\ LInv
  BY TypedIsTypeOK DEF IInv, OneOwner, ListOwns
<1> HIDE DEF Inv
<1> QED BY <1>1, <1>2, <1>3, PTL DEF Spec

(* No event of the rings is left without an interrupt to come.               *)
THEOREM NoWorkSilent == ASSUME SlowHandler = FALSE PROVE Spec => []NoSilentWork
<1>1. IInv /\ LInv => NoSilentWork
  <2> SUFFICES ASSUME IInv, LInv, Quiet, work \cap Polled # {}
               PROVE  IF Msi THEN msg \/ stuck ELSE Line
    BY DEF NoSilentWork
  <2>1. PICK e \in Polled : e \in work
    OBVIOUS
  <2>2. sched = FALSE /\ pending = FALSE /\ queued = FALSE
    BY DEF IInv, TypeOK, Quiet
  <2>3. ~WillLook(e)
    BY <2>2 DEF WillLook, Coming, PollOwns, Quiet
  <2>4. status # {}
    BY <2>1, <2>3 DEF LInv, Looked
  <2>5. mask = TRUE
    BY <2>2 DEF LInv, Unmasks, Quiet
  <2>6. Line
    BY <2>4, <2>5 DEF Line
  <2>7. CASE Msi
    BY <2>6, <2>7 DEF LInv, Unmasks, Quiet
  <2> QED BY <2>6, <2>7
<1> QED BY <1>1, NothingLost, PTL

(* No change of the link is left untold but by the two acks that swallow it.  *)
THEOREM NoLinkSilent == ASSUME SlowHandler = FALSE PROVE Spec => []NoSilentLink
<1>1. IInv /\ LInv => NoSilentLink
  BY DEF LInv
<1> QED BY <1>1, NothingLost, PTL
=============================================================================
