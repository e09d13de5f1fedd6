------------------------------- MODULE IrqNapi -------------------------------
(***************************************************************************)
(* Interrupts and NAPI in drv-r8169/r8169_main.c: rtl8169_interrupt, the   *)
(* two halves of rtl8169_poll, and the thread that tears the device down   *)
(* and starts it again (rtl8169_cleanup, rtl_reset_work, rtl_hw_start).    *)
(* They share the chip's IntrStatus and IntrMask and the state bits of the *)
(* NAPI instance; one action is one access to one of them.  The chip and   *)
(* the kernel's NAPI, RCU and interrupt core are external.                 *)
(***************************************************************************)
EXTENDS Naturals, FiniteSets

CONSTANTS
    Setups,     \* the chips and their interrupts, as records: mask, what the chip version's
                \* irq_mask holds of "rx", "tx", "link", "sys" (SYSErr, up to 06) and "over"
                \* (RxFIFOOver, of 11 alone); msi, messages, else a level-triggered line;
                \* shared, other devices on the line make the handler run as well
    SlowHandler,\* may a handler be delayed by the length of a poll or a reset?
    MaxEvents,  \* bounds on what the chip does, without and with messages
    MaxFull,    \* bound on the polls that use up their budget
    MaxShared,  \* bound on the interrupts of other devices
    MaxResets   \* bound on the resets nobody's interrupt asked for

ASSUME IrqAssumption ==
    /\ Setups \subseteq [mask : SUBSET {"rx", "tx", "link", "over", "sys"},
                         msi : BOOLEAN, shared : BOOLEAN]
    /\ \A x \in Setups :
          /\ ~({"over", "sys"} \subseteq x.mask)
          /\ x.msi => ~x.shared /\ x.mask \cap {"over", "sys"} = {}
    /\ SlowHandler \in BOOLEAN /\ MaxEvents \in [BOOLEAN -> Nat]
    /\ {MaxFull, MaxShared, MaxResets} \subseteq Nat

VARIABLES
    setup,        \* the device of this behaviour
    status, mask, \* IntrStatus, and IntrMask: irq_mask or nothing
    msg,      \* a message sent and not yet answered by the handler
    stuck,    \* the line of the messages has stayed up across an ack
    work,     \* what the chip has done and the driver has not looked at
    hpc, st,  \* rtl8169_interrupt: where it is, the status it read
    sched, missed, disable, \* NAPIF_STATE_SCHED, _MISSED, _DISABLE
    queued,   \* the instance is on a poll list
    ppc,      \* rtl8169_poll
    spc, awaits, \* the resetting thread; whom its synchronize_net waits for
    pending,  \* RTL_FLAG_TASK_RESET_PENDING, with the work scheduled
    missedlink, \* a link change was acked and the phy not told
    phyq,     \* phy_mac_interrupt has queued the phy's state machine
    bounds    \* how much of each bound is used

chip == <<status, mask, msg, stuck, work>>
hvars == <<hpc, st>>
napi == <<sched, missed, disable, queued>>
svars == <<spc, awaits>>
vars == <<setup, chip, hvars, napi, ppc, svars, pending, missedlink, phyq, bounds>>

irq_mask == setup.mask  \* rtl_p->irq_mask
Msi      == setup.msi
Shared   == setup.shared

Polled == {"rx", "tx"}   \* what only the poll looks at
Line   == mask /\ status # {}

Init ==
    /\ setup \in Setups
    /\ status = {} /\ mask = TRUE /\ msg = FALSE /\ stuck = FALSE /\ work = {}
    /\ hpc = "idle" /\ st = {}
    /\ sched = FALSE /\ missed = FALSE /\ disable = FALSE /\ queued = FALSE
    /\ ppc = "idle" /\ spc = "idle" /\ awaits = {} /\ pending = FALSE
    /\ missedlink = FALSE /\ phyq = FALSE
    /\ bounds = [events |-> 0, full |-> 0, shared |-> 0, resets |-> 0]

(* A write of the chip's two registers; a message goes out on a rising line,  *)
(* and none for what comes while it is up.                                    *)
SetIntr(s, m) ==
    /\ status' = s /\ mask' = m
    /\ msg' = (msg \/ (Msi /\ ~Line /\ m /\ s # {}))
    /\ stuck' = (Msi /\ Line' /\ (stuck \/ (Line /\ ~(status \subseteq s))))

Count(b, max) == bounds[b] < max /\ bounds' = [bounds EXCEPT ![b] = @ + 1]

-----------------------------------------------------------------------------
(* The chip finishes something: the status bit comes with the descriptor. *)
ChipEvent(e) ==
    /\ spc # "enable" /\ spc # "start"
    /\ Count("events", MaxEvents[Msi])
    /\ SetIntr(status \cup {e}, mask)
    /\ work' = work \cup ({e} \cap (Polled \cup {"link"}))
    /\ UNCHANGED <<setup, hvars, napi, ppc, svars, pending, missedlink, phyq>>

(* The interrupt core calls the handler, never two at a time. *)
IrqEnter ==
    /\ hpc = "idle"
    /\ \/ (IF Msi THEN msg ELSE Line) /\ UNCHANGED bounds
       \/ Shared /\ ~Line /\ Count("shared", MaxShared)
    /\ hpc' = "read" /\ msg' = FALSE
    /\ UNCHANGED <<setup, status, mask, stuck, work, st, napi, ppc, svars, pending, missedlink, phyq>>

HandlerReturns == hpc' = "idle" /\ st' = {} /\ awaits' = awaits \ {"handler"}

(* rtl_get_events, and IRQ_NONE when it is not ours. *)
IrqRead ==
    /\ hpc = "read"
    /\ IF status = {}
       THEN HandlerReturns
       ELSE /\ st' = status /\ hpc' = "report"
            /\ UNCHANGED awaits
    /\ UNCHANGED <<setup, chip, napi, ppc, spc, pending, missedlink, phyq, bounds>>

(* A PCI error only schedules a reset; a link change is told to the phy; a   *)
(* full receive fifo schedules a reset as well.                              *)
IrqReport ==
    /\ hpc = "report"
    /\ hpc' = IF "sys" \in st THEN "ack" ELSE "prep"
    /\ pending' = (pending \/ {"sys", "over"} \cap st # {})
    /\ phyq' = (phyq \/ ("sys" \notin st /\ "link" \in st))
    /\ UNCHANGED <<setup, chip, st, napi, ppc, svars, missedlink, bounds>>

(* The phy's state machine (external) reads the link over MDIO, which takes   *)
(* longer than a handler.                                                     *)
PhyWork ==
    /\ phyq /\ (SlowHandler \/ hpc = "idle")
    /\ phyq' = FALSE /\ missedlink' = FALSE /\ work' = work \ {"link"}
    /\ UNCHANGED <<setup, status, mask, msg, stuck, hvars, napi, ppc, svars, pending, bounds>>

(* napi_schedule_prep: one that is scheduled already is to poll once more. *)
IrqPrep ==
    /\ hpc = "prep"
    /\ IF sched \/ disable
       THEN /\ hpc' = "ack"
            /\ missed' = (missed \/ ~disable)
            /\ UNCHANGED sched
       ELSE /\ hpc' = "mask" /\ sched' = TRUE
            /\ UNCHANGED missed
    /\ UNCHANGED <<setup, chip, st, disable, queued, ppc, svars, pending, missedlink, phyq, bounds>>

IrqMask ==
    /\ hpc = "mask"
    /\ SetIntr(status, FALSE)
    /\ hpc' = "schedule"
    /\ UNCHANGED <<setup, work, st, napi, ppc, svars, pending, missedlink, phyq, bounds>>

IrqSchedule ==
    /\ hpc = "schedule"
    /\ queued' = TRUE /\ hpc' = "ack"
    /\ UNCHANGED <<setup, chip, st, sched, missed, disable, ppc, svars, pending, missedlink, phyq, bounds>>

MutIrqAck ==
    /\ hpc = "ack"
    /\ SetIntr({}, mask)
    /\ HandlerReturns
    /\ missedlink' = (missedlink \/ {"link", "sys"} \subseteq st)
    /\ UNCHANGED <<setup, work, napi, ppc, spc, pending, phyq, bounds>>

(* rtl_ack_events: exactly the bits read at the start. *)
IrqAck ==
    /\ hpc = "ack"
    /\ SetIntr(status \ st, mask)
    /\ HandlerReturns
    /\ missedlink' = (missedlink \/ {"link", "sys"} \subseteq st)
    /\ UNCHANGED <<setup, work, napi, ppc, spc, pending, phyq, bounds>>

Irq == IrqRead \/ IrqReport \/ IrqPrep \/ IrqMask \/ IrqSchedule \/ IrqAck

-----------------------------------------------------------------------------
(* The softirq runs once the handler that raised it has returned; with one   *)
(* that is threaded, or on another CPU and slow, it need not wait.            *)
PollBegin ==
    /\ queued /\ ppc = "idle" /\ (SlowHandler \/ hpc = "idle")
    /\ queued' = FALSE /\ ppc' = "tx"
    /\ UNCHANGED <<setup, chip, hvars, sched, missed, disable, svars, pending, missedlink, phyq, bounds>>

PollTx ==
    /\ ppc = "tx"
    /\ work' = work \ {"tx"} /\ ppc' = "rx"
    /\ UNCHANGED <<setup, status, mask, msg, stuck, hvars, napi, svars, pending, missedlink, phyq, bounds>>

MutPollRx ==
    /\ ppc = "rx"
    /\ \/ work' = work \ {"rx"} /\ ppc' = "complete" /\ UNCHANGED bounds
       \/ UNCHANGED work /\ ppc' = "complete" /\ Count("full", MaxFull)
    /\ UNCHANGED <<setup, status, mask, msg, stuck, hvars, napi, svars, pending, missedlink, phyq>>

(* rtl_rx takes all there is, or stops at the budget. *)
PollRx ==
    /\ ppc = "rx"
    /\ \/ work' = work \ {"rx"} /\ ppc' = "complete" /\ UNCHANGED bounds
       \/ UNCHANGED work /\ ppc' = "full" /\ Count("full", MaxFull)
    /\ UNCHANGED <<setup, status, mask, msg, stuck, hvars, napi, svars, pending, missedlink, phyq>>

PollReturns == ppc' = "idle" /\ awaits' = awaits \ {"poll"}

(* napi_complete_done: done, unless another poll was asked for meanwhile. *)
PollComplete ==
    /\ ppc = "complete"
    /\ missed' = FALSE
    /\ IF missed
       THEN queued' = TRUE /\ PollReturns /\ UNCHANGED sched
       ELSE sched' = FALSE /\ ppc' = "enable" /\ UNCHANGED <<queued, awaits>>
    /\ UNCHANGED <<setup, chip, hvars, disable, spc, pending, missedlink, phyq, bounds>>

(* With the budget used up the core polls again, or, if the instance is being *)
(* disabled, completes it for the driver and leaves the interrupt masked.     *)
PollFull ==
    /\ ppc = "full"
    /\ PollReturns
    /\ IF disable /\ ~missed
       THEN sched' = FALSE /\ UNCHANGED <<queued, missed>>
       ELSE queued' = TRUE /\ missed' = (missed /\ ~disable) /\ UNCHANGED sched
    /\ UNCHANGED <<setup, chip, hvars, disable, spc, pending, missedlink, phyq, bounds>>

PollEnable ==
    /\ ppc = "enable"
    /\ SetIntr(status, TRUE)
    /\ PollReturns
    /\ UNCHANGED <<setup, work, hvars, napi, spc, pending, missedlink, phyq, bounds>>

Poll == PollTx \/ PollRx \/ PollComplete \/ PollFull \/ PollEnable

-----------------------------------------------------------------------------

(* The reset: rtl_task when it is pending, or another caller of rtl_reset_work. *)
ResetBegin ==
    /\ spc = "idle"
    /\ (pending /\ UNCHANGED bounds) \/ Count("resets", MaxResets)
    /\ pending' = FALSE
    /\ spc' = "disable"
    /\ UNCHANGED <<setup, chip, hvars, napi, ppc, awaits, missedlink, phyq>>

(* napi_disable: no new poll, wait for the scheduled one, keep it scheduled. *)
NapiDisable ==
    /\ spc = "disable"
    /\ disable' = TRUE /\ spc' = "wait"
    /\ UNCHANGED <<setup, chip, hvars, sched, missed, queued, ppc, awaits, pending, missedlink, phyq, bounds>>

NapiDisabled ==
    /\ spc = "wait" /\ ~sched
    /\ sched' = TRUE /\ disable' = FALSE
    /\ spc' = "sync"
    /\ UNCHANGED <<setup, chip, hvars, missed, queued, ppc, awaits, pending, missedlink, phyq, bounds>>

MutSync ==
    /\ spc = "sync"
    /\ spc' = "mask" /\ UNCHANGED awaits
    /\ UNCHANGED <<setup, chip, hvars, napi, ppc, pending, missedlink, phyq, bounds>>

(* synchronize_net: handler and poll are both RCU readers; it waits for those *)
(* that run now, not for those that begin later.                              *)
Sync ==
    /\ spc = "sync"
    /\ spc' = "synced"
    /\ awaits' = (IF hpc # "idle" THEN {"handler"} ELSE {})
                   \cup (IF ppc # "idle" THEN {"poll"} ELSE {})
    /\ UNCHANGED <<setup, chip, hvars, napi, ppc, pending, missedlink, phyq, bounds>>

Synced ==
    /\ spc = "synced" /\ awaits = {}
    /\ spc' = "mask"
    /\ UNCHANGED <<setup, chip, hvars, napi, ppc, awaits, pending, missedlink, phyq, bounds>>

(* rtl8169_irq_mask_and_ack *)
MaskAll ==
    /\ spc = "mask"
    /\ SetIntr(status, FALSE)
    /\ spc' = "ack"
    /\ UNCHANGED <<setup, work, hvars, napi, ppc, awaits, pending, missedlink, phyq, bounds>>

AckAll ==
    /\ spc = "ack"
    /\ SetIntr({}, mask)
    /\ spc' = "hw"
    /\ missedlink' = (missedlink \/ "link" \in status)
    /\ UNCHANGED <<setup, work, hvars, napi, ppc, awaits, pending, phyq, bounds>>

(* rtl_rx_close to rtl_hw_reset, which take long: the chip stops, and what it *)
(* had done is dropped with the rings.  Stale status bits may stay behind.    *)
HwReset ==
    /\ spc = "hw" /\ (SlowHandler \/ hpc = "idle")
    /\ \/ SetIntr(status, mask) /\ UNCHANGED missedlink
       \/ SetIntr({}, mask) /\ missedlink' = (missedlink \/ "link" \in status)
    /\ work' = work \ Polled
    /\ spc' = "enable"
    /\ UNCHANGED <<setup, hvars, napi, ppc, awaits, pending, phyq, bounds>>

MutNapiEnable ==
    /\ spc = "enable"
    /\ spc' = "start"
    /\ UNCHANGED <<setup, chip, hvars, napi, ppc, awaits, pending, missedlink, phyq, bounds>>

NapiEnable ==
    /\ spc = "enable"
    /\ sched' = FALSE
    /\ spc' = "start"
    /\ UNCHANGED <<setup, chip, hvars, missed, disable, queued, ppc, awaits, pending, missedlink, phyq, bounds>>

MutHwStart ==
    /\ spc = "start"
    /\ UNCHANGED <<status, mask, msg, stuck>>
    /\ spc' = "idle"
    /\ UNCHANGED <<setup, work, hvars, napi, ppc, awaits, pending, missedlink, phyq, bounds>>

(* rtl_hw_start ends with rtl_irq_enable. *)
HwStart ==
    /\ spc = "start" /\ (SlowHandler \/ hpc = "idle")
    /\ SetIntr(status, TRUE)
    /\ spc' = "idle"
    /\ UNCHANGED <<setup, work, hvars, napi, ppc, awaits, pending, missedlink, phyq, bounds>>

Reset ==
    \/ NapiDisable \/ NapiDisabled \/ Sync \/ Synced \/ MaskAll \/ AckAll
    \/ HwReset \/ NapiEnable \/ HwStart

Next ==
    \/ \E e \in irq_mask : ChipEvent(e)
    \/ IrqEnter \/ Irq \/ PhyWork \/ PollBegin \/ Poll \/ ResetBegin \/ Reset

Spec == Init /\ [][Next]_vars

(* Interrupts are delivered, handlers and softirqs run, a scheduled work item *)
(* runs, and the thread that resets goes on.                                  *)
Fairness ==
    /\ WF_vars(IrqEnter /\ UNCHANGED bounds) /\ WF_vars(Irq) /\ WF_vars(PhyWork)
    /\ WF_vars(PollBegin) /\ WF_vars(Poll)
    /\ WF_vars(pending /\ ResetBegin) /\ WF_vars(Reset)

LiveSpec == Spec /\ Fairness

-----------------------------------------------------------------------------
(* Every variable has its type, and only a scheduled instance is on a poll list. *)
TypeOK ==
    /\ setup \in Setups /\ status \subseteq irq_mask /\ work \subseteq irq_mask
    /\ {mask, msg, stuck} \subseteq BOOLEAN
    /\ hpc \in {"idle", "read", "report", "prep", "mask", "schedule", "ack"}
    /\ st \subseteq irq_mask
    /\ {sched, missed, disable, queued, pending, missedlink, phyq} \subseteq BOOLEAN /\ (queued => sched)
    /\ ppc \in {"idle", "tx", "rx", "complete", "full", "enable"}
    /\ spc \in {"idle", "disable", "wait", "sync", "synced", "mask", "ack", "hw",
                "enable", "start"}
    /\ awaits \subseteq {"handler", "poll"}
    /\ bounds \in [{"events", "full", "shared", "resets"} -> Nat]

(* Nothing is under way that would look at the device by itself. *)
Quiet ==
    /\ spc = "idle" /\ ~pending
    /\ hpc = "idle" /\ ppc = "idle" /\ ~sched

(* No event is lost: when everybody rests and the chip has done something the *)
(* driver has not looked at, an interrupt is on its way.  The handler acks    *)
(* what it read after it has scheduled the poll, the poll unmasks after it    *)
(* has looked, and each could swallow what happened in between.  With         *)
(* messages one way remains: a message that a reset has outlived runs a       *)
(* handler whose poll is scheduled while the reset unmasks; the next handler  *)
(* then acks one event of two with the line up, which sends none again.       *)
NoSilentWork ==
    Quiet /\ work \cap Polled # {} => IF Msi THEN msg \/ stuck ELSE Line

(* Nor is a change of the link: until the phy has read it, it is in the       *)
(* status, in the hand of a handler about to report it, or the phy is on its  *)
(* way.  Two acks swallow one and leave the phy untold: that of everything in *)
(* a reset, and that of a handler which found a PCI error with it.            *)
NoSilentLink ==
    "link" \in work => \/ "link" \in status
                       \/ phyq
                       \/ hpc = "report" /\ {"link", "sys"} \cap st = {"link"}
                       \/ missedlink

(* From the moment a teardown has masked the interrupt until rtl_hw_start     *)
(* unmasks it nobody else does, and no poll runs or is about to: the poll     *)
(* that was just finishing has been waited for by synchronize_net.            *)
TeardownUndisturbed ==
    spc \in {"mask", "ack", "hw", "enable"} =>
        /\ ppc = "idle" /\ ~queued /\ sched
        /\ spc # "mask" => ~mask

(* Whatever the chip has done is looked at or dropped by a reset, unless the  *)
(* line of the messages is stuck.                                             *)
WorkIsPolled == \A e \in Polled : e \in work ~> e \notin work \/ stuck

(* A disabled instance is enabled again: napi_disable finds an end to the     *)
(* polls, whatever arrives meanwhile.                                         *)
ResetEnds == spc # "idle" ~> spc = "idle"
=============================================================================
