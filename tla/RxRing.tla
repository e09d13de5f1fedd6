------------------------------- MODULE RxRing -------------------------------
(***************************************************************************)
(* The receive path of drv-r8169/r8169_main.c: the descriptor ring that    *)
(* the chip fills and the NAPI handler rtl_rx empties, and the code that   *)
(* builds it (open), takes it from both of them and starts it again        *)
(* (rtl_reset_work), stops it (suspend) and frees it (close).  One action  *)
(* is one access to what the parties share, in the order of the code; a    *)
(* descriptor word, a page and a VLAN tag hold the frame they come from.   *)
(* The chip, NAPI and the page allocator are external.                     *)
(***************************************************************************)
EXTENDS Integers, Sequences

CONSTANTS
    NumRxDesc,             \* NUM_RX_DESC
    U32,                   \* the modulus of cur_rx, 2^32 in the code
    Budget,                \* the NAPI budget
    Good, Damaged, Broken, \* frames: faultless; CRC or runt error; unusable
    NoFrame,               \* no status, an empty page, no tag
    Lossy,                 \* may napi_alloc_skb fail?
    BusyPoll,              \* may a socket poll the device while the chip is off?
    Kinds,                 \* what is done to a running device
    MaxOps                 \* bound on how often

Frames == Good \cup Damaged \cup Broken

ASSUME RxRingAssumption ==
    /\ NumRxDesc \in Nat \ {0} /\ Budget \in Nat \ {0}
    /\ U32 \in Nat \ {0} /\ U32 % NumRxDesc = 0
    /\ NoFrame \notin Frames /\ Good \cap (Damaged \cup Broken) = {}
    /\ Lossy \in BOOLEAN /\ BusyPoll \in BOOLEAN
    /\ Kinds \subseteq {"reset", "sleep", "close", "features"} /\ MaxOps \in Nat

VARIABLES
    cur_rx,   \* ring index: the next descriptor to read
    desc,     \* RxDescArray: DescOwn, RingEnd, the status, the tag in opts2
    databuff, \* Rx_databuff: is there a mapped page?
    page,     \* what the pages hold
    rxall,    \* NETIF_F_RXALL in netdev->features
    napi,     \* NAPI: off, on, or being disabled
    rpc, rp,  \* rtl_rx: where it is, and its locals
    dev, dk,  \* open, reset, suspend and close: where they are, the loop index
    goal,     \* what follows the teardown
    ops,      \* how many operations so far
    nic,      \* the chip: running, bus master, accepting, position, frame in DMA
    handed    \* what the stack was last given

ringv == <<cur_rx, desc, databuff, page>>
pollv == <<rpc, rp>>
devv  == <<dev, dk, goal, ops>>
vars  == <<ringv, pollv, devv, napi, rxall, nic, handed>>

Slots == 0 .. NumRxDesc - 1
Index == 0 .. U32 - 1

FrameOrNo == Frames \cup {NoFrame}
NoDesc == [own |-> FALSE, eor |-> FALSE, status |-> NoFrame, tag |-> NoFrame]
NoRp   == [status |-> NoFrame, data |-> NoFrame, eor |-> FALSE, count |-> 0]

Init ==
    /\ cur_rx = 0 /\ desc = [i \in Slots |-> NoDesc]
    /\ databuff = [i \in Slots |-> FALSE] /\ page = [i \in Slots |-> NoFrame]
    /\ rxall = FALSE /\ napi = "off"
    /\ rpc = "idle" /\ rp = NoRp
    /\ dev = "closed" /\ dk = 0 /\ goal = "none" /\ ops = 0
    /\ nic = [on |-> FALSE, master |-> FALSE, accept |-> FALSE, errors |-> FALSE,
              pos |-> 0, mid |-> NoFrame]
    /\ handed = [data |-> NoFrame, status |-> NoFrame, tag |-> NoFrame]

-----------------------------------------------------------------------------

(* The two stores of rtl8169_mark_to_asic: opts2, then the whole of opts1. *)
ClearTag(ds, i) == [ds EXCEPT ![i].tag = NoFrame]
HandOver(ds, i, end) ==
    [ds EXCEPT ![i].own = TRUE, ![i].eor = end, ![i].status = NoFrame]

(* Both of them, where nobody else looks at the descriptor. *)
MarkToAsic(ds, i) == HandOver(ClearTag(ds, i), i, ds[i].eor)

(* Definitions named Mut... are plausible mistakes in the definition that     *)
(* follows them; nothing uses them but the runs that show a property can fail. *)

(* rtl8169_rx_clear: it stops at the first descriptor without a page. *)
Before(b, i) == \A j \in 0 .. i : b[j]
MutRxClear(b) == [i \in Slots |-> b[i] /\ (i = NumRxDesc - 1 \/ ~Before(b, i))]
RxClear(b) == [i \in Slots |-> b[i] /\ ~Before(b, i)]

(* The rings are freed; the next open gets zeroed memory. *)
FreeRing ==
    /\ databuff' = RxClear(databuff)
    /\ desc' = [i \in Slots |-> NoDesc] /\ page' = [i \in Slots |-> NoFrame]

Entry == cur_rx % NumRxDesc

-----------------------------------------------------------------------------
(* rtl_rx, called by rtl8169_poll when an interrupt or a busy-polling       *)
(* socket has scheduled it.                                                 *)
PollBegin ==
    /\ rpc = "idle" /\ napi = "on" /\ (nic.on \/ BusyPoll)
    /\ rpc' = "status" /\ rp' = NoRp
    /\ UNCHANGED <<ringv, devv, napi, rxall, nic, handed>>

(* The head of the loop: the budget, then opts1 of the next descriptor. *)
ReadStatus ==
    /\ rpc = "status"
    /\ IF rp.count < Budget /\ ~desc[Entry].own
       THEN /\ rpc' = "judge" /\ rp' = [rp EXCEPT !.status = desc[Entry].status]
       ELSE rpc' = "idle" /\ UNCHANGED rp
    /\ UNCHANGED <<ringv, devv, napi, rxall, nic, handed>>

(* A faulty frame is dropped, unless the user wants those that can be used. *)
Refused(f) == f \in Broken \/ (f \in Damaged /\ ~rxall)

Judge ==
    /\ rpc = "judge"
    /\ rpc' = IF Refused(rp.status) THEN "clear" ELSE "copy"
    /\ UNCHANGED <<rp, ringv, devv, napi, rxall, nic, handed>>

MutNoSkb ==
    /\ rpc = "copy" /\ Lossy /\ rpc' = "status"
    /\ rp' = [rp EXCEPT !.count = @ + 1] /\ cur_rx' = (cur_rx + 1) % U32
    /\ UNCHANGED <<desc, databuff, page, devv, napi, rxall, nic, handed>>

NoSkb ==
    /\ rpc = "copy" /\ Lossy /\ rpc' = "clear"
    /\ UNCHANGED <<rp, ringv, devv, napi, rxall, nic, handed>>

Copy ==
    /\ rpc = "copy" /\ rpc' = "deliver"
    /\ rp' = [rp EXCEPT !.data = page[Entry]]
    /\ UNCHANGED <<ringv, devv, napi, rxall, nic, handed>>

(* rtl8169_rx_vlan_tag and napi_gro_receive. *)
Deliver ==
    /\ rpc = "deliver" /\ rpc' = "clear"
    /\ handed' = [data |-> rp.data, status |-> rp.status, tag |-> desc[Entry].tag]
    /\ UNCHANGED <<rp, ringv, devv, napi, rxall, nic>>

(* release_descriptor: rtl8169_mark_to_asic beside a running chip. *)
ReleaseTag ==
    /\ rpc = "clear" /\ rpc' = "hand"
    /\ rp' = [rp EXCEPT !.eor = desc[Entry].eor]
    /\ desc' = ClearTag(desc, Entry)
    /\ UNCHANGED <<cur_rx, databuff, page, devv, napi, rxall, nic, handed>>

MutReleaseOwn ==
    /\ rpc = "hand" /\ rpc' = "status"
    /\ desc' = HandOver(desc, Entry, rp.eor)
    /\ cur_rx' = (cur_rx + 1) % U32 /\ UNCHANGED rp
    /\ UNCHANGED <<databuff, page, devv, napi, rxall, nic, handed>>

ReleaseOwn ==
    /\ rpc = "hand" /\ rpc' = "status"
    /\ desc' = HandOver(desc, Entry, rp.eor)
    /\ cur_rx' = (cur_rx + 1) % U32 /\ rp' = [rp EXCEPT !.count = @ + 1]
    /\ UNCHANGED <<databuff, page, devv, napi, rxall, nic, handed>>

Poll == ReadStatus \/ Judge \/ NoSkb \/ Copy \/ Deliver \/ ReleaseTag \/ ReleaseOwn

-----------------------------------------------------------------------------
(* rtl_open: rtl8169_init_ring, one descriptor at a time. *)
Open ==
    /\ dev = "closed" /\ dev' = "fill" /\ dk' = 0 /\ cur_rx' = 0
    /\ databuff' = [i \in Slots |-> FALSE]
    /\ UNCHANGED <<goal, ops, desc, page, pollv, napi, rxall, nic, handed>>

AllocRxData ==
    /\ dev = "fill" /\ dk < NumRxDesc
    /\ databuff' = [databuff EXCEPT ![dk] = TRUE]
    /\ desc' = MarkToAsic(desc, dk) /\ dk' = dk + 1
    /\ UNCHANGED <<cur_rx, page, dev, goal, ops, pollv, napi, rxall, nic, handed>>

(* A page, the interrupt or the PHY is not to be had. *)
OpenFails ==
    /\ dev \in {"fill", "filled"} /\ dev' = "closed" /\ FreeRing
    /\ UNCHANGED <<cur_rx, dk, goal, ops, pollv, napi, rxall, nic, handed>>

MutRingFilled ==
    /\ dev = "fill" /\ dk = NumRxDesc /\ dev' = "filled"
    /\ UNCHANGED <<dk, goal, ops, ringv, pollv, napi, rxall, nic, handed>>

RingFilled ==
    /\ dev = "fill" /\ dk = NumRxDesc /\ dev' = "filled"
    /\ desc' = [desc EXCEPT ![NumRxDesc - 1].eor = TRUE]
    /\ UNCHANGED <<cur_rx, databuff, page, dk, goal, ops, pollv, napi, rxall, nic, handed>>

(* rtl8169_up, at the end of open or of a resume: NAPI runs, then all of it *)
(* is torn down and started.                                                *)
Up ==
    /\ dev \in {"filled", "asleep"} /\ dev' = "disable" /\ goal' = "reset"
    /\ nic' = [nic EXCEPT !.master = TRUE] /\ napi' = "on"
    /\ UNCHANGED <<dk, ops, ringv, pollv, rxall, handed>>

(* The operations on a running device; down takes the bus from the chip. *)
Begin(kind) ==
    /\ dev = "running" /\ kind \in Kinds /\ ops < MaxOps /\ ops' = ops + 1

Teardown(kind) ==
    /\ Begin(kind) /\ dev' = "disable" /\ goal' = kind
    /\ nic' = [nic EXCEPT !.master = kind = "reset"]
    /\ UNCHANGED <<dk, ringv, pollv, napi, rxall, handed>>

(* rtl8169_set_features: the chip first, netdev->features when it returns. *)
SetFeatures ==
    /\ Begin("features") /\ dev' = "features"
    /\ nic' = [nic EXCEPT !.errors = ~rxall]
    /\ UNCHANGED <<dk, goal, ringv, pollv, napi, rxall, handed>>

FeaturesSet ==
    /\ dev = "features" /\ dev' = "running" /\ rxall' = ~rxall
    /\ UNCHANGED <<dk, goal, ops, ringv, pollv, napi, nic, handed>>

-----------------------------------------------------------------------------
(* rtl8169_cleanup: napi_disable keeps new polls out, then waits. *)
NapiDisable ==
    /\ dev = "disable" /\ dev' = "drain" /\ napi' = "closing"
    /\ UNCHANGED <<dk, goal, ops, ringv, pollv, rxall, nic, handed>>

MutDrained ==
    /\ dev = "drain"
    /\ dev' = "rx_close" /\ napi' = "off"
    /\ UNCHANGED <<dk, goal, ops, ringv, pollv, rxall, nic, handed>>

Drained ==
    /\ dev = "drain" /\ rpc = "idle"
    /\ dev' = "rx_close" /\ napi' = "off"
    /\ UNCHANGED <<dk, goal, ops, ringv, pollv, rxall, nic, handed>>

RxClose ==
    /\ dev = "rx_close" /\ dev' = "hw_reset"
    /\ nic' = [nic EXCEPT !.accept = FALSE]
    /\ UNCHANGED <<dk, goal, ops, ringv, pollv, napi, rxall, handed>>

HwReset ==
    /\ dev = "hw_reset" /\ dev' = "indexes"
    /\ nic' = [nic EXCEPT !.on = FALSE, !.mid = NoFrame]
    /\ UNCHANGED <<dk, goal, ops, ringv, pollv, napi, rxall, handed>>

AfterCleanup == IF goal = "reset" THEN "mark" ELSE IF goal = "sleep" THEN "asleep" ELSE "clear"

MutInitRingIndexes ==
    /\ dev = "indexes" /\ dev' = AfterCleanup /\ dk' = 0
    /\ UNCHANGED <<goal, ops, ringv, pollv, napi, rxall, nic, handed>>

InitRingIndexes ==
    /\ dev = "indexes" /\ dev' = AfterCleanup /\ dk' = 0
    /\ cur_rx' = 0
    /\ UNCHANGED <<goal, ops, desc, databuff, page, pollv, napi, rxall, nic, handed>>

(* rtl8169_close: rtl8169_rx_clear and the rest. *)
Clear ==
    /\ dev = "clear" /\ dev' = "closed" /\ FreeRing
    /\ UNCHANGED <<cur_rx, dk, goal, ops, pollv, napi, rxall, nic, handed>>

(* The rest of rtl_reset_work: every descriptor goes back to the chip. *)
Mark ==
    /\ dev = "mark" /\ dk < NumRxDesc
    /\ desc' = MarkToAsic(desc, dk) /\ dk' = dk + 1
    /\ UNCHANGED <<cur_rx, databuff, page, dev, goal, ops, pollv, napi, rxall, nic, handed>>

NapiEnable ==
    /\ dev = "mark" /\ dk = NumRxDesc
    /\ dev' = "hw_start" /\ napi' = "on"
    /\ UNCHANGED <<dk, goal, ops, ringv, pollv, rxall, nic, handed>>

(* rtl_hw_start: the ring's address and the enable bits, ... *)
HwStart ==
    /\ dev = "hw_start" /\ dev' = "rx_mode"
    /\ nic' = [nic EXCEPT !.on = TRUE, !.pos = 0]
    /\ UNCHANGED <<dk, goal, ops, ringv, pollv, napi, rxall, handed>>

(* ... then the filter. *)
SetRxMode ==
    /\ dev = "rx_mode" /\ dev' = "running"
    /\ nic' = [nic EXCEPT !.accept = TRUE, !.errors = rxall]
    /\ UNCHANGED <<dk, goal, ops, ringv, pollv, napi, rxall, handed>>

Device ==
    \/ AllocRxData \/ OpenFails \/ RingFilled \/ Up \/ FeaturesSet
    \/ NapiDisable \/ Drained \/ RxClose \/ HwReset \/ InitRingIndexes \/ Clear
    \/ Mark \/ NapiEnable \/ HwStart \/ SetRxMode

-----------------------------------------------------------------------------
(* The chip: it fills a page that it owns, ... *)
ChipReceive(f) ==
    /\ nic.on /\ nic.master /\ nic.accept /\ nic.mid = NoFrame
    /\ f \in Damaged => nic.errors
    /\ nic.pos \in Slots /\ desc[nic.pos].own
    /\ \A i \in Slots : desc[i].status # f
    /\ rp.status # f \/ rpc = "idle"
    /\ nic' = [nic EXCEPT !.mid = f]
    /\ page' = [page EXCEPT ![nic.pos] = f]
    /\ UNCHANGED <<cur_rx, desc, databuff, pollv, devv, napi, rxall, handed>>

(* ... then writes the descriptor back and goes on to the next. *)
ChipWriteBack ==
    /\ nic.on /\ nic.master /\ nic.mid # NoFrame
    /\ desc' = [desc EXCEPT ![nic.pos] = [own |-> FALSE, eor |-> @.eor,
                                          status |-> nic.mid, tag |-> nic.mid]]
    /\ nic' = [nic EXCEPT !.mid = NoFrame,
                          !.pos = IF desc[@].eor THEN 0 ELSE @ + 1]
    /\ UNCHANGED <<cur_rx, databuff, page, pollv, devv, napi, rxall, handed>>

-----------------------------------------------------------------------------
Next ==
    \/ PollBegin \/ Poll
    \/ Open \/ Device \/ SetFeatures
    \/ \E kind \in {"reset", "sleep", "close"} : Teardown(kind)
    \/ (\E f \in Frames : ChipReceive(f)) \/ ChipWriteBack

Spec == Init /\ [][Next]_vars

(* A written frame raises an interrupt that schedules the poll (IrqNapi), and *)
(* the kernel runs its threads and soft interrupts.                            *)
FairSpec ==
    /\ Spec /\ WF_vars(Poll) /\ WF_vars(Device)
    /\ WF_vars(PollBegin /\ ~desc[Entry].own)

-----------------------------------------------------------------------------
DevPlaces == {"closed", "fill", "filled", "running", "asleep", "features", "disable",
              "drain", "rx_close", "hw_reset", "indexes", "clear", "mark", "hw_start",
              "rx_mode"}
PollPlaces == {"idle", "status", "judge", "copy", "deliver", "clear", "hand"}

DescType == [own : BOOLEAN, eor : BOOLEAN, status : FrameOrNo, tag : FrameOrNo]
RingType == [Slots -> DescType]
RpType   == [status : FrameOrNo, data : FrameOrNo, eor : BOOLEAN, count : 0 .. Budget]
NicType  == [on : BOOLEAN, master : BOOLEAN, accept : BOOLEAN, errors : BOOLEAN,
             pos : Slots, mid : FrameOrNo]
HandedType == [data : FrameOrNo, status : FrameOrNo, tag : FrameOrNo]

(* The values of the variables. *)
TypeOK ==
    /\ cur_rx \in Index /\ desc \in RingType
    /\ databuff \in [Slots -> BOOLEAN] /\ page \in [Slots -> FrameOrNo]
    /\ rxall \in BOOLEAN /\ napi \in {"off", "on", "closing"}
    /\ rpc \in PollPlaces /\ rp \in RpType
    /\ dev \in DevPlaces /\ dk \in 0 .. NumRxDesc
    /\ goal \in {"none", "reset", "sleep", "close"} /\ ops \in 0 .. MaxOps
    /\ nic \in NicType /\ handed \in HandedType

(* While the chip runs, every descriptor has a mapped page and the last one, *)
(* and no other, sends the chip back to the start: the bit that rx_fill sets *)
(* once survives every frame and every reset (rtl8169_mark_to_asic).         *)
RingClosed ==
    nic.on => \A i \in Slots : databuff[i] /\ (desc[i].eor <=> i = NumRxDesc - 1)

(* While the chip runs, it and rtl_rx agree on who has what: the descriptors  *)
(* from cur_rx up to the chip's position are the host's, the others the       *)
(* chip's.  A reset that restarts one side without the other breaks this.     *)
Agreed ==
    nic.on => \E n \in 0 .. NumRxDesc :
        /\ nic.pos = (cur_rx + n) % NumRxDesc
        /\ \A j \in Slots : desc[(cur_rx + j) % NumRxDesc].own <=> j >= n

(* When the ring is closed no page is left: the failure paths of rx_fill and *)
(* rtl_open and the close free what was allocated so far.                    *)
NoPageLeft == dev = "closed" => \A i \in Slots : ~databuff[i]

(* The bytes, the checksum status and the VLAN tag of what the stack gets    *)
(* are those of one frame, even if the chip reuses the descriptor at once,   *)
(* and even if the poll runs on a ring that a suspend left behind.           *)
OneFrame == handed.status = handed.data /\ handed.tag = handed.data

(* rtl8169_cleanup gets past napi_disable although frames keep coming: the   *)
(* budget ends every poll, and no other follows.                             *)
TeardownEnds == dev = "disable" ~> dev \in {"running", "asleep", "closed"}

(* The frames the chip has written and rtl_rx has not yet dealt with. *)
Held == {n \in 0 .. NumRxDesc :
            \A j \in 0 .. n - 1 : ~desc[(cur_rx + j) % NumRxDesc].own}
Written == CHOOSE n \in Held : \A m \in Held : m <= n
Done == IF rpc \in {"clear", "hand"} THEN 1 ELSE 0
Waiting ==
    IF ~nic.on THEN <<>>
    ELSE [j \in 1 .. Written - Done |-> desc[(cur_rx + Done + j - 1) % NumRxDesc].status]

Queue == INSTANCE RxQueue WITH waiting <- Waiting

(* The receive path hands over the frames in order, each once and whole, and *)
(* every frame leaves the ring.                                               *)
DeliversInOrder == Queue!Spec
=============================================================================
