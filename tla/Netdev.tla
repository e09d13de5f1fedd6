------------------------------- MODULE Netdev -------------------------------
(***************************************************************************)
(* The settings of the network device, from what a user or the core asks   *)
(* for to what the chip has been told: features, MTU, coalescing, EEE and  *)
(* the tally counters, across restarts of the chip and power it loses.     *)
(* Two restarts run without rtnl, beside a change of the features: that of *)
(* a resume, and phylib's of an RTL8125 when the link goes down.           *)
(* The core, phylib, the PHY and the chip are external.  The registers one *)
(* access at a time are in ChipRegs.  Definitions named Mut... are         *)
(* mistakes in the definition that follows.                                *)
(***************************************************************************)
EXTENDS Coalesce, Offload, Probe

CONSTANTS
    Setups,      \* boards and what is asked of them: [xid, gmii, kinds, asks]
    Mtus,        \* the MTUs asked for
    Delays,      \* the delays asked for, in microseconds
    FrameCounts, \* and the frames
    Packets,     \* what the stack may send (see Offload)
    Adverts,     \* what may be asked to be advertised for EEE
    MaxEvents,   \* bound on what the chip counts; asks bounds the requests
    TallyMod     \* where its counter wraps

ASSUME NetdevAssumption ==
    /\ \A s \in Setups : rtl8169_get_mac_version(s.xid, s.gmii) \in Versions  \* a board it knows
    /\ MaxEvents \in Nat /\ TallyMod \in Nat \ {0, 1}
    /\ Mtus \subseteq Nat /\ Delays \subseteq Nat /\ FrameCounts \subseteq Nat
    /\ Packets \subseteq PacketType
    /\ "unset" \notin Adverts   \* eee_adv is -1 until it is set

VARIABLES
    mac_version, \* of the board
    focus,       \* the kinds of request this behaviour makes
    netdev,      \* mtu, max_mtu, wanted, features; open, and present while powered
    rtl_p,       \* cp_cmd: its bits and INTT; eee_adv, tc_offset, counters
    chip,        \* CPlusCmd, RxConfig, IntrMitigate, the txidle timer, the tally
    phy,         \* the EEE it advertises, and the speed of the link
    task,        \* the features the core is about to assign, under rtnl
    link,        \* whether phylib is inside rtl_reset_work
    resume,      \* whether a resume is
    tx,          \* the last packet the chip was handed whole
    past         \* what the properties compare: see Init

vars == <<mac_version, focus, netdev, rtl_p, chip, phy, task, link, resume, tx, past>>

Nothing == [sent |-> FALSE]
NoTask  == [busy |-> FALSE]
Cold    == [bits |-> {}, intt |-> 0, err |-> FALSE, vlan |-> FALSE, mitigate |-> Off,
            txidle |-> 0, tally |-> 0]

v     == mac_version
Idle  == ~task.busy
Awake == netdev.present
Powered == Awake \/ resume

-----------------------------------------------------------------------------
(* set_features: RxConfig follows the features, and CPlusCmd the copy.     *)
RxConfigOf(c, f) == [c EXCEPT !.err  = "rxall" \in f,
                              !.vlan = IF rtl_is_8125(v) THEN "rxvlan" \in f ELSE @]

CpBits(bits, f) ==
    LET follow == {"RxChkSum"} \cup (IF rtl_is_8125(v) THEN {} ELSE {"RxVlan"})
        on     == (IF "rxcsum" \in f THEN {"RxChkSum"} ELSE {})
                    \cup (IF "rxvlan" \in f THEN {"RxVlan"} ELSE {})
    IN  (bits \ follow) \cup (on \cap follow)

MutSetFeatures(f) ==
    /\ rtl_p' = rtl_p
    /\ chip' = IF Powered THEN [RxConfigOf(chip, f) EXCEPT !.bits = CpBits(@, f)] ELSE chip
rtl8169_set_features(f) ==
    /\ rtl_p' = [rtl_p EXCEPT !.bits = CpBits(@, f)]
    /\ chip' = IF Powered THEN [RxConfigOf(chip, f) EXCEPT !.bits = rtl_p'.bits, !.intt = rtl_p.intt]
                          ELSE chip

(* hw_start: CPlusCmd from the copy and no coalescing, then the rest.      *)
HwCpBits(bits) == bits \cup (IF v <= 6 THEN {"PCIMulRW"} ELSE {})
                       \cup (IF v \in {2, 3} THEN {"EnAnaPLL"} ELSE {})
HwStartBegins(c, bits) ==
    [c EXCEPT !.bits = HwCpBits(bits), !.intt = rtl_p.intt, !.mitigate = Off,
              !.txidle = IF v = 63 THEN netdev.mtu ELSE @]

rtl_hw_start(c) == RxConfigOf(HwStartBegins(c, rtl_p.bits), netdev.features)

(* A restart without rtnl may have read the copy before set_features wrote *)
(* it (a data race).                                                       *)
CpReads == {rtl_p.bits} \cup (IF task.busy THEN {task.was} ELSE {})

(* A dump, or a reset, of the tally: the chip answers in time, or not.     *)
Dumped(ok) == IF ok THEN chip.tally ELSE rtl_p.counters

Restarted == past' = [past EXCEPT !.asked = Off, !.raced = @ /\ (link \/ resume)]

-----------------------------------------------------------------------------
(* What the core makes of the features a user wants (external).            *)
CoreFix(f) ==
    f \ ((IF "sg" \in f THEN {} ELSE AllTso) \cup (IF "csum" \in f THEN {} ELSE {"tso"})
            \cup (IF "csum6" \in f THEN {} ELSE {"tso6"}))
Granted(mtu, wanted) == CoreFix(rtl8169_fix_features(v, mtu, wanted))

(* __netdev_update_features (external): asks the driver only for a change, *)
(* and assigns netdev->features when the driver is done.                   *)
Update(mtu, wanted, changing) ==
    LET f == Granted(mtu, wanted) IN
    /\ netdev' = [netdev EXCEPT !.mtu = mtu, !.wanted = wanted]
    /\ IF f # netdev.features
       THEN /\ rtl8169_set_features(f)
            /\ task' = [busy |-> TRUE, features |-> f, mtu |-> changing, was |-> rtl_p.bits]
            /\ past' = [past EXCEPT !.asks = @ - 1, !.mtu = Larger(mtu, @), !.torn = FALSE,
                                    !.raced = @ \/ link \/ resume]
       ELSE /\ chip' = IF changing /\ v \in {61, 63} THEN [chip EXCEPT !.txidle = mtu] ELSE chip
            /\ past' = [past EXCEPT !.asks = @ - 1, !.mtu = Larger(mtu, @)]
            /\ UNCHANGED <<rtl_p, task>>
    /\ tx' = Nothing

Asking(kind) == kind \in focus /\ Idle /\ past.asks > 0

AskFeature(x) ==
    /\ Asking(x) /\ x \in hw_features(v)
    /\ Update(netdev.mtu, IF x \in netdev.wanted THEN netdev.wanted \ {x} ELSE netdev.wanted \cup {x},
              FALSE)
    /\ UNCHANGED <<mac_version, focus, phy, link, resume>>

rtl8169_change_mtu(mtu) ==
    /\ Asking("mtu") /\ Awake /\ mtu # netdev.mtu /\ mtu <= netdev.max_mtu
    /\ Update(mtu, netdev.wanted, TRUE)
    /\ UNCHANGED <<mac_version, focus, phy, link, resume>>

(* The core assigns the features; a change of the MTU goes on to the timer. *)
AssignFeatures ==
    /\ task.busy
    /\ netdev' = [netdev EXCEPT !.features = task.features]
    /\ chip' = IF task.mtu /\ v \in {61, 63} THEN [chip EXCEPT !.txidle = netdev.mtu] ELSE chip
    /\ task' = NoTask
    /\ tx' = Nothing
    /\ UNCHANGED <<mac_version, focus, rtl_p, phy, link, resume, past>>

-----------------------------------------------------------------------------
(* ethtool -C: reads everything, changes one field, sets everything.       *)
PacketCounter(bits, ec) ==
    CASE ~rtl_is_8168evl_up(v) -> bits
      [] rtl_is_8168evl_up(v) /\ (\A s \in Sides : FramesOf(ec[s]) = 0) -> bits \cup {"PktCntrDisable"}
      [] OTHER                 -> bits \ {"PktCntrDisable"}

MutSetCoalesce(ec, w, i) ==
    /\ rtl_p' = [rtl_p EXCEPT !.bits = PacketCounter(@, ec)]
    /\ chip' = [chip EXCEPT !.mitigate = w, !.bits = rtl_p'.bits, !.intt = i]
rtl_set_coalesce(ec, w, i) ==
    /\ rtl_p' = [rtl_p EXCEPT !.intt = i, !.bits = PacketCounter(@, ec)]
    /\ chip' = [chip EXCEPT !.mitigate = w, !.bits = rtl_p'.bits, !.intt = i]

ReadBack == rtl_get_coalesce(v, phy.speed, rtl_p.intt, chip.mitigate)

SetCoalesce(s, field, x) ==
    LET ec == [ReadBack EXCEPT ![s][field] = x] IN
    /\ Asking("coalesce") /\ Awake
    /\ ec # ReadBack
    /\ Answer(v, phy.speed, ec) = "ok"
    /\ rtl_set_coalesce(ec, Mitigate(v, phy.speed, ec),
                        rtl_coalesce_choose_scale(v, phy.speed, Longest(ec)))
    /\ past' = [past EXCEPT !.asks = @ - 1, !.speed = phy.speed,
                            !.asked = [y \in Sides |-> [usecs |-> ec[y].usecs, frames |-> FramesOf(ec[y])]]]
    /\ tx' = Nothing
    /\ UNCHANGED <<mac_version, focus, netdev, phy, task, link, resume>>

(* Of an open device: closed, netdev->phydev is NULL, and the driver       *)
(* crashes in reading it (1929).                                           *)
rtl8169_set_eee(adv) ==
    /\ Asking("eee") /\ Awake /\ netdev.open /\ rtl_supports_eee(v)
    /\ phy' = [phy EXCEPT !.eee = adv]
    /\ rtl_p' = [rtl_p EXCEPT !.eee_adv = adv]
    /\ past' = [past EXCEPT !.asks = @ - 1, !.advert = adv]
    /\ tx' = Nothing
    /\ UNCHANGED <<mac_version, focus, netdev, chip, task, link, resume>>

(* The link comes up at another speed, or goes down (phylib).              *)
SpeedChanges(s) ==
    /\ "speed" \in focus /\ s # phy.speed
    /\ phy' = [phy EXCEPT !.speed = s]
    /\ tx' = Nothing
    /\ UNCHANGED <<mac_version, focus, netdev, rtl_p, chip, task, link, resume, past>>

-----------------------------------------------------------------------------
(* What rtl8169_up makes of the PHY, and the counter offsets of the first open. *)
rtl_enable_eee == IF rtl_p.eee_adv = "unset" THEN "able" ELSE rtl_p.eee_adv
rtl8169_init_phy ==
    phy' = [phy EXCEPT !.eee = IF rtl_supports_eee(v) THEN rtl_enable_eee ELSE @]

MutInitCounterOffsets(ok) ==
    IF v >= 19
    THEN /\ chip' = [rtl_hw_start(chip) EXCEPT !.tally = IF ok THEN 0 ELSE @]
         /\ rtl_p' = [rtl_p EXCEPT !.bits = HwCpBits(rtl_p.bits), !.inited = TRUE]
    ELSE /\ chip' = rtl_hw_start(chip)
         /\ rtl_p' = [rtl_p EXCEPT !.bits = HwCpBits(rtl_p.bits), !.inited = TRUE, !.counters = Dumped(ok),
                                   !.tc_offset = Dumped(ok)]
rtl8169_init_counter_offsets(ok) ==
    /\ chip' = [rtl_hw_start(chip) EXCEPT !.tally = IF ~rtl_p.inited /\ v >= 19 /\ ok THEN 0 ELSE @]
    /\ rtl_p' = IF rtl_p.inited \/ v >= 19
                THEN [rtl_p EXCEPT !.bits = HwCpBits(rtl_p.bits), !.inited = TRUE]
                ELSE [rtl_p EXCEPT !.bits = HwCpBits(rtl_p.bits), !.inited = TRUE, !.counters = Dumped(ok),
                                   !.tc_offset = Dumped(ok)]

rtl_open(ok) ==
    /\ ~netdev.open /\ Awake /\ Idle
    /\ netdev' = [netdev EXCEPT !.open = TRUE]
    /\ rtl8169_init_counter_offsets(ok)
    /\ rtl8169_init_phy
    /\ past' = [past EXCEPT !.asked = Off, !.raced = FALSE, !.mtu = netdev.mtu,
                            !.lost = @ \/ ~(ok \/ rtl_p.inited)]
    /\ tx' = Nothing
    /\ UNCHANGED <<mac_version, focus, task, link, resume>>

(* rtl8169_down waits in phy_stop for phylib, and dumps the tally.         *)
Down(ok) == rtl_p' = [rtl_p EXCEPT !.counters = Dumped(ok)]
Seen(ok) == IF ok THEN past.seen ELSE past.dumped

rtl8169_close(ok) ==
    /\ netdev.open /\ Awake /\ Idle /\ ~link
    /\ netdev' = [netdev EXCEPT !.open = FALSE]
    /\ Down(ok)
    /\ past' = [past EXCEPT !.dumped = Seen(ok)]
    /\ tx' = Nothing
    /\ UNCHANGED <<mac_version, focus, chip, phy, task, link, resume>>

(* Runtime or system suspend; the chip may lose its power.                 *)
Suspend(ok, lost) ==
    /\ "power" \in focus
    /\ Awake /\ Idle /\ ~link
    /\ netdev' = [netdev EXCEPT !.present = FALSE]
    /\ IF netdev.open THEN Down(ok) /\ past' = [past EXCEPT !.dumped = Seen(ok), !.lost = @ \/ lost,
                                                            !.asked = IF lost THEN Off ELSE @]
                      ELSE /\ past' = [past EXCEPT !.lost = @ \/ (lost /\ rtl_p.inited),
                                                   !.asked = IF lost THEN Off ELSE @]
                           /\ UNCHANGED rtl_p
    /\ chip' = IF lost THEN Cold ELSE chip
    /\ phy' = IF lost THEN [phy EXCEPT !.eee = "reset"] ELSE phy
    /\ tx' = Nothing
    /\ UNCHANGED <<mac_version, focus, task, link, resume>>

(* A resume takes no rtnl: the core may be in the middle of set_features,  *)
(* or call it before the device is attached again.                         *)
ResumeBegins ==
    /\ ~Awake /\ ~resume /\ netdev.open
    /\ resume' = TRUE
    /\ rtl8169_init_phy
    /\ \E read \in CpReads :
        /\ chip' = HwStartBegins(chip, read)
        /\ rtl_p' = IF v <= 6 THEN [rtl_p EXCEPT !.bits = HwCpBits(read)] ELSE rtl_p
        /\ past' = [past EXCEPT !.asked = Off, !.raced = task.busy,
                                !.torn = @ \/ (v <= 6 /\ read # rtl_p.bits)]
    /\ UNCHANGED <<netdev, task>>
ResumeEnds ==
    /\ resume
    /\ resume' = FALSE
    /\ netdev' = [netdev EXCEPT !.present = TRUE]
    /\ chip' = RxConfigOf(chip, netdev.features)
    /\ past' = [past EXCEPT !.raced = @ \/ task.busy]
    /\ UNCHANGED <<rtl_p, phy, task>>
ResumeClosed ==
    /\ ~Awake /\ ~netdev.open
    /\ netdev' = [netdev EXCEPT !.present = TRUE]
    /\ UNCHANGED <<rtl_p, chip, phy, task, resume, past>>
rtl8169_runtime_resume ==
    /\ ResumeBegins \/ ResumeEnds \/ ResumeClosed
    /\ tx' = Nothing
    /\ UNCHANGED <<mac_version, focus, link>>

(* rtl_task, after a timeout of the transmitter or an error of the bus;    *)
(* rtl8169_up lets it run beside the rest of a resume.                     *)
rtl_reset_work ==
    /\ netdev.open /\ Powered /\ Idle
    /\ chip' = rtl_hw_start(chip)
    /\ rtl_p' = [rtl_p EXCEPT !.bits = HwCpBits(rtl_p.bits)]
    /\ Restarted
    /\ tx' = Nothing
    /\ UNCHANGED <<mac_version, focus, netdev, phy, task, link, resume>>

(* The link of an RTL8125 goes down: the same, from phylib without rtnl.   *)
LinkDownBegins ==
    /\ "speed" \in focus /\ rtl_is_8125(v)
    /\ netdev.open /\ Awake /\ ~link
    /\ link' = TRUE
    /\ \E read \in CpReads : chip' = HwStartBegins(chip, read)
    /\ past' = [past EXCEPT !.raced = @ \/ task.busy]
    /\ tx' = Nothing
    /\ UNCHANGED <<mac_version, focus, netdev, rtl_p, phy, task, resume>>
LinkDownEnds ==
    /\ link
    /\ link' = FALSE
    /\ chip' = RxConfigOf(chip, netdev.features)
    /\ past' = [past EXCEPT !.raced = @ \/ task.busy]
    /\ tx' = Nothing
    /\ UNCHANGED <<mac_version, focus, netdev, rtl_p, phy, task, resume>>

-----------------------------------------------------------------------------
Counts ==
    /\ "stats" \in focus /\ netdev.open /\ Awake /\ past.events < MaxEvents
    /\ chip' = [chip EXCEPT !.tally = (@ + 1) % TallyMod]
    /\ past' = [past EXCEPT !.events = @ + 1, !.seen = @ + 1,
                            !.lost = @ \/ chip.tally + 1 = TallyMod]
    /\ tx' = Nothing
    /\ UNCHANGED <<mac_version, focus, netdev, rtl_p, phy, task, link, resume>>

(* get_stats64 asks the chip only while it is awake, and its receiver on.  *)
rtl8169_get_stats64(ok) ==
    /\ "stats" \in focus /\ netdev.open /\ Awake
    /\ rtl_p' = [rtl_p EXCEPT !.counters = Dumped(ok)]
    /\ past' = [past EXCEPT !.dumped = Seen(ok)]
    /\ tx' = Nothing
    /\ UNCHANGED <<mac_version, focus, netdev, chip, phy, task, link, resume>>
rx_missed_errors == rtl_p.counters - rtl_p.tc_offset

(* The stack offers a packet (external): it keeps for itself what          *)
(* features_check takes away, cutting the segments or adding the checksum. *)
(* The packet was made for the MTU of any time since the device was opened *)
(* (closing it empties the queue), its features are looked up now.         *)
CanSum(p, f) == (p.ip = "4" /\ "csum" \in f) \/ (p.ip = "6" /\ "csum6" \in f)
Fits(p, mtu) == IF p.gso = "no" THEN p.len <= mtu + 14 ELSE p.mss <= mtu - 40

Transmit(p) ==
    LET f    == rtl8169_features_check(v, p, netdev.features)
        sent == [p EXCEPT !.sum = @ /\ CanSum(p, f)]
    IN  /\ "tx" \in focus /\ netdev.open /\ Awake /\ Fits(p, past.mtu)
        /\ p.gso # "no" => (p.gso = "4" /\ "tso" \in f) \/ (p.gso = "6" /\ "tso6" \in f)
        /\ tx' = [sent |-> TRUE, ask |-> Request(v, sent), packet |-> sent,
                  early |-> task.busy /\ task.mtu, late |-> ~Fits(p, netdev.mtu)]
        /\ UNCHANGED <<mac_version, focus, netdev, rtl_p, chip, phy, task, link, resume, past>>

-----------------------------------------------------------------------------
(* After probe: the default features told to the chip; what the tally held *)
(* before is anything.                                                     *)
Init ==
    \E s \in Setups, t \in 0 .. 1 :
        /\ mac_version = rtl8169_get_mac_version(s.xid, s.gmii)
        /\ focus = s.kinds
        /\ netdev = [mtu |-> ETH_DATA_LEN, wanted |-> DefaultFeatures(v),
                     features |-> DefaultFeatures(v), max_mtu |-> rtl_jumbo_max(v, s.gmii),
                     open |-> FALSE, present |-> TRUE]
        /\ rtl_p = [bits |-> CpBits({}, DefaultFeatures(v)), intt |-> 0, eee_adv |-> "unset",
                    inited |-> FALSE, tc_offset |-> 0, counters |-> 0]
        /\ t = 0 \/ "stats" \in s.kinds
        /\ chip = [RxConfigOf(Cold, DefaultFeatures(v)) EXCEPT
                       !.bits = CpBits({}, DefaultFeatures(v)), !.tally = t]
        /\ phy = [eee |-> "reset", speed |-> Unknown]
        /\ task = NoTask /\ link = FALSE /\ resume = FALSE /\ tx = Nothing
        /\ past = [asked  |-> Off,     \* the coalescing asked for since the last restart
                   speed  |-> Unknown, \* and the speed of the link then
                   advert |-> "able",  \* the EEE asked for
                   raced  |-> FALSE,   \* a restart without rtnl overlapped set_features
                   torn   |-> FALSE,   \* and its |= undid what that did to the copy
                   mtu    |-> ETH_DATA_LEN, \* the largest since the device was opened
                   seen   |-> 0,       \* what the chip counted since the first open
                   dumped |-> 0,       \* and had when last it was dumped
                   lost   |-> FALSE,   \* the tally wrapped, lost its power or did not answer at first
                   events |-> 0, asks |-> s.asks]

Next ==
    \/ \E x \in hw_features(v) : AskFeature(x)
    \/ \E m \in Mtus : rtl8169_change_mtu(m)
    \/ AssignFeatures
    \/ \E s \in Sides, x \in Delays : SetCoalesce(s, "usecs", x)
    \/ \E s \in Sides, x \in FrameCounts : SetCoalesce(s, "frames", x)
    \/ \E a \in Adverts : rtl8169_set_eee(a)
    \/ \E s \in Speeds \cup {Unknown} : SpeedChanges(s)
    \/ \E ok \in BOOLEAN : rtl_open(ok) \/ rtl8169_close(ok) \/ rtl8169_get_stats64(ok)
    \/ \E ok, lost \in BOOLEAN : Suspend(ok, lost)
    \/ rtl8169_runtime_resume \/ rtl_reset_work \/ LinkDownBegins \/ LinkDownEnds
    \/ Counts
    \/ \E p \in Packets : Transmit(p)

Spec == Init /\ [][Next]_vars

-----------------------------------------------------------------------------

(* Whatever was asked for while the chip was closed (features, MTU),       *)
(* asleep, restarting or awake, an open chip that nobody is changing has   *)
(* it: CPlusCmd is the copy, the receive bits follow the features, the PHY *)
(* advertises the EEE the user asked for, and the RTL8125B idles by the    *)
(* MTU.  Not promised where a restart without rtnl, phylib's or that of a  *)
(* resume, overlaps set_features, which it reads before the core assigns   *)
(* (1528, 3774), until the next restart; nor where on the RTL8169 the |=   *)
(* of that restart (3732) undoes what set_features did to the copy, until  *)
(* the features change again.                                              *)
SettingsReachChip ==
    (netdev.open /\ Awake /\ Idle /\ ~link /\ ~past.raced /\ ~past.torn) =>
        /\ chip.bits = rtl_p.bits /\ chip.intt = rtl_p.intt
        /\ ("RxChkSum" \in chip.bits) <=> ("rxcsum" \in netdev.features)
        /\ IF rtl_is_8125(v) THEN chip.vlan = ("rxvlan" \in netdev.features)
                             ELSE ("RxVlan" \in chip.bits) <=> ("rxvlan" \in netdev.features)
        /\ chip.err = ("rxall" \in netdev.features)
        /\ rtl_supports_eee(v) => phy.eee = past.advert
        /\ v = 63 => chip.txidle = netdev.mtu

(* The delay in the registers, in the units of the speed it was asked at,  *)
(* is the one asked for or less than a unit longer, and the frames at most *)
(* three more; a frame limit is never asked for with the packet counter    *)
(* off; and what ethtool reads back it may set again unchanged, unless     *)
(* rounding took it past the longest range.                                *)
CoalesceAsAsked ==
    ~rtl_is_8125(v) =>
        LET unit == rtl_coalesce_info(v, past.speed, chip.intt)
        IN  /\ \A s \in Sides :
                 /\ past.asked[s].usecs * 1000 <= chip.mitigate[s].usecs * unit
                 /\ chip.mitigate[s].usecs * unit < past.asked[s].usecs * 1000 + unit
                 /\ chip.mitigate[s].frames * 4 \in past.asked[s].frames .. past.asked[s].frames + 3
                 /\ (rtl_is_8168evl_up(v) /\ past.asked[s].frames > 0) => "PktCntrDisable" \notin chip.bits
            /\ \/ Answer(v, phy.speed, ReadBack) = "ok"
               \/ Scales(v, phy.speed, Longest(ReadBack)) = {}

(* A packet the chip gets whole asks for what its descriptors can say and  *)
(* the chip can do: offsets fit their fields, and whatever a chip must     *)
(* have padded is padded; segments fit theirs, and the chips after the     *)
(* RTL8169 get no checksum or segmentation of large frames.  The latter is *)
(* not promised while a change of the MTU has not taken the features away  *)
(* yet (3781), nor of a packet queued before the MTU was lowered: it is    *)
(* offered the features again that its size rules out, and neither         *)
(* features_check nor start_xmit looks at the size.                        *)
RequestsFit ==
    tx.sent =>
        LET a == tx.ask  p == tx.packet IN
        /\ ~tx.early /\ ~tx.late =>
             /\ a.mss <= TD_MSS_MAX
             /\ (v > 6 /\ (p.len > ETH_DATA_LEN + 14) /\ p.gso = "no") => a.bits = {}
             /\ v > 6 => a.mss <= ETH_DATA_LEN
        /\ a.toff <= (IF a.mss > 0 THEN GTTCPHO_MAX ELSE TCPHO_MAX)
        /\ (v \in {34, 61, 63} /\ p.gso = "no") => (a.bits = {} /\ a.len >= ETH_ZLEN)
        /\ (a.bits # {} /\ p.gso = "no") => p.len >= ETH_ZLEN
        /\ (v = 34 /\ p.gso # "no") => ~EvlRefuses(p)

(* What get_stats64 shows is what the chip counted since the first open,   *)
(* as of the last dump: not what it held before the driver, and neither    *)
(* less nor twice after a close, a sleep that kept its power, a restart or *)
(* a dump that timed out.                                                  *)
StatsExact == (rtl_p.inited /\ ~past.lost) => rx_missed_errors = past.dumped
=============================================================================
