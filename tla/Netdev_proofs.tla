---------------------------- MODULE Netdev_proofs ----------------------------
(***************************************************************************)
(* The four safety properties of Netdev, for every board, every value of   *)
(* the requests and every sequence of them: what get_stats64 shows is      *)
(* exact (SInv), a packet asks for what fits (FInv), the chip has its      *)
(* settings (PInv), and coalesces as it was asked to (MInv).               *)
(***************************************************************************)
EXTENDS Netdev, TLAPS

(* The parts of the driver's state the statistics are made of. *)
Shape ==
    /\ {"inited", "tc_offset", "counters"} \subseteq DOMAIN rtl_p
    /\ "tally" \in DOMAIN chip
    /\ {"seen", "dumped", "lost"} \subseteq DOMAIN past
    /\ "open" \in DOMAIN netdev

Numbers ==
    /\ chip.tally \in Nat /\ chip.tally < TallyMod
    /\ rtl_p.counters \in Nat /\ rtl_p.tc_offset \in Nat
    /\ past.seen \in Nat /\ past.dumped \in Nat

(* The tally is ahead of the offset by what was counted since the first      *)
(* open, and the last dump by what was counted then; before it, nothing was. *)
Exact ==
    /\ rtl_p.inited /\ ~past.lost =>
          /\ chip.tally = rtl_p.tc_offset + past.seen
          /\ rtl_p.counters = rtl_p.tc_offset + past.dumped
    /\ ~rtl_p.inited =>
          /\ ~netdev.open
          /\ past.seen = 0 /\ past.dumped = 0 /\ rtl_p.counters = 0 /\ rtl_p.tc_offset = 0

SInv == Shape /\ Numbers /\ Exact

(* A step that leaves all of these alone. *)
Untouched ==
    /\ chip'.tally = chip.tally
    /\ rtl_p'.inited = rtl_p.inited /\ rtl_p'.tc_offset = rtl_p.tc_offset
    /\ rtl_p'.counters = rtl_p.counters
    /\ past'.seen = past.seen /\ past'.dumped = past.dumped /\ past'.lost = past.lost
    /\ netdev'.open = netdev.open

(* Steps that leave the statistics alone keep what is known of them.         *)
LEMMA UntouchedKeeps == ASSUME SInv, Shape', Untouched PROVE SInv'
BY DEF SInv, Numbers, Exact, Untouched

(* Neither the start of the chip nor its receive bits touch the tally. *)
LEMMA RxConfigTally ==
    ASSUME NEW c, NEW f, "tally" \in DOMAIN c
    PROVE  RxConfigOf(c, f).tally = c.tally /\ "tally" \in DOMAIN RxConfigOf(c, f)
BY DEF RxConfigOf

(* The start of the chip leaves its tally alone.                             *)
LEMMA HwStartBeginsTally ==
    ASSUME NEW c, NEW bits, "tally" \in DOMAIN c
    PROVE  HwStartBegins(c, bits).tally = c.tally /\ "tally" \in DOMAIN HwStartBegins(c, bits)
BY DEF HwStartBegins

(* So does the whole of rtl_hw_start.                                        *)
LEMMA HwStartTally ==
    ASSUME NEW c, "tally" \in DOMAIN c
    PROVE  rtl_hw_start(c).tally = c.tally /\ "tally" \in DOMAIN rtl_hw_start(c)
BY HwStartBeginsTally, RxConfigTally DEF rtl_hw_start

(* And a change of features.                                                 *)
LEMMA SetFeaturesTally ==
    ASSUME Shape, NEW f, rtl8169_set_features(f)
    PROVE  /\ chip'.tally = chip.tally /\ "tally" \in DOMAIN chip'
           /\ rtl_p'.inited = rtl_p.inited /\ rtl_p'.tc_offset = rtl_p.tc_offset
           /\ rtl_p'.counters = rtl_p.counters
           /\ {"inited", "tc_offset", "counters"} \subseteq DOMAIN rtl_p'
<1>1. /\ rtl_p'.inited = rtl_p.inited /\ rtl_p'.tc_offset = rtl_p.tc_offset
      /\ rtl_p'.counters = rtl_p.counters
      /\ {"inited", "tc_offset", "counters"} \subseteq DOMAIN rtl_p'
  BY DEF rtl8169_set_features, Shape
<1>2. DEFINE c == RxConfigOf(chip, f)
<1>3. c.tally = chip.tally /\ "tally" \in DOMAIN c
  BY RxConfigTally DEF Shape
<1>4. CASE Powered
  <2>1. chip' = [c EXCEPT !.bits = rtl_p'.bits, !.intt = rtl_p.intt]
    BY <1>4 DEF rtl8169_set_features
  <2> HIDE DEF c
  <2> QED BY <2>1, <1>1, <1>3
<1>5. CASE ~Powered
  BY <1>1, <1>5 DEF rtl8169_set_features, Shape
<1> QED BY <1>4, <1>5

(* Below the wrap, counting adds one. *)
LEMMA CountsOn ==
    ASSUME NEW t \in Nat, t < TallyMod
    PROVE  /\ (t + 1) % TallyMod \in Nat /\ (t + 1) % TallyMod < TallyMod
           /\ t + 1 # TallyMod => (t + 1) % TallyMod = t + 1
BY NetdevAssumption

-----------------------------------------------------------------------------
(* The requests: none of them is about the counters. *)
LEMMA UpdateStep ==
    ASSUME SInv, NEW mtu, NEW wanted, NEW changing, Update(mtu, wanted, changing)
    PROVE  Shape' /\ Untouched
<1> DEFINE f == Granted(mtu, wanted)
<1>1. /\ netdev' = [netdev EXCEPT !.mtu = mtu, !.wanted = wanted]
      /\ \/ past' = [past EXCEPT !.asks = @ - 1, !.mtu = Larger(mtu, @), !.torn = FALSE,
                                 !.raced = @ \/ link \/ resume]
         \/ past' = [past EXCEPT !.asks = @ - 1, !.mtu = Larger(mtu, @)]
  BY DEF Update
<1>2. \/ rtl8169_set_features(f)
      \/ /\ UNCHANGED rtl_p
         /\ chip' = chip \/ chip' = [chip EXCEPT !.txidle = mtu]
  BY DEF Update
<1>3. /\ netdev'.open = netdev.open /\ "open" \in DOMAIN netdev'
      /\ past'.seen = past.seen /\ past'.dumped = past.dumped /\ past'.lost = past.lost
      /\ {"seen", "dumped", "lost"} \subseteq DOMAIN past'
  BY <1>1 DEF SInv, Shape
<1>4. CASE rtl8169_set_features(f)
  BY <1>3, <1>4, SetFeaturesTally DEF SInv, Shape, Untouched
<1>5. CASE UNCHANGED rtl_p /\ (chip' = chip \/ chip' = [chip EXCEPT !.txidle = mtu])
  BY <1>3, <1>5 DEF SInv, Shape, Untouched
<1> QED BY <1>2, <1>4, <1>5

(* Requests of settings leave the statistics alone.                          *)
LEMMA RequestStep ==
    ASSUME SInv,
           \/ \E x \in hw_features(v) : AskFeature(x)
           \/ \E m \in Mtus : rtl8169_change_mtu(m)
           \/ AssignFeatures
           \/ \E s \in Sides, x \in Delays : SetCoalesce(s, "usecs", x)
           \/ \E s \in Sides, x \in FrameCounts : SetCoalesce(s, "frames", x)
           \/ \E a \in Adverts : rtl8169_set_eee(a)
           \/ \E s \in Speeds \cup {Unknown} : SpeedChanges(s)
    PROVE  Shape' /\ Untouched
<1>1. ASSUME NEW x, AskFeature(x) PROVE Shape' /\ Untouched
  BY <1>1, UpdateStep DEF AskFeature
<1>2. ASSUME NEW m, rtl8169_change_mtu(m) PROVE Shape' /\ Untouched
  BY <1>2, UpdateStep DEF rtl8169_change_mtu
<1>3. CASE AssignFeatures
  <2>1. /\ netdev' = [netdev EXCEPT !.features = task.features]
        /\ chip' = chip \/ chip' = [chip EXCEPT !.txidle = netdev.mtu]
        /\ UNCHANGED <<rtl_p, past>>
    BY <1>3 DEF AssignFeatures
  <2> QED BY <2>1 DEF SInv, Shape, Untouched
<1>4. ASSUME NEW s, NEW field, NEW x, SetCoalesce(s, field, x) PROVE Shape' /\ Untouched
  <2>1. PICK ec, w, i : rtl_set_coalesce(ec, w, i)
    BY <1>4 DEF SetCoalesce
  <2>2. /\ rtl_p'.inited = rtl_p.inited /\ rtl_p'.tc_offset = rtl_p.tc_offset
        /\ rtl_p'.counters = rtl_p.counters /\ chip'.tally = chip.tally
        /\ {"inited", "tc_offset", "counters"} \subseteq DOMAIN rtl_p' /\ "tally" \in DOMAIN chip'
    BY <2>1 DEF rtl_set_coalesce, SInv, Shape
  <2>3. PICK a : past' = [past EXCEPT !.asks = @ - 1, !.speed = phy.speed, !.asked = a]
    BY <1>4 DEF SetCoalesce
  <2>4. UNCHANGED netdev
    BY <1>4 DEF SetCoalesce
  <2> QED BY <2>2, <2>3, <2>4 DEF SInv, Shape, Untouched
<1>5. ASSUME NEW a, rtl8169_set_eee(a) PROVE Shape' /\ Untouched
  BY <1>5 DEF rtl8169_set_eee, SInv, Shape, Untouched
<1>6. ASSUME NEW s, SpeedChanges(s) PROVE Shape' /\ Untouched
  BY <1>6 DEF SpeedChanges, SInv, Shape, Untouched
<1> QED BY <1>1, <1>2, <1>3, <1>4, <1>5, <1>6

-----------------------------------------------------------------------------
(* Restarts of the chip keep the tally, whoever makes them. *)
LEMMA RestartStep ==
    ASSUME SInv, rtl8169_runtime_resume \/ rtl_reset_work \/ LinkDownBegins \/ LinkDownEnds
    PROVE  Shape' /\ Untouched
<1>1. Shape
  BY DEF SInv
<1>2. CASE rtl8169_runtime_resume
  <2>1. CASE ResumeBegins
    <3>1. PICK read \in CpReads :
            /\ chip' = HwStartBegins(chip, read)
            /\ rtl_p' = IF v <= 6 THEN [rtl_p EXCEPT !.bits = HwCpBits(read)] ELSE rtl_p
            /\ past' = [past EXCEPT !.asked = Off, !.raced = task.busy,
                                    !.torn = @ \/ (v <= 6 /\ read # rtl_p.bits)]
      BY <2>1 DEF ResumeBegins
    <3>2. UNCHANGED netdev
      BY <2>1 DEF ResumeBegins
    <3>3. chip'.tally = chip.tally /\ "tally" \in DOMAIN chip'
      BY <1>1, <3>1, HwStartBeginsTally DEF Shape
    <3> QED BY <1>1, <3>1, <3>2, <3>3 DEF Shape, Untouched
  <2>2. CASE ResumeEnds
    <3>1. /\ netdev' = [netdev EXCEPT !.present = TRUE]
          /\ chip' = RxConfigOf(chip, netdev.features)
          /\ past' = [past EXCEPT !.raced = @ \/ task.busy]
          /\ UNCHANGED rtl_p
      BY <2>2 DEF ResumeEnds
    <3>2. chip'.tally = chip.tally /\ "tally" \in DOMAIN chip'
      BY <1>1, <3>1, RxConfigTally DEF Shape
    <3> QED BY <1>1, <3>1, <3>2 DEF Shape, Untouched
  <2>3. CASE ResumeClosed
    BY <1>1, <2>3 DEF ResumeClosed, Shape, Untouched
  <2> QED BY <1>2, <2>1, <2>2, <2>3 DEF rtl8169_runtime_resume
<1>3. CASE rtl_reset_work
  <2>1. /\ chip' = rtl_hw_start(chip) /\ rtl_p' = [rtl_p EXCEPT !.bits = HwCpBits(rtl_p.bits)]
        /\ Restarted /\ UNCHANGED netdev
    BY <1>3 DEF rtl_reset_work
  <2>2. chip'.tally = chip.tally /\ "tally" \in DOMAIN chip'
    BY <1>1, <2>1, HwStartTally DEF Shape
  <2> QED BY <1>1, <2>1, <2>2 DEF Restarted, Shape, Untouched
<1>4. CASE LinkDownBegins
  <2>1. /\ \E read : chip' = HwStartBegins(chip, read)
        /\ past' = [past EXCEPT !.raced = @ \/ task.busy]
        /\ UNCHANGED <<netdev, rtl_p>>
    BY <1>4 DEF LinkDownBegins
  <2>2. chip'.tally = chip.tally /\ "tally" \in DOMAIN chip'
    BY <1>1, <2>1, HwStartBeginsTally DEF Shape
  <2> QED BY <1>1, <2>1, <2>2 DEF Shape, Untouched
<1>5. CASE LinkDownEnds
  <2>1. /\ chip' = RxConfigOf(chip, netdev.features) /\ past' = [past EXCEPT !.raced = @ \/ task.busy]
        /\ UNCHANGED <<netdev, rtl_p>>
    BY <1>5 DEF LinkDownEnds
  <2>2. chip'.tally = chip.tally /\ "tally" \in DOMAIN chip'
    BY <1>1, <2>1, RxConfigTally DEF Shape
  <2> QED BY <1>1, <2>1, <2>2 DEF Shape, Untouched
<1> QED BY <1>2, <1>3, <1>4, <1>5

-----------------------------------------------------------------------------
(* The first open resets the tally or takes it as the offset; a later one     *)
(* does neither.                                                              *)
LEMMA OpenStep == ASSUME SInv, NEW ok \in BOOLEAN, rtl_open(ok) PROVE SInv'
<1>1. /\ ~netdev.open /\ netdev' = [netdev EXCEPT !.open = TRUE]
      /\ past' = [past EXCEPT !.asked = Off, !.raced = FALSE, !.mtu = netdev.mtu,
                              !.lost = @ \/ ~(ok \/ rtl_p.inited)]
      /\ rtl8169_init_counter_offsets(ok)
  BY DEF rtl_open
<1>2. LET c == rtl_hw_start(chip) IN
      /\ c.tally = chip.tally /\ "tally" \in DOMAIN c
      /\ chip' = [c EXCEPT !.tally = IF ~rtl_p.inited /\ v >= 19 /\ ok THEN 0 ELSE @]
  BY <1>1, HwStartTally DEF SInv, Shape, rtl8169_init_counter_offsets
<1>3. /\ chip'.tally = IF ~rtl_p.inited /\ v >= 19 /\ ok THEN 0 ELSE chip.tally
      /\ "tally" \in DOMAIN chip'
  BY <1>2
<1>4. /\ past'.seen = past.seen /\ past'.dumped = past.dumped
      /\ past'.lost = (past.lost \/ ~(ok \/ rtl_p.inited))
      /\ {"seen", "dumped", "lost"} \subseteq DOMAIN past'
      /\ "open" \in DOMAIN netdev'
  BY <1>1 DEF SInv, Shape
<1>5. CASE rtl_p.inited \/ v >= 19
  <2>1. /\ rtl_p'.inited = TRUE /\ rtl_p'.counters = rtl_p.counters
        /\ rtl_p'.tc_offset = rtl_p.tc_offset
        /\ {"inited", "tc_offset", "counters"} \subseteq DOMAIN rtl_p'
    BY <1>1, <1>5 DEF SInv, Shape, rtl8169_init_counter_offsets
  <2>2. Shape' /\ Numbers'
    BY <1>3, <1>4, <2>1, NetdevAssumption DEF SInv, Shape, Numbers
  <2>3. CASE rtl_p.inited
    BY <1>3, <1>4, <2>1, <2>2, <2>3 DEF SInv, Exact
  <2>4. CASE ~rtl_p.inited
    <3>1. /\ past.seen = 0 /\ past.dumped = 0
          /\ rtl_p.counters = 0 /\ rtl_p.tc_offset = 0
      BY <2>4 DEF SInv, Exact
    <3>2. CASE ok = TRUE
      <4>1. chip'.tally = 0
        BY <1>3, <1>5, <2>4, <3>2
      <4> QED BY <1>4, <2>1, <2>2, <3>1, <4>1 DEF SInv, Exact
    <3>3. CASE ok = FALSE
      <4>1. past'.lost
        BY <1>4, <2>4, <3>3
      <4> QED BY <2>1, <2>2, <4>1 DEF SInv, Exact
    <3> QED BY <3>2, <3>3
  <2> QED BY <2>3, <2>4
<1>6. CASE ~(rtl_p.inited \/ v >= 19)
  <2>1. /\ rtl_p'.inited = TRUE /\ rtl_p'.counters = Dumped(ok) /\ rtl_p'.tc_offset = Dumped(ok)
        /\ {"inited", "tc_offset", "counters"} \subseteq DOMAIN rtl_p'
    BY <1>1, <1>6 DEF SInv, Shape, rtl8169_init_counter_offsets
  <2>2. Dumped(ok) \in Nat /\ (ok => Dumped(ok) = chip.tally)
    BY DEF Dumped, SInv, Numbers
  <2>3. Shape' /\ Numbers'
    BY <1>3, <1>4, <1>6, <2>1, <2>2 DEF SInv, Shape, Numbers
  <2>4. ~rtl_p.inited
    BY <1>6
  <2>5. past.seen = 0 /\ past.dumped = 0
    BY <2>4 DEF SInv, Exact
  <2>6. ~past'.lost => ok
    BY <1>4, <1>6
  <2>7. Exact'
    BY <1>3, <1>4, <1>6, <2>1, <2>2, <2>5, <2>6 DEF SInv, Numbers, Exact
  <2> QED BY <2>3, <2>7 DEF SInv
<1> QED BY <1>5, <1>6

(* A dump, in time or not: what is shown is what was there when it was taken. *)
LEMMA DumpKeeps ==
    ASSUME SInv, NEW ok \in BOOLEAN,
           rtl_p' = [rtl_p EXCEPT !.counters = Dumped(ok)],
           {"seen", "dumped", "lost"} \subseteq DOMAIN past', "tally" \in DOMAIN chip',
           past'.seen = past.seen, past'.dumped = Seen(ok),
           past.lost => past'.lost,
           chip'.tally = chip.tally \/ (past'.lost /\ chip'.tally = 0),
           "open" \in DOMAIN netdev', rtl_p.inited
    PROVE  SInv'
<1>1. /\ rtl_p'.inited /\ rtl_p'.tc_offset = rtl_p.tc_offset
      /\ rtl_p'.counters = Dumped(ok)
      /\ {"inited", "tc_offset", "counters"} \subseteq DOMAIN rtl_p'
  BY DEF SInv, Shape
<1>2. CASE ok = TRUE
  <2>1. Dumped(ok) = chip.tally /\ Seen(ok) = past.seen
    BY <1>2 DEF Dumped, Seen
  <2> QED BY <1>1, <2>1, NetdevAssumption DEF SInv, Shape, Numbers, Exact
<1>3. CASE ok = FALSE
  <2>1. Dumped(ok) = rtl_p.counters /\ Seen(ok) = past.dumped
    BY <1>3 DEF Dumped, Seen
  <2> QED BY <1>1, <2>1, NetdevAssumption DEF SInv, Shape, Numbers, Exact
<1> QED BY <1>2, <1>3

(* The offset was taken by the first open.                                   *)
LEMMA OpenIsInited == ASSUME SInv, netdev.open PROVE rtl_p.inited
BY DEF SInv, Exact

(* The dump of a close, or of a reader, whether the chip answers or not.     *)
LEMMA CloseStep ==
    ASSUME SInv, NEW ok \in BOOLEAN, rtl8169_close(ok) \/ rtl8169_get_stats64(ok)
    PROVE  SInv'
<1>1. /\ netdev.open
      /\ netdev' = netdev \/ netdev' = [netdev EXCEPT !.open = FALSE]
      /\ rtl_p' = [rtl_p EXCEPT !.counters = Dumped(ok)]
      /\ past' = [past EXCEPT !.dumped = Seen(ok)]
      /\ UNCHANGED chip
  BY DEF rtl8169_close, rtl8169_get_stats64, Down
<1>2. rtl_p.inited
  BY <1>1, OpenIsInited DEF rtl8169_close, rtl8169_get_stats64
<1>3. /\ {"seen", "dumped", "lost"} \subseteq DOMAIN past' /\ "tally" \in DOMAIN chip'
      /\ past'.seen = past.seen /\ past'.dumped = Seen(ok) /\ past'.lost = past.lost
      /\ chip'.tally = chip.tally /\ "open" \in DOMAIN netdev'
  BY <1>1 DEF SInv, Shape
<1> QED BY <1>1, <1>2, <1>3, DumpKeeps

(* The dump of a suspend, and what the sleep does to the tally.              *)
LEMMA SuspendStep ==
    ASSUME SInv, NEW ok \in BOOLEAN, NEW off \in BOOLEAN, Suspend(ok, off) PROVE SInv'
<1>1. /\ netdev' = [netdev EXCEPT !.present = FALSE]
      /\ chip' = IF off THEN Cold ELSE chip
  BY DEF Suspend
<1>2. /\ netdev'.open = netdev.open /\ "open" \in DOMAIN netdev' /\ "tally" \in DOMAIN chip'
      /\ chip'.tally = IF off THEN 0 ELSE chip.tally
  BY <1>1 DEF SInv, Shape, Cold
<1>3. CASE netdev.open
  <2>1. /\ Down(ok)
        /\ \E a : past' = [past EXCEPT !.dumped = Seen(ok), !.lost = @ \/ off, !.asked = a]
    BY <1>3 DEF Suspend
  <2>2. /\ {"seen", "dumped", "lost"} \subseteq DOMAIN past'
        /\ past'.seen = past.seen /\ past'.dumped = Seen(ok) /\ past'.lost = (past.lost \/ off)
    BY <2>1 DEF SInv, Shape
  <2>3. CASE off = TRUE
    BY <1>2, <1>3, <2>1, <2>2, <2>3, OpenIsInited, DumpKeeps DEF Down
  <2>4. CASE off = FALSE
    <3>1. chip'.tally = chip.tally
      BY <1>2, <2>4
    <3>2. past.lost => past'.lost
      BY <2>2, <2>4
    <3> QED BY <1>2, <1>3, <2>1, <2>2, <3>1, <3>2, OpenIsInited, DumpKeeps DEF Down
  <2> QED BY <2>3, <2>4
<1>4. CASE ~netdev.open
  <2>1. /\ UNCHANGED rtl_p
        /\ \E a : past' = [past EXCEPT !.lost = @ \/ (off /\ rtl_p.inited), !.asked = a]
    BY <1>4 DEF Suspend
  <2>2. /\ {"seen", "dumped", "lost"} \subseteq DOMAIN past'
        /\ past'.seen = past.seen /\ past'.dumped = past.dumped
        /\ past'.lost = (past.lost \/ (off /\ rtl_p.inited))
    BY <2>1 DEF SInv, Shape
  <2>3. Shape' /\ Numbers'
    BY <1>2, <2>1, <2>2, NetdevAssumption DEF SInv, Shape, Numbers
  <2>4. CASE off = TRUE
    BY <1>2, <2>1, <2>2, <2>3, <2>4 DEF SInv, Exact
  <2>5. CASE off = FALSE
    BY <1>2, <2>1, <2>2, <2>3, <2>5 DEF SInv, Exact
  <2> QED BY <2>4, <2>5
<1> QED BY <1>3, <1>4

(* The chip counts.                                                          *)
LEMMA CountsStep == ASSUME SInv, Counts PROVE SInv'
<1>1. /\ netdev.open /\ UNCHANGED <<netdev, rtl_p>>
      /\ chip' = [chip EXCEPT !.tally = (@ + 1) % TallyMod]
      /\ past' = [past EXCEPT !.events = @ + 1, !.seen = @ + 1,
                              !.lost = @ \/ chip.tally + 1 = TallyMod]
  BY DEF Counts
<1>2. chip.tally \in Nat /\ chip.tally < TallyMod
  BY DEF SInv, Numbers
<1>3. /\ chip'.tally = (chip.tally + 1) % TallyMod /\ "tally" \in DOMAIN chip'
      /\ past'.seen = past.seen + 1 /\ past'.dumped = past.dumped
      /\ past'.lost = (past.lost \/ chip.tally + 1 = TallyMod)
      /\ {"seen", "dumped", "lost"} \subseteq DOMAIN past'
  BY <1>1 DEF SInv, Shape
<1>4. Shape' /\ Numbers'
  BY <1>1, <1>2, <1>3, CountsOn DEF SInv, Shape, Numbers
<1>5. rtl_p.inited
  BY <1>1, OpenIsInited
<1>6. CASE ~past'.lost
  <2>1. chip.tally + 1 # TallyMod /\ ~past.lost
    BY <1>3, <1>6
  <2>2. chip'.tally = chip.tally + 1
    BY <1>2, <1>3, <2>1, CountsOn
  <2> QED BY <1>1, <1>3, <1>4, <1>5, <2>1, <2>2 DEF SInv, Exact, Numbers
<1>7. CASE past'.lost
  BY <1>1, <1>4, <1>5, <1>7 DEF SInv, Exact
<1> QED BY <1>6, <1>7

-----------------------------------------------------------------------------
(* Nothing is counted before the first open.                                 *)
LEMMA StatsInit == ASSUME Init PROVE SInv
<1>1. PICK s \in Setups, t \in 0 .. 1 :
        /\ netdev = [mtu |-> ETH_DATA_LEN, wanted |-> DefaultFeatures(v),
                     features |-> DefaultFeatures(v), max_mtu |-> rtl_jumbo_max(v, s.gmii),
                     open |-> FALSE, present |-> TRUE]
        /\ rtl_p = [bits |-> CpBits({}, DefaultFeatures(v)), intt |-> 0, eee_adv |-> "unset",
                    inited |-> FALSE, tc_offset |-> 0, counters |-> 0]
        /\ chip = [RxConfigOf(Cold, DefaultFeatures(v)) EXCEPT
                       !.bits = CpBits({}, DefaultFeatures(v)), !.tally = t]
        /\ past = [asked |-> Off, speed |-> Unknown, advert |-> "able", raced |-> FALSE,
                   torn |-> FALSE, mtu |-> ETH_DATA_LEN, seen |-> 0, dumped |-> 0,
                   lost |-> FALSE, events |-> 0, asks |-> s.asks]
  BY DEF Init
<1>2. "tally" \in DOMAIN RxConfigOf(Cold, DefaultFeatures(v))
  BY RxConfigTally DEF Cold
<1>3. chip.tally = t /\ "tally" \in DOMAIN chip
  BY <1>1, <1>2
<1>4. t \in Nat /\ t < TallyMod
  BY NetdevAssumption
<1> QED BY <1>1, <1>3, <1>4 DEF SInv, Shape, Numbers, Exact

(* What rtl8169_get_stats64 shows is exactly what the chip counted since the  *)
(* first open, as of the last dump, whatever is asked of the device and       *)
(* however long it runs, until the tally wraps, loses its power, or does not  *)
(* answer at the first open.                                                  *)
THEOREM StatisticsExact == Spec => []StatsExact
<1>1. Init => SInv
  BY StatsInit
<1>2. SInv /\ [Next]_vars => SInv'
  <2> SUFFICES ASSUME SInv, [Next]_vars PROVE SInv'
    OBVIOUS
  <2>1. CASE UNCHANGED vars
    BY <2>1 DEF vars, SInv, Shape, Numbers, Exact
  <2>2. ASSUME NEW p \in Packets, Transmit(p) PROVE SInv'
    BY <2>2 DEF Transmit, SInv, Shape, Numbers, Exact
  <2>3. ASSUME NEW ok \in BOOLEAN, rtl_open(ok) \/ rtl8169_close(ok) \/ rtl8169_get_stats64(ok)
        PROVE  SInv'
    BY <2>3, OpenStep, CloseStep
  <2>4. ASSUME NEW ok \in BOOLEAN, NEW off \in BOOLEAN, Suspend(ok, off) PROVE SInv'
    BY <2>4, SuspendStep
  <2>5. CASE Counts
    BY <2>5, CountsStep
  <2>6. CASE rtl8169_runtime_resume \/ rtl_reset_work \/ LinkDownBegins \/ LinkDownEnds
    BY <2>6, RestartStep, UntouchedKeeps
  <2>7. CASE \/ \E x \in hw_features(v) : AskFeature(x)
             \/ \E m \in Mtus : rtl8169_change_mtu(m)
             \/ AssignFeatures
             \/ \E s \in Sides, x \in Delays : SetCoalesce(s, "usecs", x)
             \/ \E s \in Sides, x \in FrameCounts : SetCoalesce(s, "frames", x)
             \/ \E a \in Adverts : rtl8169_set_eee(a)
             \/ \E s \in Speeds \cup {Unknown} : SpeedChanges(s)
    BY <2>7, RequestStep, UntouchedKeeps
  <2> QED BY <2>1, <2>2, <2>3, <2>4, <2>5, <2>6, <2>7 DEF Next
<1>3. SInv => StatsExact
  <2> SUFFICES ASSUME SInv, rtl_p.inited, ~past.lost PROVE rx_missed_errors = past.dumped
    BY DEF StatsExact
  <2>1. rtl_p.counters = rtl_p.tc_offset + past.dumped
    BY DEF SInv, Exact
  <2> QED BY <2>1 DEF SInv, Numbers, rx_missed_errors
<1> QED BY <1>1, <1>2, <1>3, PTL DEF Spec

-----------------------------------------------------------------------------
(* The requests of the transmitter.  While the core is not in the middle of  *)
(* a change of the MTU, the features fit the MTU.                            *)
Fitted(mtu, f) ==
    /\ mtu > TD_MSS_MAX => f \cap AllTso = {}
    /\ mtu > ETH_DATA_LEN /\ v > 6 => f \cap (AllCsum \cup AllTso) = {}

FInv ==
    /\ {"mtu", "wanted", "features", "open", "present"} \subseteq DOMAIN netdev
    /\ netdev.mtu \in Nat
    /\ (task.busy /\ task.mtu) \/ Fitted(netdev.mtu, netdev.features)
    /\ task.busy => Fitted(netdev.mtu, task.features)
    /\ RequestsFit

(* What rtl8169_fix_features grants fits the MTU.                            *)
LEMMA FeaturesFit ==
    ASSUME NEW mtu, NEW wanted PROVE Fitted(mtu, Granted(mtu, wanted))
BY DEF Fitted, Granted, CoreFix, rtl8169_fix_features

(* The features of a new device fit its MTU.                                 *)
LEMMA DefaultsFit == Fitted(ETH_DATA_LEN, DefaultFeatures(v))
BY DEF Fitted, ETH_DATA_LEN, TD_MSS_MAX

(* A request of the core begins, with the MTU and the features it is for. *)
LEMMA UpdateFits ==
    ASSUME FInv, Idle, NEW mtu \in Nat, NEW wanted, NEW changing \in BOOLEAN,
           changing \/ mtu = netdev.mtu, Update(mtu, wanted, changing), v' = v
    PROVE  FInv'
<1> DEFINE f == Granted(mtu, wanted)
<1>1. /\ netdev' = [netdev EXCEPT !.mtu = mtu, !.wanted = wanted]
      /\ tx' = Nothing
  BY DEF Update
<1>2. /\ {"mtu", "wanted", "features", "open", "present"} \subseteq DOMAIN netdev'
      /\ netdev'.mtu = mtu /\ netdev'.features = netdev.features
  BY <1>1 DEF FInv
<1>3. RequestsFit'
  BY <1>1 DEF RequestsFit, Nothing
<1>4. Fitted(mtu, f)
  BY FeaturesFit
<1>5. CASE f # netdev.features
  <2>1. task' = [busy |-> TRUE, features |-> f, mtu |-> changing, was |-> rtl_p.bits]
    BY <1>5 DEF Update
  <2>2. task'.busy /\ task'.features = f /\ task'.mtu = changing
    BY <2>1
  <2>3. changing \/ Fitted(mtu, netdev.features)
    BY DEF FInv, Idle
  <2>4. (task'.busy /\ task'.mtu) \/ Fitted(netdev.mtu, netdev.features)'
    BY <1>2, <2>2, <2>3 DEF Fitted
  <2>5. Fitted(netdev.mtu, task.features)'
    BY <1>2, <1>4, <2>2 DEF Fitted
  <2> QED BY <1>2, <1>3, <2>4, <2>5 DEF FInv
<1>6. CASE f = netdev.features
  <2>1. UNCHANGED task
    BY <1>6 DEF Update
  <2>2. Fitted(netdev.mtu, netdev.features)'
    BY <1>2, <1>4, <1>6 DEF Fitted
  <2> QED BY <1>2, <1>3, <2>1, <2>2 DEF FInv, Idle
<1> QED BY <1>5, <1>6

(* Steps that neither touch what the features and the MTU are, nor send. *)
LEMMA StayFit ==
    ASSUME FInv, {"mtu", "wanted", "features", "open", "present"} \subseteq DOMAIN netdev',
           netdev'.mtu = netdev.mtu, netdev'.features = netdev.features,
           UNCHANGED task, tx' = Nothing, v' = v
    PROVE  FInv'
<1>1. RequestsFit'
  BY DEF RequestsFit, Nothing
<1>2. /\ Fitted(netdev.mtu, netdev.features)' = Fitted(netdev.mtu, netdev.features)
      /\ Fitted(netdev.mtu, task.features)' = Fitted(netdev.mtu, task.features)
  BY DEF Fitted
<1> QED BY <1>1, <1>2 DEF FInv

(* The core assigns features that were granted.                              *)
LEMMA AssignFits == ASSUME FInv, AssignFeatures PROVE FInv'
<1>1. /\ netdev' = [netdev EXCEPT !.features = task.features]
      /\ task.busy /\ task' = NoTask /\ tx' = Nothing /\ v' = v
  BY DEF AssignFeatures, v
<1>2. /\ {"mtu", "wanted", "features", "open", "present"} \subseteq DOMAIN netdev'
      /\ netdev'.mtu = netdev.mtu /\ netdev'.features = task.features
  BY <1>1 DEF FInv
<1>3. Fitted(netdev.mtu, netdev.features)'
  BY <1>1, <1>2 DEF FInv, Fitted
<1>4. RequestsFit' /\ ~task'.busy
  BY <1>1 DEF RequestsFit, Nothing, NoTask
<1> QED BY <1>2, <1>3, <1>4 DEF FInv

-----------------------------------------------------------------------------
(* What is asked for a packet, clause by clause. *)
LEMMA PadTo ==
    ASSUME NEW p \in PacketType, v \in {34, 61, 63}
    PROVE  /\ rtl_quirk_packet_padto(v, p) \in Nat
           /\ rtl_quirk_packet_padto(v, p) >= ETH_ZLEN
<1>1. /\ p.len \in Nat /\ p.tail \in Nat
  BY DEF PacketType
<1>2. rtl8125_quirk_udp_padto(v, p) \in Nat
  BY <1>1 DEF rtl8125_quirk_udp_padto, Larger, RTL_MIN_PATCH_LEN, UdpHdr, UdpLen
<1> QED BY <1>2 DEF rtl_quirk_packet_padto, Larger, ETH_ZLEN

(* start_xmit asks what fits its descriptor, or works around it.             *)
LEMMA TransmitFits ==
    ASSUME FInv, NEW p \in PacketType, Transmit(p) PROVE FInv'
<1> DEFINE f    == rtl8169_features_check(v, p, netdev.features)
           sent == [p EXCEPT !.sum = @ /\ CanSum(p, f)]
           a    == Request(v, sent)
<1> DEFINE small == ~(task.busy /\ task.mtu) /\ Fits(p, netdev.mtu)
<1>1. /\ tx' = [sent |-> TRUE, ask |-> a, packet |-> sent,
               early |-> task.busy /\ task.mtu, late |-> ~Fits(p, netdev.mtu)]
      /\ p.gso # "no" => (p.gso = "4" /\ "tso" \in f) \/ (p.gso = "6" /\ "tso6" \in f)
      /\ v' = v /\ UNCHANGED <<netdev, task>>
  BY DEF Transmit, v
<1>2. /\ sent.gso = p.gso /\ sent.mss = p.mss /\ sent.ip = p.ip /\ sent.proto = p.proto
      /\ sent.toff = p.toff /\ sent.len = p.len /\ sent.tail = p.tail /\ sent.ptp = p.ptp
      /\ sent.opts = p.opts /\ sent.last = p.last
      /\ sent.sum = (p.sum /\ CanSum(p, f)) /\ sent \in PacketType
  BY DEF PacketType
<1>3. /\ p.mss \in Nat /\ p.len \in Nat /\ p.toff \in Nat /\ netdev.mtu \in Nat
      /\ p.gso \in {"no", "4", "6"}
  BY DEF PacketType, FInv
<1>4. f \subseteq netdev.features
  BY DEF rtl8169_features_check
<1> SUFFICES RequestsFit'
  <2>1. /\ Fitted(netdev.mtu, netdev.features)' = Fitted(netdev.mtu, netdev.features)
        /\ Fitted(netdev.mtu, task.features)' = Fitted(netdev.mtu, task.features)
    BY <1>1 DEF Fitted
  <2> QED BY <1>1, <2>1 DEF FInv
<1>5. small => Fitted(netdev.mtu, netdev.features)
  BY DEF FInv
<1>t. /\ tx'.ask = a /\ tx'.packet = sent /\ v' = v
      /\ (~tx'.early /\ ~tx'.late) => small
  BY <1>1
<1>6. CASE p.gso # "no"
  <2>1. f \cap AllTso # {} /\ netdev.features \cap AllTso # {}
    BY <1>1, <1>4, <1>6 DEF AllTso
  <2>2. small => netdev.mtu <= TD_MSS_MAX /\ (v > 6 => netdev.mtu <= ETH_DATA_LEN)
    BY <1>3, <1>5, <2>1 DEF Fitted, TD_MSS_MAX, ETH_DATA_LEN
  <2>3. small => p.mss <= TD_MSS_MAX /\ (v > 6 => p.mss <= ETH_DATA_LEN)
    BY <1>3, <1>6, <2>2 DEF Fits, TD_MSS_MAX, ETH_DATA_LEN
  <2>4. /\ rtl_chip_supports_csum_v2(v) => p.toff <= GTTCPHO_MAX
        /\ v = 34 => ~EvlRefuses(p)
    BY <1>3, <1>6, <2>1 DEF rtl8169_features_check, GTTCPHO_MAX
  <2>5. /\ a.mss = p.mss
        /\ a.toff = IF rtl_chip_supports_csum_v2(v) THEN p.toff ELSE 0
    BY <1>2, <1>6 DEF Request, rtl8169_tso_csum_v1, rtl8169_tso_csum_v2, Plain
  <2>6. EvlRefuses(sent) = EvlRefuses(p)
    BY <1>2 DEF EvlRefuses
  <2>7. a.toff <= (IF a.mss > 0 THEN GTTCPHO_MAX ELSE TCPHO_MAX)
    BY <1>1, <1>3, <1>6, <2>4, <2>5 DEF GTTCPHO_MAX, TCPHO_MAX
  <2> HIDE DEF a, sent, small
  <2> QED BY <1>t, <1>1, <1>2, <1>6, <2>3, <2>4, <2>5, <2>6, <2>7 DEF RequestsFit, v
<1>7. CASE p.gso = "no"
  <2>1. sent.sum =>
          /\ "csum" \in netdev.features \/ "csum6" \in netdev.features
          /\ p.len >= ETH_ZLEN
          /\ ~(rtl_quirk_packet_padto(v, p) > 0)
          /\ rtl_chip_supports_csum_v2(v) => p.toff <= TCPHO_MAX
    <3> SUFFICES ASSUME sent.sum PROVE
          /\ "csum" \in netdev.features \/ "csum6" \in netdev.features
          /\ p.len >= ETH_ZLEN
          /\ ~(rtl_quirk_packet_padto(v, p) > 0)
          /\ rtl_chip_supports_csum_v2(v) => p.toff <= TCPHO_MAX
      OBVIOUS
    <3>1. p.sum /\ f \cap AllCsum # {}
      BY <1>2 DEF CanSum, AllCsum
    <3> QED BY <1>3, <1>4, <1>7, <3>1 DEF rtl8169_features_check, AllCsum, ETH_ZLEN, TCPHO_MAX
  <2>2. small /\ p.len > ETH_DATA_LEN + 14 /\ v > 6 => ~sent.sum
    BY <1>3, <1>5, <1>7, <2>1 DEF Fitted, Fits, AllCsum, ETH_DATA_LEN
  <2>3. v \in {34, 61, 63} => ~sent.sum
    BY <2>1, PadTo DEF ETH_ZLEN
  <2>4. /\ a.mss = 0
        /\ ~sent.sum => a.bits = {}
        /\ a.toff \in {0, p.toff}
        /\ a.toff = 0 \/ (sent.sum /\ rtl_chip_supports_csum_v2(v))
    BY <1>2, <1>7 DEF Request, rtl8169_tso_csum_v1, rtl8169_tso_csum_v2, Plain
  <2>5. a.toff <= TCPHO_MAX
    BY <1>3, <2>1, <2>4 DEF TCPHO_MAX
  <2>6. v \in {34, 61, 63} => a.len >= ETH_ZLEN
    <3> SUFFICES ASSUME v \in {34, 61, 63} PROVE a.len >= ETH_ZLEN
      OBVIOUS
    <3>1. rtl_chip_supports_csum_v2(v)
      BY DEF rtl_chip_supports_csum_v2
    <3>2. a = [Plain(sent) EXCEPT !.len = Larger(@, rtl_quirk_packet_padto(v, sent))]
      BY <1>2, <1>7, <2>3, <3>1 DEF Request, rtl8169_tso_csum_v2
    <3>3. a.len = Larger(p.len, rtl_quirk_packet_padto(v, sent))
      BY <1>2, <3>2 DEF Plain
    <3> QED BY <1>2, <1>3, <3>3, PadTo DEF Larger, ETH_ZLEN
  <2> HIDE DEF a, sent, small
  <2> QED BY <1>t, <1>2, <1>7, <2>1, <2>2, <2>3, <2>4, <2>5, <2>6
          DEF RequestsFit, v, TD_MSS_MAX, ETH_DATA_LEN
<1> QED BY <1>6, <1>7

(* The version never changes.                                                *)
LEMMA SameBoard == ASSUME [Next]_vars PROVE v' = v
<1>1. ASSUME NEW x, AskFeature(x) PROVE v' = v
  BY <1>1 DEF AskFeature, v
<1>2. ASSUME NEW m, rtl8169_change_mtu(m) PROVE v' = v
  BY <1>2 DEF rtl8169_change_mtu, v
<1>3. ASSUME NEW s, NEW field, NEW x, SetCoalesce(s, field, x) PROVE v' = v
  BY <1>3 DEF SetCoalesce, v
<1>4. ASSUME NEW a, rtl8169_set_eee(a) PROVE v' = v
  BY <1>4 DEF rtl8169_set_eee, v
<1>5. ASSUME NEW s, SpeedChanges(s) PROVE v' = v
  BY <1>5 DEF SpeedChanges, v
<1>6. ASSUME NEW ok, rtl_open(ok) \/ rtl8169_close(ok) \/ rtl8169_get_stats64(ok) PROVE v' = v
  BY <1>6 DEF rtl_open, rtl8169_close, rtl8169_get_stats64, v
<1>7. ASSUME NEW ok, NEW off, Suspend(ok, off) PROVE v' = v
  BY <1>7 DEF Suspend, v
<1>8. CASE rtl8169_runtime_resume \/ rtl_reset_work \/ LinkDownBegins \/ LinkDownEnds
  BY <1>8 DEF rtl8169_runtime_resume, rtl_reset_work, LinkDownBegins, LinkDownEnds, v
<1>9. CASE AssignFeatures \/ Counts
  BY <1>9 DEF AssignFeatures, Counts, v
<1>10. ASSUME NEW p, Transmit(p) PROVE v' = v
  BY <1>10 DEF Transmit, v
<1>11. CASE UNCHANGED vars
  BY <1>11 DEF vars, v
<1> QED BY <1>1, <1>2, <1>3, <1>4, <1>5, <1>6, <1>7, <1>8, <1>9, <1>10, <1>11 DEF Next

(* A new device asks nothing.                                                *)
LEMMA FitInit == ASSUME Init PROVE FInv
<1>1. /\ \E m : netdev = [mtu |-> ETH_DATA_LEN, wanted |-> DefaultFeatures(v),
                         features |-> DefaultFeatures(v), max_mtu |-> m,
                         open |-> FALSE, present |-> TRUE]
      /\ task = NoTask /\ tx = Nothing
  BY DEF Init
<1> QED BY <1>1, DefaultsFit DEF FInv, NoTask, Nothing, RequestsFit, ETH_DATA_LEN

(* Every step keeps that requests fit.                                       *)
LEMMA FitNext == ASSUME FInv, [Next]_vars PROVE FInv'
<1>0. v' = v
  BY SameBoard
<1> DEFINE Fields == {"mtu", "wanted", "features", "open", "present"}
<1>f. Fields \subseteq DOMAIN netdev
  BY DEF FInv
<1>1. ASSUME NEW x, AskFeature(x) PROVE FInv'
  <2>1. \E w : Update(netdev.mtu, w, FALSE)
    BY <1>1 DEF AskFeature
  <2> QED BY <1>0, <1>1, <2>1, UpdateFits DEF AskFeature, Asking, FInv
<1>2. ASSUME NEW m \in Mtus, rtl8169_change_mtu(m) PROVE FInv'
  BY <1>0, <1>2, UpdateFits, NetdevAssumption DEF rtl8169_change_mtu, Asking
<1>3. CASE AssignFeatures
  BY <1>3, AssignFits
<1>4. ASSUME NEW s, NEW field, NEW x, SetCoalesce(s, field, x) PROVE FInv'
  BY <1>0, <1>f, <1>4, StayFit DEF SetCoalesce
<1>5. ASSUME NEW a, rtl8169_set_eee(a) PROVE FInv'
  BY <1>0, <1>f, <1>5, StayFit DEF rtl8169_set_eee
<1>6. ASSUME NEW s, SpeedChanges(s) PROVE FInv'
  BY <1>0, <1>f, <1>6, StayFit DEF SpeedChanges
<1>7. ASSUME NEW ok \in BOOLEAN, rtl_open(ok) \/ rtl8169_close(ok) \/ rtl8169_get_stats64(ok)
      PROVE FInv'
  <2>1. /\ UNCHANGED task /\ tx' = Nothing
        /\ \/ netdev' = netdev
           \/ netdev' = [netdev EXCEPT !.open = TRUE]
           \/ netdev' = [netdev EXCEPT !.open = FALSE]
    BY <1>7 DEF rtl_open, rtl8169_close, rtl8169_get_stats64
  <2>2. /\ Fields \subseteq DOMAIN netdev'
        /\ netdev'.mtu = netdev.mtu /\ netdev'.features = netdev.features
    BY <1>f, <2>1
  <2> QED BY <1>0, <2>1, <2>2, StayFit
<1>8. ASSUME NEW ok, NEW off, Suspend(ok, off) PROVE FInv'
  <2>1. /\ UNCHANGED task /\ tx' = Nothing
        /\ netdev' = [netdev EXCEPT !.present = FALSE]
    BY <1>8 DEF Suspend
  <2>2. /\ Fields \subseteq DOMAIN netdev'
        /\ netdev'.mtu = netdev.mtu /\ netdev'.features = netdev.features
    BY <1>f, <2>1
  <2> QED BY <1>0, <2>1, <2>2, StayFit
<1>9. CASE rtl8169_runtime_resume
  <2>1. /\ UNCHANGED task /\ tx' = Nothing
        /\ netdev' = netdev \/ netdev' = [netdev EXCEPT !.present = TRUE]
    BY <1>9 DEF rtl8169_runtime_resume, ResumeBegins, ResumeEnds, ResumeClosed
  <2>2. /\ Fields \subseteq DOMAIN netdev'
        /\ netdev'.mtu = netdev.mtu /\ netdev'.features = netdev.features
    BY <1>f, <2>1
  <2> QED BY <1>0, <2>1, <2>2, StayFit
<1>10. CASE rtl_reset_work \/ LinkDownBegins \/ LinkDownEnds \/ Counts
  BY <1>0, <1>f, <1>10, StayFit DEF rtl_reset_work, LinkDownBegins, LinkDownEnds, Counts
<1>11. ASSUME NEW p \in Packets, Transmit(p) PROVE FInv'
  BY <1>11, TransmitFits, NetdevAssumption
<1>12. CASE UNCHANGED vars
  BY <1>0, <1>12 DEF vars, FInv, Fitted, RequestsFit
<1> QED BY <1>1, <1>2, <1>3, <1>4, <1>5, <1>6, <1>7, <1>8, <1>9, <1>10, <1>11, <1>12 DEF Next

(* Of whatever packet the stack sends, rtl8169_tso_csum_v1 and _v2 ask the     *)
(* chip for offsets their fields can hold and checksums it can do, and what    *)
(* must be padded is; and of one that fits the MTU of the moment, while the    *)
(* MTU is not changing, for segments and sizes it can do as well, whatever the *)
(* MTU and the features were changed to before: features_check and             *)
(* fix_features leave nothing else.                                            *)
THEOREM AsksWhatFits == Spec => []RequestsFit
<1>1. FInv => RequestsFit
  BY DEF FInv
<1> QED BY <1>1, FitInit, FitNext, PTL DEF Spec

-----------------------------------------------------------------------------
(* The settings.  The features the chip has to follow are those the core is  *)
(* about to assign, when it is.                                              *)
Current == IF task.busy THEN task.features ELSE netdev.features

(* From the start of the chip on, a resume is no different from being awake. *)
On == netdev.open /\ Powered

Copied ==
    /\ ~past.torn => /\ "RxChkSum" \in rtl_p.bits <=> "rxcsum" \in Current
                     /\ ~rtl_is_8125(v) => ("RxVlan" \in rtl_p.bits <=> "rxvlan" \in Current)
    /\ On /\ ~past.raced => chip.bits = rtl_p.bits /\ chip.intt = rtl_p.intt

Received ==
    netdev.open /\ Awake /\ ~link /\ ~past.raced =>
        /\ chip.err = ("rxall" \in Current)
        /\ rtl_is_8125(v) => chip.vlan = ("rxvlan" \in Current)

Timed ==
    On /\ v = 63 /\ ~(task.busy /\ task.mtu) => chip.txidle = netdev.mtu

Advertised ==
    /\ rtl_enable_eee = past.advert
    /\ On /\ rtl_supports_eee(v) => phy.eee = past.advert

(* Only an open device that is asleep starts its chip to resume. *)
Resumes == resume => netdev.open /\ ~Awake

Parts ==
    /\ {"mtu", "wanted", "features", "open", "present"} \subseteq DOMAIN netdev
    /\ {"bits", "intt", "eee_adv"} \subseteq DOMAIN rtl_p
    /\ {"bits", "intt", "err", "vlan", "txidle"} \subseteq DOMAIN chip
    /\ "eee" \in DOMAIN phy
    /\ {"advert", "raced", "torn"} \subseteq DOMAIN past
    /\ v \in Nat

PInv == Parts /\ Copied /\ Received /\ Timed /\ Advertised /\ Resumes

(* What the starts of the chip and the features make of its registers. *)
Registers == {"bits", "intt", "err", "vlan", "txidle"}

(* What rtl_set_rx_config_features writes.                                   *)
LEMMA RxConfigRegisters ==
    ASSUME NEW c, NEW f, Registers \subseteq DOMAIN c
    PROVE  LET d == RxConfigOf(c, f) IN
           /\ Registers \subseteq DOMAIN d
           /\ d.bits = c.bits /\ d.intt = c.intt /\ d.txidle = c.txidle
           /\ d.err = ("rxall" \in f)
           /\ rtl_is_8125(v) => d.vlan = ("rxvlan" \in f)
BY DEF RxConfigOf, Registers

(* What rtl_hw_start writes before the receive filter.                       *)
LEMMA BeginRegisters ==
    ASSUME NEW c, NEW bits, Registers \subseteq DOMAIN c
    PROVE  LET d == HwStartBegins(c, bits) IN
           /\ Registers \subseteq DOMAIN d
           /\ d.bits = HwCpBits(bits) /\ d.intt = rtl_p.intt
           /\ v = 63 => d.txidle = netdev.mtu
BY DEF HwStartBegins, Registers

(* What rtl_hw_start writes.                                                 *)
LEMMA StartRegisters ==
    ASSUME NEW c, Registers \subseteq DOMAIN c
    PROVE  LET d == rtl_hw_start(c) IN
           /\ Registers \subseteq DOMAIN d
           /\ d.bits = HwCpBits(rtl_p.bits) /\ d.intt = rtl_p.intt
           /\ v = 63 => d.txidle = netdev.mtu
           /\ d.err = ("rxall" \in netdev.features)
           /\ rtl_is_8125(v) => d.vlan = ("rxvlan" \in netdev.features)
<1> DEFINE b == HwStartBegins(c, rtl_p.bits)
<1>1. /\ Registers \subseteq DOMAIN b
      /\ b.bits = HwCpBits(rtl_p.bits) /\ b.intt = rtl_p.intt
      /\ v = 63 => b.txidle = netdev.mtu
  BY BeginRegisters
<1> HIDE DEF b
<1>2. rtl_hw_start(c) = RxConfigOf(b, netdev.features)
  BY DEF rtl_hw_start, b
<1> QED BY <1>1, <1>2, RxConfigRegisters

(* The bits of CPlusCmd that stand for features.                             *)
LEMMA BitsFollow ==
    ASSUME NEW bits, NEW f
    PROVE  /\ "RxChkSum" \in CpBits(bits, f) <=> "rxcsum" \in f
           /\ ~rtl_is_8125(v) => ("RxVlan" \in CpBits(bits, f) <=> "rxvlan" \in f)
BY DEF CpBits

(* What rtl_hw_start takes out of CPlusCmd is about no feature.              *)
LEMMA StartBits ==
    ASSUME v \in Nat, NEW bits
    PROVE  /\ "RxChkSum" \in HwCpBits(bits) <=> "RxChkSum" \in bits
           /\ "RxVlan" \in HwCpBits(bits) <=> "RxVlan" \in bits
           /\ v > 6 => HwCpBits(bits) = bits
BY DEF HwCpBits

(* A start of the whole chip, whoever makes it. *)
LEMMA ChipStarts ==
    ASSUME PInv, Idle, Parts', Resumes', UNCHANGED task, v' = v,
           \A r \in Registers : chip'[r] = rtl_hw_start(chip)[r],
           rtl_p'.bits = HwCpBits(rtl_p.bits), rtl_p'.intt = rtl_p.intt,
           rtl_p'.eee_adv = rtl_p.eee_adv,
           past'.advert = past.advert, past'.torn = past.torn,
           rtl_supports_eee(v) => phy'.eee = past.advert,
           netdev'.mtu = netdev.mtu, netdev'.features = netdev.features
    PROVE  PInv'
<1>1. /\ chip'.bits = HwCpBits(rtl_p.bits) /\ chip'.intt = rtl_p.intt
      /\ v = 63 => chip'.txidle = netdev.mtu
      /\ chip'.err = ("rxall" \in netdev.features)
      /\ rtl_is_8125(v) => chip'.vlan = ("rxvlan" \in netdev.features)
  BY StartRegisters DEF PInv, Parts, Registers
<1>2. Current = netdev.features /\ Current' = netdev.features
  BY DEF Current, Idle
<1>3. Copied'
  BY <1>1, <1>2, StartBits DEF PInv, Parts, Copied
<1>4. Received' /\ Timed' /\ Advertised'
  BY <1>1, <1>2 DEF Received, Timed, Advertised, PInv, rtl_enable_eee
<1> QED BY <1>3, <1>4 DEF PInv

(* Steps that leave the settings and the registers alone. *)
LEMMA NothingSet ==
    ASSUME PInv, Parts', UNCHANGED task, v' = v,
           \A r \in Registers : chip'[r] = chip[r],
           rtl_p'.bits = rtl_p.bits, rtl_p'.intt = rtl_p.intt, rtl_p'.eee_adv = rtl_p.eee_adv,
           past'.advert = past.advert, past'.raced = past.raced, past'.torn = past.torn,
           phy'.eee = phy.eee,
           netdev'.mtu = netdev.mtu, netdev'.features = netdev.features,
           netdev'.open = netdev.open, netdev'.present = netdev.present,
           link' = link, resume' = resume
    PROVE  PInv'
<1>1. /\ chip'.bits = chip.bits /\ chip'.intt = chip.intt /\ chip'.txidle = chip.txidle
      /\ chip'.err = chip.err /\ chip'.vlan = chip.vlan
  BY DEF Registers
<1>2. Current' = Current
  BY DEF Current
<1>3. Copied' /\ Resumes'
  BY <1>1, <1>2 DEF PInv, Copied, On, Powered, Awake, Resumes
<1>4. Received'
  BY <1>1, <1>2 DEF PInv, Received, Awake
<1>5. Timed' /\ Advertised'
  BY <1>1, <1>2 DEF PInv, Timed, Advertised, On, Powered, Awake, rtl_enable_eee
<1> QED BY <1>3, <1>4, <1>5 DEF PInv

-----------------------------------------------------------------------------
(* A change of features reaches the copy, and the chip if it has power.      *)
LEMMA FeaturesSet ==
    ASSUME PInv, NEW f, rtl8169_set_features(f)
    PROVE  /\ {"bits", "intt", "eee_adv"} \subseteq DOMAIN rtl_p'
           /\ rtl_p'.bits = CpBits(rtl_p.bits, f)
           /\ rtl_p'.intt = rtl_p.intt /\ rtl_p'.eee_adv = rtl_p.eee_adv
           /\ Registers \subseteq DOMAIN chip'
           /\ Powered => /\ chip'.bits = rtl_p'.bits /\ chip'.intt = rtl_p'.intt
                         /\ chip'.err = ("rxall" \in f)
                         /\ rtl_is_8125(v) => chip'.vlan = ("rxvlan" \in f)
                         /\ chip'.txidle = chip.txidle
<1>1. /\ {"bits", "intt", "eee_adv"} \subseteq DOMAIN rtl_p'
      /\ rtl_p'.bits = CpBits(rtl_p.bits, f)
      /\ rtl_p'.intt = rtl_p.intt /\ rtl_p'.eee_adv = rtl_p.eee_adv
  BY DEF rtl8169_set_features, PInv, Parts
<1> DEFINE c == RxConfigOf(chip, f)
<1>2. /\ Registers \subseteq DOMAIN c /\ c.txidle = chip.txidle
      /\ c.err = ("rxall" \in f)
      /\ rtl_is_8125(v) => c.vlan = ("rxvlan" \in f)
  BY RxConfigRegisters DEF PInv, Parts, Registers
<1>3. CASE Powered
  <2>1. chip' = [c EXCEPT !.bits = rtl_p'.bits, !.intt = rtl_p.intt]
    BY <1>3 DEF rtl8169_set_features
  <2> HIDE DEF c
  <2> QED BY <1>1, <1>2, <2>1 DEF Registers
<1>4. CASE ~Powered
  BY <1>1, <1>4 DEF rtl8169_set_features, PInv, Parts, Registers
<1> QED BY <1>3, <1>4

(* A change of the MTU or of the features wanted keeps chip and copies       *)
(* together.                                                                 *)
LEMMA UpdateSets ==
    ASSUME PInv, Idle, NEW mtu, NEW wanted, NEW changing \in BOOLEAN,
           changing \/ mtu = netdev.mtu, changing => Awake, Update(mtu, wanted, changing),
           v' = v, UNCHANGED <<phy, link, resume>>
    PROVE  PInv'
<1> DEFINE f == Granted(mtu, wanted)
<1>1. /\ netdev' = [netdev EXCEPT !.mtu = mtu, !.wanted = wanted]
      /\ \/ past' = [past EXCEPT !.asks = @ - 1, !.mtu = Larger(mtu, @), !.torn = FALSE,
                                 !.raced = @ \/ link \/ resume]
         \/ past' = [past EXCEPT !.asks = @ - 1, !.mtu = Larger(mtu, @)]
  BY DEF Update
<1>2. /\ {"mtu", "wanted", "features", "open", "present"} \subseteq DOMAIN netdev'
      /\ netdev'.mtu = mtu /\ netdev'.features = netdev.features
      /\ netdev'.open = netdev.open /\ netdev'.present = netdev.present
      /\ {"advert", "raced", "torn"} \subseteq DOMAIN past' /\ past'.advert = past.advert
      /\ ~past'.raced => ~past.raced
  BY <1>1 DEF PInv, Parts
<1>r. Resumes' /\ Awake' = Awake /\ Powered' = Powered /\ On' = On
  BY <1>2 DEF PInv, Resumes, Awake, Powered, On
<1>3. CASE f # netdev.features
  <2>1. /\ rtl8169_set_features(f)
        /\ task' = [busy |-> TRUE, features |-> f, mtu |-> changing, was |-> rtl_p.bits]
    BY <1>3 DEF Update
  <2>2. task'.busy /\ task'.mtu = changing /\ Current' = f
    BY <2>1 DEF Current
  <2>3. Parts'
    BY <1>2, <2>1, FeaturesSet DEF PInv, Parts, Registers
  <2>4. Copied'
    BY <1>2, <1>r, <2>1, <2>2, FeaturesSet, BitsFollow DEF PInv, Parts, Copied, On
  <2>5. Received'
    BY <1>2, <1>r, <2>1, <2>2, FeaturesSet DEF PInv, Received, Powered
  <2>6. Timed'
    BY <1>2, <1>r, <2>1, <2>2, FeaturesSet DEF PInv, Timed, On, Idle
  <2>7. Advertised'
    BY <1>2, <1>r, <2>1, FeaturesSet DEF PInv, Advertised, rtl_enable_eee
  <2> QED BY <1>r, <2>3, <2>4, <2>5, <2>6, <2>7 DEF PInv
<1>4. CASE f = netdev.features
  <2>1. /\ chip' = IF changing /\ v \in {61, 63} THEN [chip EXCEPT !.txidle = mtu] ELSE chip
        /\ past' = [past EXCEPT !.asks = @ - 1, !.mtu = Larger(mtu, @)]
        /\ UNCHANGED <<rtl_p, task>>
    BY <1>4 DEF Update
  <2>2. /\ Registers \subseteq DOMAIN chip'
        /\ chip'.bits = chip.bits /\ chip'.intt = chip.intt
        /\ chip'.err = chip.err /\ chip'.vlan = chip.vlan
        /\ chip'.txidle = IF changing /\ v \in {61, 63} THEN mtu ELSE chip.txidle
    BY <2>1 DEF PInv, Parts, Registers
  <2>3. Parts' /\ Current' = Current
    BY <1>2, <2>1, <2>2 DEF PInv, Parts, Registers, Current
  <2>4. past'.raced = past.raced /\ past'.torn = past.torn
    BY <2>1 DEF PInv, Parts
  <2>5. Copied'
    BY <1>2, <1>r, <2>1, <2>2, <2>3, <2>4 DEF PInv, Copied
  <2>6. Received'
    BY <1>2, <1>r, <2>1, <2>2, <2>3, <2>4 DEF PInv, Received
  <2>7. Timed'
    BY <1>2, <1>r, <2>1, <2>2 DEF PInv, Timed, Idle
  <2>8. Advertised'
    BY <1>2, <1>r, <2>1 DEF PInv, Advertised, rtl_enable_eee
  <2> QED BY <1>r, <2>3, <2>5, <2>6, <2>7, <2>8 DEF PInv
<1> QED BY <1>3, <1>4

(* So does the assignment of features.                                       *)
LEMMA AssignSets == ASSUME PInv, AssignFeatures PROVE PInv'
<1>1. /\ netdev' = [netdev EXCEPT !.features = task.features]
      /\ chip' = IF task.mtu /\ v \in {61, 63} THEN [chip EXCEPT !.txidle = netdev.mtu] ELSE chip
      /\ task.busy /\ task' = NoTask /\ v' = v
      /\ UNCHANGED <<rtl_p, phy, link, resume, past>>
  BY DEF AssignFeatures, v
<1>2. /\ {"mtu", "wanted", "features", "open", "present"} \subseteq DOMAIN netdev'
      /\ netdev'.mtu = netdev.mtu /\ netdev'.features = task.features
      /\ netdev'.open = netdev.open /\ netdev'.present = netdev.present
  BY <1>1 DEF PInv, Parts
<1>3. /\ Registers \subseteq DOMAIN chip'
      /\ chip'.bits = chip.bits /\ chip'.intt = chip.intt
      /\ chip'.err = chip.err /\ chip'.vlan = chip.vlan
      /\ chip'.txidle = IF task.mtu /\ v \in {61, 63} THEN netdev.mtu ELSE chip.txidle
  BY <1>1 DEF PInv, Parts, Registers
<1>4. Current' = Current
  BY <1>1, <1>2 DEF Current, NoTask
<1>r. Resumes' /\ Awake' = Awake /\ On' = On
  BY <1>1, <1>2 DEF PInv, Resumes, Awake, Powered, On
<1>5. Parts' /\ Copied'
  BY <1>1, <1>2, <1>3, <1>4, <1>r DEF PInv, Parts, Registers, Copied
<1>6. Received' /\ Advertised'
  BY <1>1, <1>2, <1>3, <1>4, <1>r DEF PInv, Received, Advertised, rtl_enable_eee
<1>7. Timed'
  BY <1>1, <1>2, <1>3, <1>r DEF PInv, Timed
<1> QED BY <1>r, <1>5, <1>6, <1>7 DEF PInv

(* A change of the coalescing.                                               *)
LEMMA CoalesceSets == ASSUME PInv, NEW s, NEW field, NEW x, SetCoalesce(s, field, x) PROVE PInv'
<1>1. PICK ec, w, i : rtl_set_coalesce(ec, w, i)
  BY DEF SetCoalesce
<1>2. /\ \E a : past' = [past EXCEPT !.asks = @ - 1, !.speed = phy.speed, !.asked = a]
      /\ v' = v /\ UNCHANGED <<netdev, phy, task, link, resume>>
  BY DEF SetCoalesce, v
<1>3. /\ {"bits", "intt", "eee_adv"} \subseteq DOMAIN rtl_p'
      /\ rtl_p'.bits = PacketCounter(rtl_p.bits, ec) /\ rtl_p'.intt = i
      /\ rtl_p'.eee_adv = rtl_p.eee_adv
      /\ Registers \subseteq DOMAIN chip'
      /\ chip'.bits = rtl_p'.bits /\ chip'.intt = i
      /\ chip'.err = chip.err /\ chip'.vlan = chip.vlan /\ chip'.txidle = chip.txidle
  BY <1>1 DEF rtl_set_coalesce, PInv, Parts, Registers
<1>4. /\ {"advert", "raced", "torn"} \subseteq DOMAIN past'
      /\ past'.advert = past.advert /\ past'.raced = past.raced
      /\ past'.torn = past.torn
  BY <1>2 DEF PInv, Parts
<1>5. /\ "RxChkSum" \in rtl_p'.bits <=> "RxChkSum" \in rtl_p.bits
      /\ "RxVlan" \in rtl_p'.bits <=> "RxVlan" \in rtl_p.bits
  BY <1>3 DEF PacketCounter
<1>6. Parts' /\ Current' = Current
  BY <1>2, <1>3, <1>4 DEF PInv, Parts, Registers, Current
<1>r. Resumes' /\ Awake' = Awake /\ On' = On
  BY <1>2 DEF PInv, Resumes, Awake, Powered, On
<1>7. Copied' /\ Resumes'
  BY <1>2, <1>3, <1>4, <1>5, <1>6, <1>r DEF PInv, Copied
<1>8. Received' /\ Timed' /\ Advertised'
  BY <1>2, <1>3, <1>4, <1>6, <1>r DEF PInv, Received, Timed, Advertised, rtl_enable_eee
<1> QED BY <1>6, <1>7, <1>8 DEF PInv

(* A change of what EEE advertises.                                          *)
LEMMA EeeSets == ASSUME PInv, NEW a \in Adverts, rtl8169_set_eee(a) PROVE PInv'
<1>1. /\ phy' = [phy EXCEPT !.eee = a] /\ rtl_p' = [rtl_p EXCEPT !.eee_adv = a]
      /\ past' = [past EXCEPT !.asks = @ - 1, !.advert = a]
      /\ v' = v /\ UNCHANGED <<netdev, chip, task, link, resume>>
  BY DEF rtl8169_set_eee, v
<1>2. /\ {"bits", "intt", "eee_adv"} \subseteq DOMAIN rtl_p'
      /\ rtl_p'.bits = rtl_p.bits /\ rtl_p'.intt = rtl_p.intt /\ rtl_p'.eee_adv = a
      /\ {"advert", "raced", "torn"} \subseteq DOMAIN past' /\ past'.advert = a /\ past'.raced = past.raced
      /\ past'.torn = past.torn
      /\ "eee" \in DOMAIN phy' /\ phy'.eee = a
  BY <1>1 DEF PInv, Parts
<1>3. Parts' /\ Current' = Current
  BY <1>1, <1>2 DEF PInv, Parts, Current
<1>r. Resumes' /\ Awake' = Awake /\ On' = On
  BY <1>1 DEF PInv, Resumes, Awake, Powered, On
<1>4. Copied' /\ Received' /\ Timed' /\ Resumes'
  BY <1>1, <1>2, <1>3, <1>r DEF PInv, Copied, Received, Timed
<1>5. Advertised'
  BY <1>1, <1>2, NetdevAssumption DEF Advertised, rtl_enable_eee
<1> QED BY <1>3, <1>4, <1>5 DEF PInv

(* The chip is closed or asleep after the step: only the copy counts. *)
LEMMA ChipIsOff ==
    ASSUME PInv, Parts', UNCHANGED task, v' = v,
           ~(netdev'.open /\ netdev'.present), ~resume',
           rtl_p'.bits = rtl_p.bits, rtl_p'.eee_adv = rtl_p.eee_adv,
           past'.advert = past.advert, past'.torn = past.torn, netdev'.features = netdev.features
    PROVE  PInv'
<1>1. Current' = Current
  BY DEF Current
<1>2. ~On' /\ Resumes'
  BY DEF On, Powered, Awake, Resumes
<1>3. Copied' /\ Received' /\ Timed' /\ Advertised'
  BY <1>1, <1>2 DEF PInv, Copied, Received, Timed, Advertised, Awake, rtl_enable_eee
<1> QED BY <1>2, <1>3 DEF PInv

(* An open, whether it fails or not.                                         *)
LEMMA OpenSets == ASSUME PInv, NEW ok \in BOOLEAN, rtl_open(ok) PROVE PInv'
<1>1. /\ ~netdev.open /\ netdev' = [netdev EXCEPT !.open = TRUE]
      /\ \E l, m : past' = [past EXCEPT !.asked = Off, !.raced = FALSE, !.mtu = m, !.lost = l]
      /\ rtl8169_init_counter_offsets(ok) /\ rtl8169_init_phy
      /\ Idle /\ v' = v /\ UNCHANGED <<task, link, resume>>
  BY DEF rtl_open, v
<1>2. /\ {"mtu", "wanted", "features", "open", "present"} \subseteq DOMAIN netdev'
      /\ netdev'.mtu = netdev.mtu /\ netdev'.features = netdev.features
      /\ {"advert", "raced", "torn"} \subseteq DOMAIN past' /\ past'.advert = past.advert
      /\ past'.torn = past.torn
  BY <1>1 DEF PInv, Parts
<1>3. /\ {"bits", "intt", "eee_adv"} \subseteq DOMAIN rtl_p'
      /\ rtl_p'.bits = HwCpBits(rtl_p.bits) /\ rtl_p'.intt = rtl_p.intt
      /\ rtl_p'.eee_adv = rtl_p.eee_adv
  BY <1>1 DEF rtl8169_init_counter_offsets, PInv, Parts
<1> DEFINE c == rtl_hw_start(chip)
<1>4. Registers \subseteq DOMAIN c
  BY StartRegisters DEF PInv, Parts, Registers
<1>5. \E n : chip' = [c EXCEPT !.tally = n]
  BY <1>1 DEF rtl8169_init_counter_offsets
<1>6. /\ Registers \subseteq DOMAIN chip' /\ \A r \in Registers : chip'[r] = c[r]
  <2> HIDE DEF c
  <2> QED BY <1>4, <1>5 DEF Registers
<1>7. "eee" \in DOMAIN phy' /\ (rtl_supports_eee(v) => phy'.eee = past.advert)
  BY <1>1 DEF rtl8169_init_phy, PInv, Parts, Advertised
<1>8. Parts'
  BY <1>1, <1>2, <1>3, <1>6, <1>7 DEF PInv, Parts, Registers
<1>9. Resumes'
  BY <1>1 DEF PInv, Resumes
<1> QED BY <1>1, <1>2, <1>3, <1>6, <1>7, <1>8, <1>9, ChipStarts

(* A suspend, whether the chip loses its power or not.                       *)
LEMMA SuspendSets == ASSUME PInv, NEW ok \in BOOLEAN, NEW off \in BOOLEAN, Suspend(ok, off) PROVE PInv'
<1>1. /\ netdev' = [netdev EXCEPT !.present = FALSE]
      /\ rtl_p' = rtl_p \/ \E k : rtl_p' = [rtl_p EXCEPT !.counters = k]
      /\ \/ \E d, l, a : past' = [past EXCEPT !.dumped = d, !.lost = l, !.asked = a]
         \/ \E l, a : past' = [past EXCEPT !.lost = l, !.asked = a]
      /\ chip' = Cold \/ chip' = chip
      /\ phy' = [phy EXCEPT !.eee = "reset"] \/ phy' = phy
      /\ v' = v /\ UNCHANGED <<task, link, resume>> /\ Awake
  <2>1. CASE netdev.open
    <3>1. /\ rtl_p' = [rtl_p EXCEPT !.counters = Dumped(ok)]
          /\ past' = [past EXCEPT !.dumped = Seen(ok), !.lost = @ \/ off,
                                  !.asked = IF off THEN Off ELSE @]
      BY <2>1 DEF Suspend, Down
    <3> QED BY <3>1 DEF Suspend, v
  <2>2. CASE ~netdev.open
    <3>1. /\ UNCHANGED rtl_p
          /\ past' = [past EXCEPT !.lost = @ \/ (off /\ rtl_p.inited),
                                  !.asked = IF off THEN Off ELSE @]
      BY <2>2 DEF Suspend
    <3> QED BY <3>1 DEF Suspend, v
  <2> QED BY <2>1, <2>2
<1>2. /\ {"mtu", "wanted", "features", "open", "present"} \subseteq DOMAIN netdev'
      /\ netdev'.mtu = netdev.mtu /\ netdev'.features = netdev.features /\ ~netdev'.present
      /\ Registers \subseteq DOMAIN chip' /\ "eee" \in DOMAIN phy'
  BY <1>1 DEF PInv, Parts, Cold, Registers
<1>3. /\ {"bits", "intt", "eee_adv"} \subseteq DOMAIN rtl_p'
      /\ rtl_p'.bits = rtl_p.bits /\ rtl_p'.eee_adv = rtl_p.eee_adv
  BY <1>1 DEF PInv, Parts
<1>4. /\ {"advert", "raced", "torn"} \subseteq DOMAIN past' /\ past'.advert = past.advert
      /\ past'.torn = past.torn
  BY <1>1 DEF PInv, Parts
<1>5. ~resume'
  BY <1>1 DEF PInv, Resumes
<1>6. Parts'
  BY <1>1, <1>2, <1>3, <1>4 DEF PInv, Parts, Registers
<1> QED BY <1>1, <1>2, <1>3, <1>4, <1>5, <1>6, ChipIsOff

(* A resume writes the chip from the copies, or, where the core is in        *)
(* set_features, from what they were.                                        *)
LEMMA ResumeStarts == ASSUME PInv, ResumeBegins, v' = v, UNCHANGED link PROVE PInv'
<1>1. /\ ~Awake /\ netdev.open /\ resume' = TRUE /\ UNCHANGED <<netdev, task>>
      /\ rtl8169_init_phy
  BY DEF ResumeBegins
<1>2. PICK read \in CpReads :
        /\ chip' = HwStartBegins(chip, read)
        /\ rtl_p' = IF v <= 6 THEN [rtl_p EXCEPT !.bits = HwCpBits(read)] ELSE rtl_p
        /\ past' = [past EXCEPT !.asked = Off, !.raced = task.busy,
                                !.torn = @ \/ (v <= 6 /\ read # rtl_p.bits)]
  BY DEF ResumeBegins
<1>3. /\ Registers \subseteq DOMAIN chip'
      /\ chip'.bits = HwCpBits(read) /\ chip'.intt = rtl_p.intt
      /\ v = 63 => chip'.txidle = netdev.mtu
  BY <1>2, BeginRegisters DEF PInv, Parts, Registers
<1>4. /\ {"bits", "intt", "eee_adv"} \subseteq DOMAIN rtl_p'
      /\ rtl_p'.bits = IF v <= 6 THEN HwCpBits(read) ELSE rtl_p.bits
      /\ rtl_p'.intt = rtl_p.intt /\ rtl_p'.eee_adv = rtl_p.eee_adv
  BY <1>2 DEF PInv, Parts
<1>5. /\ {"advert", "raced", "torn"} \subseteq DOMAIN past' /\ past'.advert = past.advert
      /\ past'.raced = task.busy
      /\ past'.torn = (past.torn \/ (v <= 6 /\ read # rtl_p.bits))
  BY <1>2 DEF PInv, Parts
<1>6. "eee" \in DOMAIN phy' /\ (rtl_supports_eee(v) => phy'.eee = past.advert)
  BY <1>1 DEF rtl8169_init_phy, PInv, Parts, Advertised
<1>7. Parts' /\ Resumes'
  BY <1>1, <1>3, <1>4, <1>5, <1>6 DEF PInv, Parts, Registers, Resumes, Awake
<1>8. Current' = Current
  BY <1>1 DEF Current
<1>9. ~past'.torn => ~past.torn /\ rtl_p'.bits \in {rtl_p.bits, HwCpBits(rtl_p.bits)}
  BY <1>4, <1>5
<1>10. ~past'.raced => rtl_p'.bits = chip'.bits
  <2>1. ~past'.raced => read = rtl_p.bits
    BY <1>2, <1>5 DEF CpReads
  <2>2. v <= 6 \/ v > 6
    BY DEF PInv, Parts
  <2> QED BY <1>3, <1>4, <2>1, <2>2, StartBits DEF PInv, Parts
<1>11. Copied'
  <2>1. ~past'.torn => /\ "RxChkSum" \in rtl_p'.bits <=> "RxChkSum" \in rtl_p.bits
                       /\ "RxVlan" \in rtl_p'.bits <=> "RxVlan" \in rtl_p.bits
    BY <1>9, StartBits DEF PInv, Parts
  <2> QED BY <1>3, <1>4, <1>8, <1>9, <1>10, <2>1 DEF PInv, Copied
<1>12. Received' /\ Timed' /\ Advertised'
  BY <1>1, <1>3, <1>4, <1>5, <1>6 DEF PInv, Received, Timed, Advertised, Awake, rtl_enable_eee
<1> QED BY <1>7, <1>11, <1>12 DEF PInv

(* Its end writes the receive filter and attaches the device.                *)
LEMMA ResumeFinishes == ASSUME PInv, ResumeEnds, v' = v, UNCHANGED link PROVE PInv'
<1>1. /\ resume /\ ~resume' /\ netdev' = [netdev EXCEPT !.present = TRUE]
      /\ chip' = RxConfigOf(chip, netdev.features)
      /\ past' = [past EXCEPT !.raced = @ \/ task.busy]
      /\ UNCHANGED <<rtl_p, phy, task>>
  BY DEF ResumeEnds
<1>2. /\ {"mtu", "wanted", "features", "open", "present"} \subseteq DOMAIN netdev'
      /\ netdev'.mtu = netdev.mtu /\ netdev'.features = netdev.features
      /\ netdev'.open = netdev.open
      /\ {"advert", "raced", "torn"} \subseteq DOMAIN past' /\ past'.advert = past.advert
      /\ past'.raced = (past.raced \/ task.busy) /\ past'.torn = past.torn
  BY <1>1 DEF PInv, Parts
<1>3. /\ Registers \subseteq DOMAIN chip'
      /\ chip'.bits = chip.bits /\ chip'.intt = chip.intt /\ chip'.txidle = chip.txidle
      /\ chip'.err = ("rxall" \in netdev.features)
      /\ rtl_is_8125(v) => chip'.vlan = ("rxvlan" \in netdev.features)
  BY <1>1, RxConfigRegisters DEF PInv, Parts, Registers
<1>4. Parts' /\ Resumes' /\ On
  BY <1>1, <1>2, <1>3 DEF PInv, Parts, Registers, Resumes, On, Powered
<1>5. Current' = Current /\ (~task.busy => Current = netdev.features)
  BY <1>1, <1>2 DEF Current
<1>6. Copied'
  BY <1>1, <1>2, <1>3, <1>4, <1>5 DEF PInv, Copied
<1>7. Received'
  BY <1>2, <1>3, <1>5 DEF Received
<1>8. Timed' /\ Advertised'
  BY <1>1, <1>2, <1>3, <1>4 DEF PInv, Timed, Advertised, rtl_enable_eee
<1> QED BY <1>4, <1>6, <1>7, <1>8 DEF PInv

(* A closed device resumes without it.                                       *)
LEMMA ResumeSets == ASSUME PInv, rtl8169_runtime_resume PROVE PInv'
<1>1. v' = v /\ UNCHANGED link
  BY DEF rtl8169_runtime_resume, v
<1>2. CASE ResumeClosed
  <2>1. /\ ~netdev.open /\ netdev' = [netdev EXCEPT !.present = TRUE]
        /\ UNCHANGED <<rtl_p, chip, phy, task, resume, past>>
    BY <1>2 DEF ResumeClosed
  <2>2. /\ {"mtu", "wanted", "features", "open", "present"} \subseteq DOMAIN netdev'
        /\ netdev'.features = netdev.features /\ ~netdev'.open /\ ~resume'
    BY <2>1 DEF PInv, Parts, Resumes
  <2>3. Parts'
    BY <1>1, <2>1, <2>2 DEF PInv, Parts
  <2> QED BY <1>1, <2>1, <2>2, <2>3, ChipIsOff
<1> QED BY <1>1, <1>2, ResumeStarts, ResumeFinishes DEF rtl8169_runtime_resume

(* So does a reset.                                                          *)
LEMMA ResetSets == ASSUME PInv, rtl_reset_work PROVE PInv'
<1>1. /\ netdev.open /\ Powered /\ Idle /\ v' = v
      /\ chip' = rtl_hw_start(chip) /\ rtl_p' = [rtl_p EXCEPT !.bits = HwCpBits(rtl_p.bits)]
      /\ Restarted /\ UNCHANGED <<netdev, phy, task, link, resume>>
  BY DEF rtl_reset_work, v
<1>2. /\ {"bits", "intt", "eee_adv"} \subseteq DOMAIN rtl_p'
      /\ rtl_p'.bits = HwCpBits(rtl_p.bits) /\ rtl_p'.intt = rtl_p.intt
      /\ rtl_p'.eee_adv = rtl_p.eee_adv
      /\ {"advert", "raced", "torn"} \subseteq DOMAIN past' /\ past'.advert = past.advert
      /\ past'.torn = past.torn
  BY <1>1 DEF PInv, Parts, Restarted
<1>3. Registers \subseteq DOMAIN chip'
  BY <1>1, StartRegisters DEF PInv, Parts, Registers
<1>4. Parts' /\ Resumes' /\ (rtl_supports_eee(v) => phy'.eee = past.advert)
  BY <1>1, <1>2, <1>3 DEF PInv, Parts, Registers, Advertised, On, Resumes, Awake
<1> QED BY <1>1, <1>2, <1>4, ChipStarts

(* phylib's restart, in its two steps: what it has not followed is raced. *)
LEMMA LinkDownSets == ASSUME PInv, LinkDownBegins \/ LinkDownEnds PROVE PInv'
<1>1. /\ past' = [past EXCEPT !.raced = @ \/ task.busy]
      /\ v' = v /\ UNCHANGED <<netdev, rtl_p, phy, task, resume>>
  BY DEF LinkDownBegins, LinkDownEnds, v
<1>2. /\ {"advert", "raced", "torn"} \subseteq DOMAIN past' /\ past'.advert = past.advert
      /\ past'.raced = (past.raced \/ task.busy) /\ past'.torn = past.torn
  BY <1>1 DEF PInv, Parts
<1>3. /\ Current' = Current /\ Resumes'
      /\ Awake' = Awake /\ On' = On
  BY <1>1 DEF PInv, Current, Resumes, Awake, On, Powered
<1>4. CASE LinkDownBegins
  <2>1. PICK read \in CpReads : chip' = HwStartBegins(chip, read)
    BY <1>4 DEF LinkDownBegins
  <2>2. link' = TRUE /\ rtl_is_8125(v)
    BY <1>4 DEF LinkDownBegins
  <2>3. /\ Registers \subseteq DOMAIN chip'
        /\ chip'.bits = HwCpBits(read) /\ chip'.intt = rtl_p.intt
        /\ v = 63 => chip'.txidle = netdev.mtu
    BY <2>1, BeginRegisters DEF PInv, Parts, Registers
  <2>4. Parts'
    BY <1>1, <1>2, <2>3 DEF PInv, Parts, Registers
  <2>5. ~past'.raced => chip'.bits = rtl_p.bits
    <3>1. ~past'.raced => read = rtl_p.bits
      BY <1>2, <2>1 DEF CpReads
    <3>2. v > 6
      BY <2>2 DEF rtl_is_8125, PInv, Parts
    <3> QED BY <2>3, <3>1, <3>2, StartBits DEF PInv, Parts
  <2>6. Copied'
    BY <1>1, <1>2, <1>3, <2>3, <2>5 DEF PInv, Copied
  <2>7. Received' /\ Timed' /\ Advertised'
    BY <1>1, <1>2, <1>3, <2>2, <2>3 DEF PInv, Received, Timed, Advertised, rtl_enable_eee
  <2> QED BY <1>3, <2>4, <2>6, <2>7 DEF PInv
<1>5. CASE LinkDownEnds
  <2>1. chip' = RxConfigOf(chip, netdev.features)
    BY <1>5 DEF LinkDownEnds
  <2>2. /\ Registers \subseteq DOMAIN chip'
        /\ chip'.bits = chip.bits /\ chip'.intt = chip.intt /\ chip'.txidle = chip.txidle
        /\ chip'.err = ("rxall" \in netdev.features)
        /\ rtl_is_8125(v) => chip'.vlan = ("rxvlan" \in netdev.features)
    BY <2>1, RxConfigRegisters DEF PInv, Parts, Registers
  <2>3. Parts'
    BY <1>1, <1>2, <2>2 DEF PInv, Parts, Registers
  <2>4. Copied'
    BY <1>1, <1>2, <1>3, <2>2 DEF PInv, Copied
  <2>5. Received'
    BY <1>1, <1>2, <1>3, <2>2 DEF Received, Current
  <2>6. Timed' /\ Advertised'
    BY <1>1, <1>2, <1>3, <2>2 DEF PInv, Timed, Advertised, rtl_enable_eee
  <2> QED BY <1>3, <2>3, <2>4, <2>5, <2>6 DEF PInv
<1> QED BY <1>4, <1>5

(* The steps that change no setting.                                         *)
LEMMA OtherStepsSetNothing ==
    ASSUME PInv,
           \/ \E s \in Speeds \cup {Unknown} : SpeedChanges(s)
           \/ \E ok \in BOOLEAN : rtl8169_get_stats64(ok)
           \/ Counts
           \/ \E p \in Packets : Transmit(p)
           \/ UNCHANGED vars
    PROVE  PInv'
<1> DEFINE Beside ==
      /\ v' = v /\ UNCHANGED <<netdev, task, link, resume>>
      /\ chip' = chip \/ \E n : chip' = [chip EXCEPT !.tally = n]
      /\ rtl_p' = rtl_p \/ \E n : rtl_p' = [rtl_p EXCEPT !.counters = n]
      /\ phy' = phy \/ \E n : phy' = [phy EXCEPT !.speed = n]
      /\ \/ past' = past
         \/ \E d : past' = [past EXCEPT !.dumped = d]
         \/ \E e, n, l : past' = [past EXCEPT !.events = e, !.seen = n, !.lost = l]
<1>1. Beside
  <2>1. ASSUME NEW s, SpeedChanges(s) PROVE Beside
    BY <2>1 DEF SpeedChanges, v
  <2>2. ASSUME NEW ok, rtl8169_get_stats64(ok) PROVE Beside
    BY <2>2 DEF rtl8169_get_stats64, v
  <2>3. CASE Counts
    BY <2>3 DEF Counts, v
  <2>4. ASSUME NEW p, Transmit(p) PROVE Beside
    BY <2>4 DEF Transmit, v
  <2>5. CASE UNCHANGED vars
    BY <2>5 DEF vars, v
  <2> HIDE DEF Beside
  <2> QED BY <2>1, <2>2, <2>3, <2>4, <2>5
<1>2. Registers \subseteq DOMAIN chip' /\ \A r \in Registers : chip'[r] = chip[r]
  BY <1>1 DEF PInv, Parts, Registers
<1>3. /\ {"bits", "intt", "eee_adv"} \subseteq DOMAIN rtl_p'
      /\ rtl_p'.bits = rtl_p.bits /\ rtl_p'.intt = rtl_p.intt /\ rtl_p'.eee_adv = rtl_p.eee_adv
  BY <1>1 DEF PInv, Parts
<1>4. "eee" \in DOMAIN phy' /\ phy'.eee = phy.eee
  BY <1>1 DEF PInv, Parts
<1>5. /\ {"advert", "raced", "torn"} \subseteq DOMAIN past'
      /\ past'.advert = past.advert /\ past'.raced = past.raced
      /\ past'.torn = past.torn
  BY <1>1 DEF PInv, Parts
<1>6. Parts'
  BY <1>1, <1>2, <1>3, <1>4, <1>5 DEF PInv, Parts, Registers
<1> QED BY <1>1, <1>2, <1>3, <1>4, <1>5, <1>6, NothingSet

(* A new device is asleep or closed.                                         *)
LEMMA SetInit == ASSUME Init PROVE PInv
<1>1. PICK s \in Setups, t \in 0 .. 1 :
        /\ mac_version = rtl8169_get_mac_version(s.xid, s.gmii)
        /\ netdev = [mtu |-> ETH_DATA_LEN, wanted |-> DefaultFeatures(v),
                     features |-> DefaultFeatures(v), max_mtu |-> rtl_jumbo_max(v, s.gmii),
                     open |-> FALSE, present |-> TRUE]
        /\ rtl_p = [bits |-> CpBits({}, DefaultFeatures(v)), intt |-> 0, eee_adv |-> "unset",
                    inited |-> FALSE, tc_offset |-> 0, counters |-> 0]
        /\ chip = [RxConfigOf(Cold, DefaultFeatures(v)) EXCEPT
                       !.bits = CpBits({}, DefaultFeatures(v)), !.tally = t]
        /\ phy = [eee |-> "reset", speed |-> Unknown] /\ task = NoTask
        /\ resume = FALSE
        /\ past = [asked |-> Off, speed |-> Unknown, advert |-> "able", raced |-> FALSE,
                   torn |-> FALSE, mtu |-> ETH_DATA_LEN, seen |-> 0, dumped |-> 0,
                   lost |-> FALSE, events |-> 0, asks |-> s.asks]
  BY DEF Init
<1>2. Registers \subseteq DOMAIN chip
  <2>1. Registers \subseteq DOMAIN RxConfigOf(Cold, DefaultFeatures(v))
    BY RxConfigRegisters DEF Cold, Registers
  <2> QED BY <1>1, <2>1
<1>3. v \in Nat
  BY <1>1, NetdevAssumption DEF v, Versions
<1>4. Parts
  BY <1>1, <1>2, <1>3 DEF Parts, Registers
<1>5. Current = DefaultFeatures(v)
  BY <1>1 DEF Current, NoTask
<1>6. Copied
  BY <1>1, <1>5, BitsFollow DEF Copied, On
<1>7. Received /\ Timed /\ Advertised /\ Resumes
  BY <1>1 DEF Received, Timed, Advertised, On, Resumes, rtl_enable_eee
<1> QED BY <1>4, <1>6, <1>7 DEF PInv

(* Every step keeps chip and copies together.                                *)
LEMMA SetNext == ASSUME PInv, [Next]_vars PROVE PInv'
<1>0. v' = v
  BY SameBoard
<1>1. ASSUME NEW x, AskFeature(x) PROVE PInv'
  <2>1. \E w : Update(netdev.mtu, w, FALSE)
    BY <1>1 DEF AskFeature
  <2>2. Idle /\ UNCHANGED <<phy, link, resume>>
    BY <1>1 DEF AskFeature, Asking
  <2> QED BY <1>0, <2>1, <2>2, UpdateSets
<1>2. ASSUME NEW m, rtl8169_change_mtu(m) PROVE PInv'
  BY <1>0, <1>2, UpdateSets DEF rtl8169_change_mtu, Asking
<1>3. CASE AssignFeatures
  BY <1>3, AssignSets
<1>4. ASSUME NEW s, NEW field, NEW x, SetCoalesce(s, field, x) PROVE PInv'
  BY <1>4, CoalesceSets
<1>5. ASSUME NEW a \in Adverts, rtl8169_set_eee(a) PROVE PInv'
  BY <1>5, EeeSets
<1>6. ASSUME NEW ok \in BOOLEAN, rtl8169_close(ok) PROVE PInv'
  <2>1. /\ netdev' = [netdev EXCEPT !.open = FALSE]
        /\ \E k : rtl_p' = [rtl_p EXCEPT !.counters = k]
        /\ \E d : past' = [past EXCEPT !.dumped = d]
        /\ UNCHANGED <<chip, phy, task, link, resume>> /\ Awake
    BY <1>6 DEF rtl8169_close, Down
  <2>2. /\ {"mtu", "wanted", "features", "open", "present"} \subseteq DOMAIN netdev'
        /\ netdev'.features = netdev.features /\ ~netdev'.open
        /\ {"bits", "intt", "eee_adv"} \subseteq DOMAIN rtl_p'
        /\ rtl_p'.bits = rtl_p.bits /\ rtl_p'.eee_adv = rtl_p.eee_adv
        /\ {"advert", "raced", "torn"} \subseteq DOMAIN past' /\ past'.advert = past.advert
        /\ past'.torn = past.torn /\ ~resume'
    BY <2>1 DEF PInv, Parts, Resumes
  <2>3. Parts'
    BY <1>0, <2>1, <2>2 DEF PInv, Parts
  <2> QED BY <1>0, <2>1, <2>2, <2>3, ChipIsOff
<1>7. ASSUME NEW ok \in BOOLEAN, NEW off \in BOOLEAN, Suspend(ok, off) PROVE PInv'
  BY <1>7, SuspendSets
<1> QED BY <1>1, <1>2, <1>3, <1>4, <1>5, <1>6, <1>7, OpenSets, ResumeSets, ResetSets,
           LinkDownSets, OtherStepsSetNothing DEF Next

(* Whatever was asked for while the chip was closed (features, MTU), asleep,   *)
(* restarting or awake, rtl_hw_start, rtl8169_init_phy and the requests        *)
(* themselves leave an open chip with it as soon as nobody is changing         *)
(* anything, but for the two races without rtnl that the property names.       *)
THEOREM ChipHasSettings == Spec => []SettingsReachChip
<1>1. PInv => SettingsReachChip
  <2> SUFFICES ASSUME PInv, netdev.open, Awake, Idle, ~link, ~past.raced, ~past.torn
               PROVE  SettingsReachChip
    BY DEF SettingsReachChip
  <2>1. Current = netdev.features /\ On
    BY DEF Current, Idle, On, Powered
  <2> QED BY <2>1 DEF PInv, Copied, Received, Timed, Advertised, Idle, SettingsReachChip
<1> QED BY <1>1, SetInit, SetNext, PTL DEF Spec

-----------------------------------------------------------------------------
(* Coalescing.                                                               *)
MTypes ==
    /\ {"bits", "intt"} \subseteq DOMAIN rtl_p
    /\ {"bits", "intt", "mitigate"} \subseteq DOMAIN chip
    /\ "speed" \in DOMAIN phy /\ {"asked", "speed"} \subseteq DOMAIN past
    /\ rtl_p.intt \in 0 .. 3 /\ chip.intt \in 0 .. 3
    /\ phy.speed \in Speeds \cup {Unknown} /\ past.speed \in Speeds \cup {Unknown}
    /\ chip.mitigate \in [Sides -> [usecs : 0 .. 15, frames : 0 .. 15]]
    /\ past.asked \in [Sides -> [usecs : Nat, frames : Nat]]

(* Each side has what was asked of it, in the units of the scale chosen.     *)
Asked(s, i) ==
    LET unit == rtl_coalesce_info(v, past.speed, i) IN
    /\ past.asked[s].usecs * 1000 <= chip.mitigate[s].usecs * unit
    /\ chip.mitigate[s].usecs * unit < past.asked[s].usecs * 1000 + unit
    /\ past.asked[s].frames <= chip.mitigate[s].frames * 4
    /\ chip.mitigate[s].frames * 4 <= past.asked[s].frames + 3
    /\ chip.mitigate[s].frames > 0 => chip.mitigate[s].usecs > 0

(* The scale of the copy is that of the chip, unless nothing is coalesced.   *)
MInv ==
    /\ MTypes
    /\ ~rtl_is_8125(v) => \A s \in Sides : Asked(s, chip.intt)
    /\ chip.intt = rtl_p.intt \/ (chip.mitigate = Off /\ past.asked = Off)
    /\ rtl_is_8168evl_up(v) /\ (\E s \in Sides : past.asked[s].frames > 0) =>
          "PktCntrDisable" \notin rtl_p.bits /\ "PktCntrDisable" \notin chip.bits

(* Rounding up, the scales, and the least of them that will do. *)
LEMMA Quotient ==
    ASSUME NEW a \in Nat, NEW b \in Nat \ {0}
    PROVE  /\ a \div b \in Nat
           /\ (a \div b) * b <= a /\ a < (a \div b) * b + b
BY SMT

(* DIV_ROUND_UP is the least number of units that reaches its argument.      *)
LEMMA RoundUp ==
    ASSUME NEW a \in Nat, NEW b \in Nat \ {0}
    PROVE  /\ DIV_ROUND_UP(a, b) \in Nat
           /\ a <= DIV_ROUND_UP(a, b) * b
           /\ DIV_ROUND_UP(a, b) * b < a + b
BY Quotient DEF DIV_ROUND_UP

(* A unit of coalescing is a positive number of nanoseconds.                 *)
LEMMA Unit ==
    ASSUME NEW s \in Speeds \cup {Unknown}, NEW i \in 0 .. 3
    PROVE  rtl_coalesce_info(v, s, i) \in Nat \ {0}
BY DEF rtl_coalesce_info, COALESCE_DELAY, Base, Speeds, Unknown

(* The least of a set of scales is one of them.                              *)
LEMMA Smallest ==
    ASSUME NEW S, S \subseteq 0 .. 3, S # {}
    PROVE  Min(S) \in S
<1>1. \E x \in S : \A y \in S : x <= y
  <2>1. 0 \in S \/ 1 \in S \/ 2 \in S \/ 3 \in S
    <3>1. PICK x \in S : TRUE
      OBVIOUS
    <3>2. x = 0 \/ x = 1 \/ x = 2 \/ x = 3
      OBVIOUS
    <3> QED BY <3>1, <3>2
  <2> QED BY <2>1
<1> QED BY <1>1 DEF Min

(* A delay in reach of a scale fits its field. *)
LEMMA InReach ==
    ASSUME NEW x \in Nat, NEW u \in Nat \ {0}, x <= (u * 15) \div 1000
    PROVE  DIV_ROUND_UP(x * 1000, u) \in 0 .. 15
<1>1. x * 1000 <= u * 15
  OBVIOUS
<1> DEFINE q == DIV_ROUND_UP(x * 1000, u)
<1>2. q \in Nat /\ q * u < x * 1000 + u
  BY RoundUp
<1> HIDE DEF q
<1>3. q * u < 16 * u
  BY <1>1, <1>2
<1>4. q < 16
  BY <1>2, <1>3
<1> QED BY <1>2, <1>4 DEF q

(* No positive number is rounded up to zero.                                 *)
LEMMA Positive ==
    ASSUME NEW a \in Nat \ {0}, NEW b \in Nat \ {0} PROVE DIV_ROUND_UP(a, b) > 0
BY RoundUp
(* Up to 60 frames fit 4 bits in units of four.                              *)
LEMMA FramesFit ==
    ASSUME NEW f \in 0 .. 60
    PROVE  LET q == DIV_ROUND_UP(f, 4) IN q \in 0 .. 15 /\ f <= q * 4 /\ q * 4 <= f + 3
BY DEF DIV_ROUND_UP

(* What is answered "ok" is what Mitigate puts in the fields. *)
LEMMA MitigateAsks ==
    ASSUME NEW ec \in [Sides -> [usecs : Nat, frames : Nat]],
           NEW sp \in Speeds \cup {Unknown}, Answer(v, sp, ec) = "ok"
    PROVE  LET i    == rtl_coalesce_choose_scale(v, sp, Longest(ec))
               w    == Mitigate(v, sp, ec)
               unit == rtl_coalesce_info(v, sp, i)
           IN  /\ i \in 0 .. 3
               /\ w \in [Sides -> [usecs : 0 .. 15, frames : 0 .. 15]]
               /\ \A s \in Sides :
                     /\ ec[s].usecs * 1000 <= w[s].usecs * unit
                     /\ w[s].usecs * unit < ec[s].usecs * 1000 + unit
                     /\ FramesOf(ec[s]) \in Nat
                     /\ FramesOf(ec[s]) <= w[s].frames * 4
                     /\ w[s].frames * 4 <= FramesOf(ec[s]) + 3
                     /\ w[s].frames > 0 => w[s].usecs > 0
<1> DEFINE n    == Longest(ec)
           i    == rtl_coalesce_choose_scale(v, sp, n)
           unit == rtl_coalesce_info(v, sp, i)
           w    == Mitigate(v, sp, ec)
<1>1. /\ ~rtl_is_8125(v)
      /\ \A s \in Sides : ~(ec[s].frames > RTL_COALESCE_FRAME_MAX)
      /\ Scales(v, sp, n) # {}
      /\ \A s \in Sides : ~(FramesOf(ec[s]) > 0 /\ ec[s].usecs = 0)
  BY DEF Answer
<1>2. i \in Scales(v, sp, n)
  BY <1>1, Smallest DEF rtl_coalesce_choose_scale, Scales
<1>3. i \in 0 .. 3 /\ Reaches(v, sp, i, n)
  BY <1>2 DEF Scales
<1>4. unit \in Nat \ {0}
  BY <1>3, Unit
<1>5. n <= (unit * 15) \div 1000
  BY <1>3 DEF Reaches, RTL_COALESCE_T_MAX
<1>6. w = [s \in Sides |-> [usecs  |-> Field(Units(ec[s].usecs, unit)),
                          frames |-> Field(DIV_ROUND_UP(FramesOf(ec[s]), 4))]]
  BY DEF Mitigate
<1> HIDE DEF i, unit, w
<1>7. ASSUME NEW s \in Sides
      PROVE  /\ w[s] \in [usecs : 0 .. 15, frames : 0 .. 15]
             /\ ec[s].usecs * 1000 <= w[s].usecs * unit
             /\ w[s].usecs * unit < ec[s].usecs * 1000 + unit
             /\ FramesOf(ec[s]) \in Nat
             /\ FramesOf(ec[s]) <= w[s].frames * 4
             /\ w[s].frames * 4 <= FramesOf(ec[s]) + 3
             /\ w[s].frames > 0 => w[s].usecs > 0
  <2> DEFINE u == ec[s].usecs
             f == FramesOf(ec[s])
             d == DIV_ROUND_UP(u * 1000, unit)
             q == DIV_ROUND_UP(f, 4)
  <2>1. ec[s] \in [usecs : Nat, frames : Nat] /\ u \in Nat /\ ec[s].frames \in Nat
    OBVIOUS
  <2>2. u <= n /\ n \in Nat
    BY DEF Longest, Sides
  <2>3. u <= (unit * 15) \div 1000
    <3> HIDE DEF n, u
    <3>1. (unit * 15) \div 1000 \in Nat
      BY <1>4
    <3> QED BY <1>5, <2>1, <2>2, <3>1
  <2>4. f \in 0 .. 60
    BY <1>1, <2>1 DEF FramesOf, RTL_COALESCE_FRAME_MAX, RTL_COALESCE_T_MAX
  <2>5. d \in 0 .. 15 /\ u * 1000 <= d * unit /\ d * unit < u * 1000 + unit
    <3> HIDE DEF u
    <3>1. d \in 0 .. 15
      BY <1>4, <2>1, <2>3, InReach
    <3>2. u * 1000 \in Nat
      BY <2>1
    <3> DEFINE x == u * 1000
    <3>3. x \in Nat
      BY <3>2
    <3> HIDE DEF x
    <3>4. x <= DIV_ROUND_UP(x, unit) * unit /\ DIV_ROUND_UP(x, unit) * unit < x + unit
      BY <1>4, <3>3, RoundUp
    <3> QED BY <3>1, <3>4 DEF x
  <2>6. q \in 0 .. 15 /\ f <= q * 4 /\ q * 4 <= f + 3
    BY <2>4, FramesFit
  <2>7. q > 0 => d > 0
    <3> HIDE DEF d
    <3> SUFFICES ASSUME q > 0 PROVE d > 0
      OBVIOUS
    <3>1. f > 0
      BY <2>4, <2>6
    <3>2. u # 0
      BY <1>1, <3>1
    <3> HIDE DEF u
    <3>3. u * 1000 \in Nat \ {0}
      BY <2>1, <3>2
    <3> QED BY <1>4, <3>3, Positive DEF d
  <2>8. w[s] = [usecs |-> Field(d), frames |-> Field(q)]
    BY <1>6 DEF Units
  <2> HIDE DEF d, q, u, f
  <2>9. Field(d) = d /\ Field(q) = q
    BY <2>5, <2>6 DEF Field, RTL_COALESCE_T_MAX
  <2>10. w[s].usecs = d /\ w[s].frames = q /\ w[s] \in [usecs : 0 .. 15, frames : 0 .. 15]
    BY <2>5, <2>6, <2>8, <2>9
  <2> QED BY <2>4, <2>5, <2>6, <2>7, <2>10 DEF u, f
<1>8. w \in [Sides -> [usecs : 0 .. 15, frames : 0 .. 15]]
  BY <1>6, <1>7
<1> QED BY <1>3, <1>7, <1>8 DEF i, unit, w

(* What rtl_get_coalesce reports may be set again unchanged, as far as a scale *)
(* reaches it.                                                                 *)
LEMMA ReadBackAgain ==
    ASSUME MInv, ~rtl_is_8125(v)
    PROVE  /\ ReadBack \in [Sides -> [usecs : Nat, frames : Nat]]
           /\ \/ Answer(v, phy.speed, ReadBack) = "ok"
              \/ Scales(v, phy.speed, Longest(ReadBack)) = {}
<1> DEFINE unit == rtl_coalesce_info(v, phy.speed, rtl_p.intt)
           w    == chip.mitigate
<1>1. unit \in Nat \ {0}
  BY Unit DEF MInv, MTypes
<1>2. ReadBack = [s \in Sides |->
        [usecs  |-> DIV_ROUND_UP(w[s].usecs * unit, 1000),
         frames |-> IF w[s].usecs = 0 /\ w[s].frames = 0 THEN 1 ELSE w[s].frames * 4]]
  BY DEF ReadBack, rtl_get_coalesce
<1> HIDE DEF unit
<1>3. ASSUME NEW s \in Sides
      PROVE  /\ ReadBack[s] \in [usecs : Nat, frames : Nat]
             /\ ReadBack[s].frames <= 60
             /\ ~(FramesOf(ReadBack[s]) > 0 /\ ReadBack[s].usecs = 0)
  <2> DEFINE u == w[s].usecs
             f == w[s].frames
  <2>1. u \in 0 .. 15 /\ f \in 0 .. 15 /\ (f > 0 => u > 0)
    BY DEF MInv, MTypes, Asked
  <2>2. ReadBack[s].usecs = DIV_ROUND_UP(u * unit, 1000)
    BY <1>2
  <2>3. ReadBack[s].frames = IF u = 0 /\ f = 0 THEN 1 ELSE f * 4
    BY <1>2
  <2>4. ReadBack[s] = [usecs |-> ReadBack[s].usecs, frames |-> ReadBack[s].frames]
    BY <1>2
  <2> HIDE DEF u, f, w
  <2>5. u * unit \in Nat /\ (u > 0 => u * unit > 0)
    BY <1>1, <2>1
  <2>6. ReadBack[s].usecs \in Nat /\ (u > 0 => ReadBack[s].usecs > 0)
    <3> DEFINE x == u * unit
    <3> HIDE DEF x
    <3>1. x \in Nat /\ (u > 0 => x \in Nat \ {0})
      BY <2>5 DEF x
    <3>2. ReadBack[s].usecs = DIV_ROUND_UP(x, 1000)
      BY <2>2 DEF x
    <3> QED BY <3>1, <3>2, RoundUp, Positive
  <2>7. ReadBack[s].frames \in Nat /\ ReadBack[s].frames <= 60
    BY <2>1, <2>3
  <2>8. FramesOf(ReadBack[s]) > 0 => u > 0
    BY <2>1, <2>3 DEF FramesOf
  <2> HIDE DEF ReadBack
  <2>9. ReadBack[s] \in [usecs : Nat, frames : Nat]
    BY <2>4, <2>6, <2>7
  <2> QED BY <2>6, <2>7, <2>8, <2>9
<1>4. ReadBack \in [Sides -> [usecs : Nat, frames : Nat]]
  BY <1>2, <1>3
<1> HIDE DEF ReadBack
<1>5. /\ ~\E s \in Sides : ReadBack[s].frames > RTL_COALESCE_FRAME_MAX
      /\ ~\E s \in Sides : FramesOf(ReadBack[s]) > 0 /\ ReadBack[s].usecs = 0
  BY <1>3, <1>4 DEF RTL_COALESCE_FRAME_MAX, RTL_COALESCE_T_MAX
<1>6. Answer(v, phy.speed, ReadBack) = "ok" \/ Scales(v, phy.speed, Longest(ReadBack)) = {}
  BY <1>5 DEF Answer
<1> QED BY <1>4, <1>6

-----------------------------------------------------------------------------
(* Nothing asked and nothing coalesced, whatever the scale. *)
LEMMA OffIsAsked ==
    ASSUME past.asked = Off, chip.mitigate = Off, past.speed \in Speeds \cup {Unknown},
           NEW s \in Sides, NEW i \in 0 .. 3
    PROVE  Asked(s, i)
<1> DEFINE unit == rtl_coalesce_info(v, past.speed, i)
<1>1. unit \in Nat \ {0}
  BY Unit
<1>2. /\ past.asked[s].usecs = 0 /\ past.asked[s].frames = 0
      /\ chip.mitigate[s].usecs = 0 /\ chip.mitigate[s].frames = 0
  BY DEF Off
<1> HIDE DEF unit
<1>3. 0 * 1000 <= 0 * unit /\ 0 * unit < 0 * 1000 + unit
  BY <1>1
<1> QED BY <1>2, <1>3 DEF Asked, unit

(* No coalescing is a setting, too.                                          *)
LEMMA OffIsTyped == Off \in [Sides -> [usecs : 0 .. 15, frames : 0 .. 15]]
                      /\ Off \in [Sides -> [usecs : Nat, frames : Nat]]
BY DEF Off

(* Steps that leave what was asked and the fields of IntrMitigate alone, and   *)
(* give the chip its own scale or the copy's.                                  *)
LEMMA CoalescingKept ==
    ASSUME MInv, v' = v,
           {"bits", "intt"} \subseteq DOMAIN rtl_p',
           {"bits", "intt", "mitigate"} \subseteq DOMAIN chip',
           "speed" \in DOMAIN phy', {"asked", "speed"} \subseteq DOMAIN past',
           phy'.speed \in Speeds \cup {Unknown},
           past'.asked = past.asked, past'.speed = past.speed,
           chip'.mitigate = chip.mitigate, rtl_p'.intt = rtl_p.intt,
           chip'.intt = chip.intt \/ chip'.intt = rtl_p.intt,
           "PktCntrDisable" \in rtl_p'.bits => "PktCntrDisable" \in rtl_p.bits,
           "PktCntrDisable" \in chip'.bits =>
               "PktCntrDisable" \in rtl_p.bits \/ "PktCntrDisable" \in chip.bits
    PROVE  MInv'
<1>1. MTypes'
  BY DEF MInv, MTypes
<1>2. chip'.intt = rtl_p'.intt \/ (chip'.mitigate = Off /\ past'.asked = Off)
  BY DEF MInv
<1>3. ASSUME ~rtl_is_8125(v), NEW s \in Sides PROVE Asked(s, chip.intt)'
  <2>1. Asked(s, chip'.intt)
    BY <1>3, OffIsAsked DEF MInv, MTypes
  <2> QED BY <2>1 DEF Asked
<1>4. rtl_is_8168evl_up(v) /\ (\E s \in Sides : past'.asked[s].frames > 0) =>
          "PktCntrDisable" \notin rtl_p'.bits /\ "PktCntrDisable" \notin chip'.bits
  BY DEF MInv
<1> QED BY <1>1, <1>2, <1>3, <1>4 DEF MInv

(* Steps that switch it off, and what was asked with it. *)
LEMMA CoalescingOff ==
    ASSUME MInv, v' = v,
           {"bits", "intt"} \subseteq DOMAIN rtl_p',
           {"bits", "intt", "mitigate"} \subseteq DOMAIN chip',
           "speed" \in DOMAIN phy', {"asked", "speed"} \subseteq DOMAIN past',
           phy'.speed = phy.speed, past'.asked = Off, past'.speed = past.speed,
           chip'.mitigate = Off, rtl_p'.intt = rtl_p.intt, chip'.intt \in 0 .. 3
    PROVE  MInv'
<1>1. MTypes'
  BY OffIsTyped DEF MInv, MTypes
<1>2. ASSUME NEW s \in Sides PROVE Asked(s, chip.intt)'
  <2>1. /\ past'.speed \in Speeds \cup {Unknown} /\ chip'.intt \in 0 .. 3
        /\ past'.asked = Off /\ chip'.mitigate = Off
    BY <1>1 DEF MTypes
  <2> DEFINE unit == rtl_coalesce_info(v, past'.speed, chip'.intt)
  <2>2. unit \in Nat \ {0}
    BY <2>1, Unit
  <2>3. /\ past'.asked[s].usecs = 0 /\ past'.asked[s].frames = 0
        /\ chip'.mitigate[s].usecs = 0 /\ chip'.mitigate[s].frames = 0
    BY <2>1 DEF Off
  <2>4. 0 * 1000 <= 0 * unit /\ 0 * unit < 0 * 1000 + unit
    <3> HIDE DEF unit
    <3> QED BY <2>2
  <2> QED BY <2>3, <2>4 DEF Asked
<1>3. ~\E s \in Sides : past'.asked[s].frames > 0
  BY DEF Off
<1> QED BY <1>1, <1>2, <1>3 DEF MInv

-----------------------------------------------------------------------------
(* rtl_set_coalesce, accepted or refused.                                    *)
LEMMA CoalesceStep ==
    ASSUME MInv, NEW s \in Sides, NEW field \in {"usecs", "frames"}, NEW x \in Nat,
           SetCoalesce(s, field, x)
    PROVE  MInv'
<1> DEFINE ec == [ReadBack EXCEPT ![s][field] = x]
           w  == Mitigate(v, phy.speed, ec)
           i  == rtl_coalesce_choose_scale(v, phy.speed, Longest(ec))
           asked == [y \in Sides |-> [usecs |-> ec[y].usecs, frames |-> FramesOf(ec[y])]]
<1>1. /\ Answer(v, phy.speed, ec) = "ok"
      /\ rtl_set_coalesce(ec, w, i)
      /\ past' = [past EXCEPT !.asks = @ - 1, !.speed = phy.speed, !.asked = asked]
      /\ v' = v /\ UNCHANGED phy
  BY DEF SetCoalesce, v
<1>2. ~rtl_is_8125(v)
  BY <1>1 DEF Answer
<1>3. ReadBack \in [Sides -> [usecs : Nat, frames : Nat]]
  BY <1>2, ReadBackAgain
<1>4. ec \in [Sides -> [usecs : Nat, frames : Nat]]
  <2> HIDE DEF ReadBack
  <2> QED BY <1>3
<1>5. phy.speed \in Speeds \cup {Unknown}
  BY DEF MInv, MTypes
<1> HIDE DEF ec
<1>6. LET unit == rtl_coalesce_info(v, phy.speed, i) IN
      /\ i \in 0 .. 3
      /\ w \in [Sides -> [usecs : 0 .. 15, frames : 0 .. 15]]
      /\ \A y \in Sides :
            /\ ec[y].usecs * 1000 <= w[y].usecs * unit
            /\ w[y].usecs * unit < ec[y].usecs * 1000 + unit
            /\ FramesOf(ec[y]) \in Nat
            /\ FramesOf(ec[y]) <= w[y].frames * 4
            /\ w[y].frames * 4 <= FramesOf(ec[y]) + 3
            /\ w[y].frames > 0 => w[y].usecs > 0
  BY <1>1, <1>4, <1>5, MitigateAsks
<1> HIDE DEF w, i
<1>7. /\ {"bits", "intt"} \subseteq DOMAIN rtl_p'
      /\ {"bits", "intt", "mitigate"} \subseteq DOMAIN chip'
      /\ rtl_p'.intt = i /\ rtl_p'.bits = PacketCounter(rtl_p.bits, ec)
      /\ chip'.intt = i /\ chip'.bits = rtl_p'.bits /\ chip'.mitigate = w
  BY <1>1 DEF rtl_set_coalesce, MInv, MTypes
<1>8. /\ {"asked", "speed"} \subseteq DOMAIN past'
      /\ past'.asked = asked /\ past'.speed = phy.speed
  BY <1>1 DEF MInv, MTypes
<1>9. /\ asked \in [Sides -> [usecs : Nat, frames : Nat]]
      /\ \A y \in Sides : asked[y].usecs = ec[y].usecs /\ asked[y].frames = FramesOf(ec[y])
  BY <1>4, <1>6
<1> HIDE DEF asked
<1>10. MTypes'
  BY <1>1, <1>5, <1>6, <1>7, <1>8, <1>9 DEF MInv, MTypes
<1>11. \A y \in Sides : Asked(y, chip.intt)'
  BY <1>1, <1>6, <1>7, <1>8, <1>9 DEF Asked
<1>12. rtl_is_8168evl_up(v) /\ (\E y \in Sides : past'.asked[y].frames > 0) =>
          "PktCntrDisable" \notin rtl_p'.bits /\ "PktCntrDisable" \notin chip'.bits
  <2>1. (\E y \in Sides : past'.asked[y].frames > 0) => ~\A y \in Sides : FramesOf(ec[y]) = 0
    BY <1>8, <1>9
  <2> QED BY <1>7, <2>1 DEF PacketCounter
<1> QED BY <1>1, <1>7, <1>10, <1>11, <1>12 DEF MInv

-----------------------------------------------------------------------------
(* The starts of the chip switch coalescing off and keep the packet counter.   *)
Fields == {"bits", "intt", "mitigate"}

(* The receive filter leaves the coalescing alone.                           *)
LEMMA RxConfigCoalescing ==
    ASSUME NEW c, NEW f, Fields \subseteq DOMAIN c
    PROVE  LET d == RxConfigOf(c, f) IN
           /\ Fields \subseteq DOMAIN d
           /\ d.bits = c.bits /\ d.intt = c.intt /\ d.mitigate = c.mitigate
BY DEF RxConfigOf, Fields

(* rtl_hw_start switches it off.                                             *)
LEMMA BeginCoalescing ==
    ASSUME NEW c, NEW bits, Fields \subseteq DOMAIN c
    PROVE  LET d == HwStartBegins(c, bits) IN
           /\ Fields \subseteq DOMAIN d
           /\ d.bits = HwCpBits(bits) /\ d.intt = rtl_p.intt /\ d.mitigate = Off
BY DEF HwStartBegins, Fields

(* And leaves it off.                                                        *)
LEMMA StartCoalescing ==
    ASSUME NEW c, Fields \subseteq DOMAIN c
    PROVE  LET d == rtl_hw_start(c) IN
           /\ Fields \subseteq DOMAIN d
           /\ d.bits = HwCpBits(rtl_p.bits) /\ d.intt = rtl_p.intt /\ d.mitigate = Off
<1> DEFINE b == HwStartBegins(c, rtl_p.bits)
<1>1. /\ Fields \subseteq DOMAIN b
      /\ b.bits = HwCpBits(rtl_p.bits) /\ b.intt = rtl_p.intt /\ b.mitigate = Off
  BY BeginCoalescing
<1> HIDE DEF b
<1>2. rtl_hw_start(c) = RxConfigOf(b, netdev.features)
  BY DEF rtl_hw_start, b
<1> QED BY <1>1, <1>2, RxConfigCoalescing

(* Nothing but rtl_set_coalesce changes the bit of the packet counter.       *)
LEMMA CounterBit ==
    \A bits, f : "PktCntrDisable" \in CpBits(bits, f) <=> "PktCntrDisable" \in bits
BY DEF CpBits

(* A change of the MTU or the features: a restart, or nothing.               *)
LEMMA UpdateCoalesces ==
    ASSUME MInv, NEW mtu, NEW wanted, NEW changing, Update(mtu, wanted, changing),
           v' = v, UNCHANGED phy
    PROVE  MInv'
<1> DEFINE f == Granted(mtu, wanted)
<1>1. /\ \/ past' = [past EXCEPT !.asks = @ - 1, !.mtu = Larger(mtu, @), !.torn = FALSE,
                                 !.raced = @ \/ link \/ resume]
         \/ past' = [past EXCEPT !.asks = @ - 1, !.mtu = Larger(mtu, @)]
      /\ \/ rtl8169_set_features(f)
         \/ UNCHANGED rtl_p /\ (chip' = chip \/ chip' = [chip EXCEPT !.txidle = mtu])
  BY DEF Update
<1>2. /\ {"asked", "speed"} \subseteq DOMAIN past'
      /\ past'.asked = past.asked /\ past'.speed = past.speed
  BY <1>1 DEF MInv, MTypes
<1>3. CASE rtl8169_set_features(f)
  <2>1. /\ {"bits", "intt"} \subseteq DOMAIN rtl_p' /\ rtl_p'.intt = rtl_p.intt
        /\ rtl_p'.bits = CpBits(rtl_p.bits, f)
    BY <1>3 DEF rtl8169_set_features, MInv, MTypes
  <2> DEFINE c == RxConfigOf(chip, f)
  <2>2. Fields \subseteq DOMAIN c /\ c.mitigate = chip.mitigate
    BY RxConfigCoalescing DEF MInv, MTypes, Fields
  <2>3. CASE Powered
    <3>1. chip' = [c EXCEPT !.bits = rtl_p'.bits, !.intt = rtl_p.intt]
      BY <1>3, <2>3 DEF rtl8169_set_features
    <3> HIDE DEF c
    <3>2. /\ Fields \subseteq DOMAIN chip'
          /\ chip'.bits = rtl_p'.bits /\ chip'.intt = rtl_p.intt
          /\ chip'.mitigate = chip.mitigate
      BY <2>2, <3>1 DEF Fields
    <3> QED BY <1>2, <2>1, <3>2, CounterBit, CoalescingKept DEF MInv, MTypes, Fields
  <2>4. CASE ~Powered
    <3>1. UNCHANGED chip
      BY <1>3, <2>4 DEF rtl8169_set_features
    <3> QED BY <1>2, <2>1, <3>1, CounterBit, CoalescingKept DEF MInv, MTypes
  <2> QED BY <2>3, <2>4
<1>4. CASE UNCHANGED rtl_p /\ (chip' = chip \/ chip' = [chip EXCEPT !.txidle = mtu])
  <2>1. /\ Fields \subseteq DOMAIN chip' /\ chip'.bits = chip.bits /\ chip'.intt = chip.intt
        /\ chip'.mitigate = chip.mitigate
    BY <1>4 DEF MInv, MTypes, Fields
  <2> QED BY <1>2, <1>4, <2>1, CoalescingKept DEF MInv, MTypes, Fields
<1> QED BY <1>1, <1>3, <1>4

(* Every start from the driver's side: a first open, a resume or a reset. *)
LEMMA StartCoalesces ==
    ASSUME MInv,
           rtl8169_runtime_resume \/ rtl_reset_work \/ \E ok \in BOOLEAN : rtl_open(ok)
    PROVE  MInv'
<1> DEFINE c == rtl_hw_start(chip)
<1>1. /\ Fields \subseteq DOMAIN c /\ c.bits = HwCpBits(rtl_p.bits) /\ c.intt = rtl_p.intt /\ c.mitigate = Off
  BY StartCoalescing DEF MInv, MTypes, Fields
<1> HIDE DEF c
<1>2. ASSUME UNCHANGED phy, Restarted, chip' = c,
             rtl_p' = [rtl_p EXCEPT !.bits = HwCpBits(rtl_p.bits)], v' = v
      PROVE  MInv'
  <2>1. "speed" \in DOMAIN phy' /\ phy'.speed = phy.speed
    BY <1>2 DEF MInv, MTypes
  <2>2. /\ {"asked", "speed"} \subseteq DOMAIN past' /\ past'.asked = Off
        /\ past'.speed = past.speed
    BY <1>2 DEF Restarted, MInv, MTypes
  <2>3. {"bits", "intt"} \subseteq DOMAIN rtl_p' /\ rtl_p'.intt = rtl_p.intt
    BY <1>2 DEF MInv, MTypes
  <2> QED BY <1>1, <1>2, <2>1, <2>2, <2>3, CoalescingOff DEF MInv, MTypes, Fields
<1>3. CASE rtl_reset_work
  BY <1>2, <1>3 DEF rtl_reset_work, c, v
<1>4. CASE rtl8169_runtime_resume
  <2>0. v' = v
    BY <1>4 DEF rtl8169_runtime_resume, v
  <2>1. CASE ResumeBegins
    <3>1. PICK read \in CpReads :
            /\ chip' = HwStartBegins(chip, read)
            /\ rtl_p' = IF v <= 6 THEN [rtl_p EXCEPT !.bits = HwCpBits(read)] ELSE rtl_p
            /\ past' = [past EXCEPT !.asked = Off, !.raced = task.busy,
                                    !.torn = @ \/ (v <= 6 /\ read # rtl_p.bits)]
      BY <2>1 DEF ResumeBegins
    <3>2. /\ Fields \subseteq DOMAIN chip' /\ chip'.intt = rtl_p.intt /\ chip'.mitigate = Off
      BY <3>1, BeginCoalescing DEF MInv, MTypes, Fields
    <3>3. {"bits", "intt"} \subseteq DOMAIN rtl_p' /\ rtl_p'.intt = rtl_p.intt
      BY <3>1 DEF MInv, MTypes
    <3>4. /\ {"asked", "speed"} \subseteq DOMAIN past' /\ past'.asked = Off
          /\ past'.speed = past.speed
      BY <3>1 DEF MInv, MTypes
    <3>5. "speed" \in DOMAIN phy' /\ phy'.speed = phy.speed
      BY <2>1 DEF ResumeBegins, rtl8169_init_phy, MInv, MTypes
    <3> QED BY <2>0, <3>2, <3>3, <3>4, <3>5, CoalescingOff DEF MInv, MTypes, Fields
  <2>2. CASE ResumeEnds
    <3>1. /\ chip' = RxConfigOf(chip, netdev.features)
          /\ past' = [past EXCEPT !.raced = @ \/ task.busy]
          /\ UNCHANGED <<rtl_p, phy>>
      BY <2>2 DEF ResumeEnds
    <3>2. /\ Fields \subseteq DOMAIN chip' /\ chip'.bits = chip.bits
          /\ chip'.intt = chip.intt /\ chip'.mitigate = chip.mitigate
      BY <3>1, RxConfigCoalescing DEF MInv, MTypes, Fields
    <3>3. /\ {"asked", "speed"} \subseteq DOMAIN past'
          /\ past'.asked = past.asked /\ past'.speed = past.speed
      BY <3>1 DEF MInv, MTypes
    <3> QED BY <2>0, <3>1, <3>2, <3>3, CoalescingKept DEF MInv, MTypes, Fields
  <2>3. CASE ResumeClosed
    <3>1. UNCHANGED <<chip, phy, rtl_p, past>>
      BY <2>3 DEF ResumeClosed
    <3> QED BY <2>0, <3>1, CoalescingKept DEF MInv, MTypes
  <2> QED BY <1>4, <2>1, <2>2, <2>3 DEF rtl8169_runtime_resume
<1>5. ASSUME NEW ok \in BOOLEAN, rtl_open(ok) PROVE MInv'
  <2>1. /\ rtl8169_init_counter_offsets(ok) /\ rtl8169_init_phy /\ v' = v
        /\ \E l, m : past' = [past EXCEPT !.asked = Off, !.raced = FALSE, !.mtu = m, !.lost = l]
    BY <1>5 DEF rtl_open, v
  <2>2. \E n : chip' = [c EXCEPT !.tally = n]
    BY <2>1 DEF rtl8169_init_counter_offsets, c
  <2>3. /\ Fields \subseteq DOMAIN chip' /\ chip'.intt = rtl_p.intt /\ chip'.mitigate = Off
    BY <1>1, <2>2 DEF Fields
  <2>4. {"bits", "intt"} \subseteq DOMAIN rtl_p' /\ rtl_p'.intt = rtl_p.intt
    BY <2>1 DEF rtl8169_init_counter_offsets, MInv, MTypes
  <2>5. "speed" \in DOMAIN phy' /\ phy'.speed = phy.speed
    BY <2>1 DEF rtl8169_init_phy, MInv, MTypes
  <2>6. /\ {"asked", "speed"} \subseteq DOMAIN past' /\ past'.asked = Off
        /\ past'.speed = past.speed
    BY <2>1 DEF MInv, MTypes
  <2> QED BY <2>1, <2>3, <2>4, <2>5, <2>6, CoalescingOff DEF MInv, MTypes, Fields
<1> QED BY <1>3, <1>4, <1>5

(* A suspend; one that takes the power forgets what was asked.               *)
LEMMA SuspendCoalesces ==
    ASSUME MInv, NEW ok \in BOOLEAN, NEW off \in BOOLEAN, Suspend(ok, off) PROVE MInv'
<1> DEFINE kept == IF off THEN Off ELSE past.asked
<1>1. /\ rtl_p' = rtl_p \/ rtl_p' = [rtl_p EXCEPT !.counters = Dumped(ok)]
      /\ {"asked", "speed"} \subseteq DOMAIN past'
      /\ past'.asked = kept /\ past'.speed = past.speed
  <2>1. CASE netdev.open
    <3>1. /\ rtl_p' = [rtl_p EXCEPT !.counters = Dumped(ok)]
          /\ past' = [past EXCEPT !.dumped = Seen(ok), !.lost = @ \/ off,
                                  !.asked = IF off THEN Off ELSE @]
      BY <2>1 DEF Suspend, Down
    <3> QED BY <3>1 DEF MInv, MTypes
  <2>2. CASE ~netdev.open
    <3>1. /\ UNCHANGED rtl_p
          /\ past' = [past EXCEPT !.lost = @ \/ (off /\ rtl_p.inited),
                                  !.asked = IF off THEN Off ELSE @]
      BY <2>2 DEF Suspend
    <3> QED BY <3>1 DEF MInv, MTypes
  <2> QED BY <2>1, <2>2
<1>2. {"bits", "intt"} \subseteq DOMAIN rtl_p' /\ rtl_p'.intt = rtl_p.intt /\ rtl_p'.bits = rtl_p.bits
  BY <1>1 DEF MInv, MTypes
<1>3. /\ chip' = IF off THEN Cold ELSE chip
      /\ phy' = IF off THEN [phy EXCEPT !.eee = "reset"] ELSE phy
      /\ v' = v
  BY DEF Suspend, v
<1>4. "speed" \in DOMAIN phy' /\ phy'.speed = phy.speed
  BY <1>3 DEF MInv, MTypes
<1>5. CASE off = TRUE
  <2>1. /\ Fields \subseteq DOMAIN chip' /\ chip'.intt = 0 /\ chip'.mitigate = Off
    BY <1>3, <1>5 DEF Cold, Fields
  <2> QED BY <1>1, <1>2, <1>3, <1>4, <1>5, <2>1, CoalescingOff DEF Fields
<1>6. CASE off = FALSE
  BY <1>1, <1>2, <1>3, <1>4, <1>6, CoalescingKept DEF MInv, MTypes
<1> QED BY <1>5, <1>6

(* phylib's restart switches coalescing off and says nothing of it to the      *)
(* copy: on an RTL8125, of which nothing was asked.                            *)
LEMMA LinkDownCoalesces == ASSUME MInv, v \in Nat, LinkDownBegins \/ LinkDownEnds PROVE MInv'
<1>1. /\ past' = [past EXCEPT !.raced = @ \/ task.busy] /\ v' = v /\ UNCHANGED <<rtl_p, phy>>
  BY DEF LinkDownBegins, LinkDownEnds, v
<1>2. /\ {"asked", "speed"} \subseteq DOMAIN past'
      /\ past'.asked = past.asked /\ past'.speed = past.speed
  BY <1>1 DEF MInv, MTypes
<1>3. CASE LinkDownBegins
  <2>1. rtl_is_8125(v) /\ \E read : chip' = HwStartBegins(chip, read)
    BY <1>3 DEF LinkDownBegins
  <2>2. Fields \subseteq DOMAIN chip' /\ chip'.intt = rtl_p.intt /\ chip'.mitigate = Off
    BY <2>1, BeginCoalescing DEF MInv, MTypes, Fields
  <2>3. ~rtl_is_8168evl_up(v)
    BY <2>1 DEF rtl_is_8125, rtl_is_8168evl_up
  <2>4. MTypes'
    BY <1>1, <1>2, <2>2, OffIsTyped DEF MInv, MTypes, Fields
  <2> QED BY <1>1, <2>1, <2>2, <2>3, <2>4 DEF MInv
<1>4. CASE LinkDownEnds
  <2>1. chip' = RxConfigOf(chip, netdev.features)
    BY <1>4 DEF LinkDownEnds
  <2>2. /\ Fields \subseteq DOMAIN chip' /\ chip'.bits = chip.bits /\ chip'.intt = chip.intt
        /\ chip'.mitigate = chip.mitigate
    BY <2>1, RxConfigCoalescing DEF MInv, MTypes, Fields
  <2> QED BY <1>1, <1>2, <2>2, CoalescingKept DEF MInv, MTypes, Fields
<1> QED BY <1>3, <1>4

(* So do all others but the restarts.                                        *)
LEMMA OtherStepsKeepCoalescing ==
    ASSUME MInv,
           \/ AssignFeatures \/ Counts \/ UNCHANGED vars
           \/ \E a \in Adverts : rtl8169_set_eee(a)
           \/ \E s \in Speeds \cup {Unknown} : SpeedChanges(s)
           \/ \E ok \in BOOLEAN : rtl8169_close(ok) \/ rtl8169_get_stats64(ok)
           \/ \E p \in Packets : Transmit(p)
    PROVE  MInv'
<1> DEFINE Beside ==
      /\ v' = v
      /\ \/ chip' = chip
         \/ \E n : chip' = [chip EXCEPT !.tally = n]
         \/ \E n : chip' = [chip EXCEPT !.txidle = n]
      /\ \/ rtl_p' = rtl_p
         \/ \E n : rtl_p' = [rtl_p EXCEPT !.counters = n]
         \/ \E a : rtl_p' = [rtl_p EXCEPT !.eee_adv = a]
      /\ \/ phy' = phy
         \/ \E n \in Speeds \cup {Unknown} : phy' = [phy EXCEPT !.speed = n]
         \/ \E a : phy' = [phy EXCEPT !.eee = a]
      /\ \/ past' = past
         \/ \E d : past' = [past EXCEPT !.dumped = d]
         \/ \E k, a : past' = [past EXCEPT !.asks = k, !.advert = a]
         \/ \E e, n, l : past' = [past EXCEPT !.events = e, !.seen = n, !.lost = l]
<1>1. Beside
  <2>1. CASE AssignFeatures
    BY <2>1 DEF AssignFeatures, v
  <2>2. CASE Counts
    BY <2>2 DEF Counts, v
  <2>3. CASE UNCHANGED vars
    BY <2>3 DEF vars, v
  <2>4. ASSUME NEW a, rtl8169_set_eee(a) PROVE Beside
    BY <2>4 DEF rtl8169_set_eee, v
  <2>5. ASSUME NEW s \in Speeds \cup {Unknown}, SpeedChanges(s) PROVE Beside
    BY <2>5 DEF SpeedChanges, v
  <2>6. ASSUME NEW ok, rtl8169_close(ok) \/ rtl8169_get_stats64(ok) PROVE Beside
    BY <2>6 DEF rtl8169_close, rtl8169_get_stats64, Down, v
  <2>7. ASSUME NEW p, Transmit(p) PROVE Beside
    BY <2>7 DEF Transmit, v
  <2> HIDE DEF Beside
  <2> QED BY <2>1, <2>2, <2>3, <2>4, <2>5, <2>6, <2>7
<1>2. /\ Fields \subseteq DOMAIN chip' /\ chip'.bits = chip.bits /\ chip'.intt = chip.intt
      /\ chip'.mitigate = chip.mitigate
  BY <1>1 DEF MInv, MTypes, Fields
<1>3. {"bits", "intt"} \subseteq DOMAIN rtl_p' /\ rtl_p'.intt = rtl_p.intt /\ rtl_p'.bits = rtl_p.bits
  BY <1>1 DEF MInv, MTypes
<1>4. "speed" \in DOMAIN phy' /\ phy'.speed \in Speeds \cup {Unknown}
  BY <1>1 DEF MInv, MTypes
<1>5. /\ {"asked", "speed"} \subseteq DOMAIN past'
      /\ past'.asked = past.asked /\ past'.speed = past.speed
  BY <1>1 DEF MInv, MTypes
<1> QED BY <1>1, <1>2, <1>3, <1>4, <1>5, CoalescingKept DEF Fields

(* A new device does not coalesce.                                           *)
LEMMA CoalesceInit == ASSUME Init PROVE MInv
<1>1. PICK s \in Setups, t \in 0 .. 1 :
        /\ rtl_p = [bits |-> CpBits({}, DefaultFeatures(v)), intt |-> 0, eee_adv |-> "unset",
                    inited |-> FALSE, tc_offset |-> 0, counters |-> 0]
        /\ chip = [RxConfigOf(Cold, DefaultFeatures(v)) EXCEPT
                       !.bits = CpBits({}, DefaultFeatures(v)), !.tally = t]
        /\ phy = [eee |-> "reset", speed |-> Unknown]
        /\ past = [asked |-> Off, speed |-> Unknown, advert |-> "able", raced |-> FALSE,
                   torn |-> FALSE, mtu |-> ETH_DATA_LEN, seen |-> 0, dumped |-> 0,
                   lost |-> FALSE, events |-> 0, asks |-> s.asks]
  BY DEF Init
<1>2. Fields \subseteq DOMAIN chip /\ chip.intt = 0 /\ chip.mitigate = Off
  <2> DEFINE c == RxConfigOf(Cold, DefaultFeatures(v))
  <2>1. Fields \subseteq DOMAIN c /\ c.intt = 0 /\ c.mitigate = Off
    BY RxConfigCoalescing DEF Cold, Fields
  <2>2. chip = [c EXCEPT !.bits = CpBits({}, DefaultFeatures(v)), !.tally = t]
    BY <1>1
  <2> HIDE DEF c
  <2> QED BY <2>1, <2>2 DEF Fields
<1>3. MTypes
  BY <1>1, <1>2, OffIsTyped DEF MTypes, Fields
<1>4. past.asked = Off /\ rtl_p.intt = 0
  BY <1>1
<1>5. ~\E y \in Sides : past.asked[y].frames > 0
  BY <1>4 DEF Off
<1>6. \A y \in Sides : Asked(y, chip.intt)
  BY <1>2, <1>3, <1>4, OffIsAsked DEF MTypes
<1> QED BY <1>2, <1>3, <1>4, <1>5, <1>6 DEF MInv

(* Every step keeps that the registers hold what was asked for.              *)
LEMMA CoalesceNext == ASSUME MInv, v \in Nat, [Next]_vars PROVE MInv'
<1>0. v' = v
  BY SameBoard
<1>1. ASSUME NEW x, AskFeature(x) PROVE MInv'
  <2>1. (\E w : Update(netdev.mtu, w, FALSE)) /\ UNCHANGED phy
    BY <1>1 DEF AskFeature
  <2> QED BY <1>0, <2>1, UpdateCoalesces
<1>2. ASSUME NEW m, rtl8169_change_mtu(m) PROVE MInv'
  BY <1>0, <1>2, UpdateCoalesces DEF rtl8169_change_mtu
<1>3. ASSUME NEW s \in Sides, NEW x \in Delays, SetCoalesce(s, "usecs", x) PROVE MInv'
  BY <1>3, CoalesceStep, NetdevAssumption
<1>4. ASSUME NEW s \in Sides, NEW x \in FrameCounts, SetCoalesce(s, "frames", x) PROVE MInv'
  BY <1>4, CoalesceStep, NetdevAssumption
<1>5. ASSUME NEW ok \in BOOLEAN, NEW off \in BOOLEAN, Suspend(ok, off) PROVE MInv'
  BY <1>5, SuspendCoalesces
<1> QED BY <1>1, <1>2, <1>3, <1>4, <1>5, StartCoalesces, LinkDownCoalesces,
           OtherStepsKeepCoalescing DEF Next

(* After any sequence of requests, restarts, sleeps and changes of speed, the  *)
(* registers hold the delay and the frames asked for, rounded up within their  *)
(* fields, and what rtl_get_coalesce reports rtl_set_coalesce takes again.     *)
THEOREM CoalescesAsAsked == Spec => []CoalesceAsAsked
<1>1. MInv => CoalesceAsAsked
  <2> SUFFICES ASSUME MInv, ~rtl_is_8125(v) PROVE CoalesceAsAsked
    BY DEF CoalesceAsAsked
  <2> DEFINE unit == rtl_coalesce_info(v, past.speed, chip.intt)
  <2>1. ASSUME NEW s \in Sides
        PROVE  /\ past.asked[s].usecs * 1000 <= chip.mitigate[s].usecs * unit
               /\ chip.mitigate[s].usecs * unit < past.asked[s].usecs * 1000 + unit
               /\ chip.mitigate[s].frames * 4 \in past.asked[s].frames .. past.asked[s].frames + 3
               /\ (rtl_is_8168evl_up(v) /\ past.asked[s].frames > 0) => "PktCntrDisable" \notin chip.bits
    <3>1. Asked(s, chip.intt)
      BY DEF MInv
    <3>2. past.asked[s].frames \in Nat /\ chip.mitigate[s].frames \in Nat
      BY DEF MInv, MTypes
    <3>3. (rtl_is_8168evl_up(v) /\ past.asked[s].frames > 0) => "PktCntrDisable" \notin chip.bits
      BY DEF MInv
    <3> HIDE DEF unit
    <3> QED BY <3>1, <3>2, <3>3 DEF Asked, unit
  <2> HIDE DEF unit
  <2> QED BY <2>1, ReadBackAgain DEF CoalesceAsAsked, unit
<1>2. Init => MInv /\ PInv
  BY CoalesceInit, SetInit
<1>3. MInv /\ PInv /\ [Next]_vars => MInv' /\ PInv'
  BY CoalesceNext, SetNext DEF PInv, Parts
<1> QED BY <1>1, <1>2, <1>3, PTL DEF Spec
=============================================================================
