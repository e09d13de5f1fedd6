------------------------------- MODULE Offload -------------------------------
(***************************************************************************)
(* Checksums and segmentation left to the chip: which the driver offers    *)
(* for a device and for one packet, and what it asks of the chip in the    *)
(* descriptors.  A packet is a record:                                     *)
(*   gso    TCP segments are to be cut out of it, by "4" or "6", or "no"   *)
(*   mss    the size of the segments                                       *)
(*   sum    CHECKSUM_PARTIAL: its checksum is still to be computed         *)
(*   ip     vlan_get_protocol, "4", "6" or "other"; proto its transport    *)
(*   toff   skb_transport_offset; len, tail  its length from the start and *)
(*          from the transport header; ptp  its port is one of PTP         *)
(*   opts   an IPv4 or TCP header with options; last  its last fragment    *)
(***************************************************************************)
EXTENDS ChipVersions, Integers

TD_MSS_MAX        == 2047
GTTCPHO_MAX       == 127
TCPHO_MAX         == 1023
ETH_DATA_LEN      == 1500
ETH_ZLEN          == 60
RTL_MIN_PATCH_LEN == 47
UdpHdr            == 8    \* sizeof(struct udphdr)
UdpLen            == 4    \* offsetof(struct udphdr, len)

PacketType ==
    [gso : {"no", "4", "6"}, mss : Nat, sum : BOOLEAN, ip : {"4", "6", "other"},
     proto : {"tcp", "udp", "other"}, toff : Nat, len : Nat, tail : Nat,
     ptp : BOOLEAN, opts : BOOLEAN, last : Nat]

AllTso  == {"tso", "tso6"}     \* NETIF_F_ALL_TSO
AllCsum == {"csum", "csum6"}   \* NETIF_F_CSUM_MASK

MutFixFeatures(v, mtu, f) == f \ (IF mtu > ETH_DATA_LEN /\ v > 6 THEN AllCsum \cup AllTso ELSE {})

rtl8169_fix_features(v, mtu, f) ==
    f \ ((IF mtu > TD_MSS_MAX THEN AllTso ELSE {})
           \cup (IF mtu > ETH_DATA_LEN /\ v > 6 THEN AllCsum \cup AllTso ELSE {}))

-----------------------------------------------------------------------------
Larger(a, b) == IF a > b THEN a ELSE b

rtl8125_quirk_udp_padto(v, p) ==
    IF rtl_is_8125(v) /\ p.len < 128 + RTL_MIN_PATCH_LEN /\ p.proto = "udp"
    THEN LET ptp   == IF UdpLen <= p.tail /\ p.tail < RTL_MIN_PATCH_LEN /\ p.ptp
                      THEN p.len + RTL_MIN_PATCH_LEN - p.tail ELSE 0
             short == IF p.tail < UdpHdr THEN p.len + UdpHdr - p.tail ELSE 0
         IN  Larger(ptp, short)
    ELSE 0

rtl_quirk_packet_padto(v, p) ==
    Larger(rtl8125_quirk_udp_padto(v, p), IF v \in {34, 61, 63} THEN ETH_ZLEN ELSE 0)

(* rtl8168evl_fix_tso: what the RTL8168evl cannot segment. *)
EvlRefuses(p) == p.opts \/ p.last <= 6

rtl8169_features_check(v, p, f) ==
    LET far(max) == p.toff > max /\ rtl_chip_supports_csum_v2(v)
    IN  IF p.gso # "no"
        THEN f \ (IF (v = 34 /\ EvlRefuses(p)) \/ far(GTTCPHO_MAX) THEN AllTso ELSE {})
        ELSE f \ (IF p.sum /\ (\/ p.len < ETH_ZLEN
                               \/ rtl_quirk_packet_padto(v, p) > 0
                               \/ far(TCPHO_MAX))
                  THEN AllCsum ELSE {})

-----------------------------------------------------------------------------
(* What the descriptors of a packet ask for: bits of opts, and the length.  *)
Plain(p) == [bits |-> {}, mss |-> 0, toff |-> 0, len |-> p.len]

rtl8169_tso_csum_v1(p) ==
    CASE p.gso # "no"          -> [Plain(p) EXCEPT !.bits = {"LSO"}, !.mss = p.mss]
      [] p.gso = "no" /\ p.sum -> [Plain(p) EXCEPT !.bits = {"IP_CS", p.proto}]
      [] OTHER                 -> Plain(p)

rtl8169_tso_csum_v2(v, p) ==
    CASE p.gso # "no" ->
           [Plain(p) EXCEPT !.bits = {IF p.gso = "4" THEN "GTSENV4" ELSE "GTSENV6"},
                            !.mss = p.mss, !.toff = p.toff]
      [] p.gso = "no" /\ p.sum ->
           [Plain(p) EXCEPT !.bits = {IF p.ip = "4" THEN "IPv4_CS" ELSE "IPv6_CS", p.proto},
                            !.toff = p.toff]
      [] OTHER ->
           [Plain(p) EXCEPT !.len = Larger(@, rtl_quirk_packet_padto(v, p))]

Request(v, p) == IF rtl_chip_supports_csum_v2(v) THEN rtl8169_tso_csum_v2(v, p)
                                                 ELSE rtl8169_tso_csum_v1(p)
=============================================================================
