-------------------------------- MODULE Probe --------------------------------
(***************************************************************************)
(* What rtl_init_one makes of a board: the version of the chip out of the  *)
(* XID in TxConfig, and what the network device may be asked for.          *)
(***************************************************************************)
EXTENDS ChipVersions, Sequences, FiniteSetsExt

RTL_GIGA_MAC_NONE == 0

(* mac_info, in its order: the first row that fits decides.  The masks     *)
(* leave out the version bits 4 and 5, which the XID has as zero.          *)
Row(mask, val, ver) == <<[mask |-> mask, val |-> val, ver |-> ver]>>
mac_info ==
    Row("7cf", \h641, 63) \o Row("7cf", \h609, 61)
      \o Row("7cf", \h54b, 53) \o Row("7cf", \h54a, 52) \o Row("7cf", \h502, 51)
      \o Row("7cf", \h541, 46) \o Row("7cf", \h5c8, 44) \o Row("7cf", \h509, 42)
      \o Row("7cf", \h4c0, 40) \o Row("7c8", \h488, 38) \o Row("7cf", \h481, 36)
      \o Row("7cf", \h480, 35) \o Row("7c8", \h2c8, 34) \o Row("7cf", \h2c1, 32)
      \o Row("7c8", \h2c0, 33) \o Row("7cf", \h281, 25) \o Row("7c8", \h280, 26)
      \o Row("7cf", \h28a, 28) \o Row("7cf", \h28b, 31) \o Row("7cf", \h3c9, 23)
      \o Row("7cf", \h3c8, 18) \o Row("7c8", \h3c8, 24) \o Row("7cf", \h3c0, 19)
      \o Row("7cf", \h3c2, 20) \o Row("7cf", \h3c3, 21) \o Row("7c8", \h3c0, 22)
      \o Row("7c8", \h380, 17) \o Row("7c8", \h300, 11) \o Row("7c8", \h448, 39)
      \o Row("7c8", \h440, 37) \o Row("7cf", \h409, 29) \o Row("7c8", \h408, 30)
      \o Row("7cf", \h349, 8)  \o Row("7cf", \h249, 8)  \o Row("7cf", \h348, 7)
      \o Row("7cf", \h248, 7)  \o Row("7cf", \h240, 14) \o Row("7c8", \h348, 9)
      \o Row("7c8", \h248, 9)  \o Row("7c8", \h340, 10) \o Row("fc8", \h980, 6)
      \o Row("fc8", \h180, 5)  \o Row("fc8", \h100, 4)  \o Row("fc8", \h040, 3)
      \o Row("fc8", \h008, 2)

(* xid & mask *)
Masked(xid, mask) ==
    CASE mask = "7cf" -> xid % \h800
      [] mask = "7c8" -> (xid % \h800) - (xid % 8)
      [] mask = "fc8" -> xid - (xid % 8)

Rows(xid) == {i \in 1 .. Len(mac_info) : Masked(xid, mac_info[i].mask) = mac_info[i].val}

rtl8169_get_mac_version(xid, gmii) ==
    LET ver == IF Rows(xid) = {} THEN RTL_GIGA_MAC_NONE ELSE mac_info[Min(Rows(xid))].ver
    IN  CASE ver = 42 /\ ~gmii -> 43
          [] ver = 46 /\ ~gmii -> 48
          [] OTHER             -> ver

(* The largest MTU; without gigabit none beyond the ordinary. *)
Jumbo(k) == k * 1024 - 18 - 4
rtl_jumbo_max(v, gmii) ==
    CASE ~gmii                   -> 1500
      [] gmii /\ v <= 6          -> Jumbo(7)
      [] gmii /\ v \in {11, 17}  -> Jumbo(4)
      [] gmii /\ v \in 18 .. 24  -> Jumbo(6)
      [] OTHER                   -> Jumbo(9)

(* netdev->features at the first set_features, and all a user may ask for. *)
DefaultFeatures(v) ==
    {"csum", "rxcsum", "vlantx"} \cup (IF v = 5 THEN {} ELSE {"rxvlan"})
      \cup (IF rtl_chip_supports_csum_v2(v) THEN {"csum6"} ELSE {})
hw_features(v) ==
    DefaultFeatures(v) \cup {"sg", "tso", "rxall", "rxfcs"}
      \cup (IF rtl_chip_supports_csum_v2(v) THEN {"tso6"} ELSE {})
=============================================================================
