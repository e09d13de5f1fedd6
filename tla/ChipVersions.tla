---------------------------- MODULE ChipVersions ----------------------------
(***************************************************************************)
(* What the driver asks of a chip's version, in several of its parts.      *)
(***************************************************************************)
EXTENDS Naturals

Versions == (2..11) \cup {14} \cup (17..26) \cup (28..40) \cup {42, 43, 44, 46, 48}
              \cup (51..53) \cup {61, 63}

rtl_is_8125(v)       == v >= 61
rtl_is_8168evl_up(v) == v >= 34 /\ v # 39 /\ v <= 53
rtl_supports_eee(v)  == v >= 34 /\ v \notin {37, 39}

(* RTL8102e and from RTL8168c on; the others know the older request bits. *)
rtl_chip_supports_csum_v2(v) == v \notin (2..6) \cup (10..17)
=============================================================================
