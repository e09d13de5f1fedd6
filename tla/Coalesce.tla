------------------------------ MODULE Coalesce ------------------------------
(***************************************************************************)
(* Interrupt coalescing: the microseconds and frames of ethtool against    *)
(* the four fields of IntrMitigate, counted in units that depend on the    *)
(* speed of the link and on two bits of CPlusCmd.                          *)
(***************************************************************************)
EXTENDS ChipVersions, FiniteSetsExt

Unknown == 0                    \* SPEED_UNKNOWN
Speeds  == {10, 100, 1000}

RTL_COALESCE_T_MAX     == 15
RTL_COALESCE_FRAME_MAX == 4 * RTL_COALESCE_T_MAX
Field(x)               == x % (RTL_COALESCE_T_MAX + 1)  \* FIELD_PREP cuts the rest off
DIV_ROUND_UP(a, b)     == (a + b - 1) \div b

Sides == {"tx", "rx"}

(* The unit at setting i of CPlusCmd[1:0], in nanoseconds; an unknown speed *)
(* is taken for the highest.                                                *)
Base(v, speed) ==
    CASE speed \in {1000, Unknown} -> IF v <= 6 THEN 320 ELSE 5000
      [] speed = 100               -> 2560
      [] speed = 10                -> 40960
COALESCE_DELAY(d, i) == d * (CASE i = 0 -> 1 [] i = 1 -> 8 [] i = 2 -> 16 [] i = 3 -> 32)
rtl_coalesce_info(v, speed, i) == COALESCE_DELAY(Base(v, speed), i)

(* rtl_coalesce_choose_scale: the smallest unit whose range takes usec, if any. *)
Reaches(v, speed, i, usec) ==
    usec <= (rtl_coalesce_info(v, speed, i) * RTL_COALESCE_T_MAX) \div 1000
Scales(v, speed, usec) == {i \in 0 .. 3 : Reaches(v, speed, i, usec)}
rtl_coalesce_choose_scale(v, speed, usec) == Min(Scales(v, speed, usec))

Units(usec, scale) == DIV_ROUND_UP(usec * 1000, scale)

(* What rtl_get_coalesce reports of the register w: a side that is off is   *)
(* reported with one frame, for ethtool wants a limit.                      *)
rtl_get_coalesce(v, speed, i, w) ==
    [s \in Sides |->
        [usecs  |-> DIV_ROUND_UP(w[s].usecs * rtl_coalesce_info(v, speed, i), 1000),
         frames |-> IF w[s].usecs = 0 /\ w[s].frames = 0 THEN 1 ELSE w[s].frames * 4]]

Off == [s \in Sides |-> [usecs |-> 0, frames |-> 0]]

(* The one frame of rtl_get_coalesce means none. *)
FramesOf(e) == IF e.frames = 1 THEN 0 ELSE e.frames

(* rtl_set_coalesce: what it answers, and what it writes if that is "ok". *)
Longest(ec) == IF ec["tx"].usecs > ec["rx"].usecs THEN ec["tx"].usecs ELSE ec["rx"].usecs

Answer(v, speed, ec) ==
    CASE rtl_is_8125(v)                                          -> "EOPNOTSUPP"
      [] \E s \in Sides : ec[s].frames > RTL_COALESCE_FRAME_MAX  -> "ERANGE"
      [] Scales(v, speed, Longest(ec)) = {}                      -> "ERANGE"
      [] \E s \in Sides : FramesOf(ec[s]) > 0 /\ ec[s].usecs = 0 -> "EINVAL"
      [] OTHER                                                   -> "ok"

Mitigate(v, speed, ec) ==
    LET scale == rtl_coalesce_info(v, speed, rtl_coalesce_choose_scale(v, speed, Longest(ec)))
    IN  [s \in Sides |-> [usecs  |-> Field(Units(ec[s].usecs, scale)),
                          frames |-> Field(DIV_ROUND_UP(FramesOf(ec[s]), 4))]]
=============================================================================
