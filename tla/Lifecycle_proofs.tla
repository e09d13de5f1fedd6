-------------------------- MODULE Lifecycle_proofs --------------------------
(***************************************************************************)
(* Proofs about Lifecycle, for every bound: that NAPI is enabled once,     *)
(* that the rings outlive their use, that a device at rest is up or down,  *)
(* that resets exclude each other, and that the threads wait for each      *)
(* other in two circles and no other way.                                  *)
(*                                                                         *)
(* What a thread has left to do is always one of a few sequences: what is  *)
(* left of a routine it is inside (rtl8169_up, rtl8169_down or a reset),   *)
(* then the rest of the place it was called from.  The invariant says that *)
(* every thread is at such a position, and what each combination of        *)
(* positions says of the rtnl lock, of power management and of the device. *)
(***************************************************************************)
EXTENDS Lifecycle, TLAPS

-----------------------------------------------------------------------------
(* Positions: where a thread is, and where its next step leads.                *)

(* What is left of rtl8169_up, rtl8169_down and rtl_reset_work, from each of *)
(* their steps; stopN is a reset that the link handler makes inside          *)
(* rtl8169_down.                                                             *)
Routine == [
  none   |-> <<>>,
  up1    |-> <<"napi_enable", "enable", "napi_disable", "clear", "napi_enable", "hw_start",
              "phy_start">>,
  up2    |-> <<"enable", "napi_disable", "clear", "napi_enable", "hw_start", "phy_start">>,
  up3    |-> <<"napi_disable", "clear", "napi_enable", "hw_start", "phy_start">>,
  up4    |-> <<"clear", "napi_enable", "hw_start", "phy_start">>,
  up5    |-> <<"napi_enable", "hw_start", "phy_start">>,
  up6    |-> <<"hw_start", "phy_start">>,
  up7    |-> <<"phy_start">>,
  down1  |-> <<"clear_flags", "phy_stop", "napi_disable", "clear">>,
  down2  |-> <<"phy_stop", "napi_disable", "clear">>,
  down3  |-> <<"napi_disable", "clear">>,
  down4  |-> <<"clear">>,
  stop1  |-> <<"napi_disable", "clear", "napi_enable", "hw_start", "napi_disable",
              "clear">>,
  stop2  |-> <<"clear", "napi_enable", "hw_start", "napi_disable", "clear">>,
  stop3  |-> <<"napi_enable", "hw_start", "napi_disable", "clear">>,
  stop4  |-> <<"hw_start", "napi_disable", "clear">>,
  reset1 |-> <<"napi_disable", "clear", "napi_enable", "hw_start">>,
  reset2 |-> <<"clear", "napi_enable", "hw_start">>,
  reset3 |-> <<"napi_enable", "hw_start">>,
  reset4 |-> <<"hw_start">>]

(* What is left of each thread outside these, named for the operation and *)
(* the step.                                                              *)
Place == [
  end     |-> <<>>,
  open9   |-> <<"unrtnl">>,
  open8   |-> <<"put", "unrtnl">>,
  open7   |-> <<"phy_connect", "napi_enable", "enable", "napi_disable", "clear",
              "napi_enable", "hw_start", "phy_start", "put", "unrtnl">>,
  open6   |-> <<"request_irq", "phy_connect", "napi_enable", "enable", "napi_disable",
              "clear", "napi_enable", "hw_start", "phy_start", "put", "unrtnl">>,
  open5   |-> <<"alloc", "request_irq", "phy_connect", "napi_enable", "enable",
              "napi_disable", "clear", "napi_enable", "hw_start", "phy_start", "put",
              "unrtnl">>,
  open4   |-> <<"get", "alloc", "request_irq", "phy_connect", "napi_enable", "enable",
              "napi_disable", "clear", "napi_enable", "hw_start", "phy_start", "put",
              "unrtnl">>,
  open3   |-> <<"start", "get", "alloc", "request_irq", "phy_connect", "napi_enable",
              "enable", "napi_disable", "clear", "napi_enable", "hw_start", "phy_start",
              "put", "unrtnl">>,
  open2   |-> <<"resume_parent", "start", "get", "alloc", "request_irq", "phy_connect",
              "napi_enable", "enable", "napi_disable", "clear", "napi_enable", "hw_start",
              "phy_start", "put", "unrtnl">>,
  open1   |-> <<"rtnl", "resume_parent", "start", "get", "alloc", "request_irq",
              "phy_connect", "napi_enable", "enable", "napi_disable", "clear",
              "napi_enable", "hw_start", "phy_start", "put", "unrtnl">>,
  parent3 |-> <<"active", "resume_parent", "start", "get", "alloc", "request_irq",
              "phy_connect", "napi_enable", "enable", "napi_disable", "clear",
              "napi_enable", "hw_start", "phy_start", "put", "unrtnl">>,
  parent2 |-> <<"attach", "active", "resume_parent", "start", "get", "alloc", "request_irq",
              "phy_connect", "napi_enable", "enable", "napi_disable", "clear",
              "napi_enable", "hw_start", "phy_start", "put", "unrtnl">>,
  parent1 |-> <<"up", "attach", "active", "resume_parent", "start", "get", "alloc",
              "request_irq", "phy_connect", "napi_enable", "enable", "napi_disable",
              "clear", "napi_enable", "hw_start", "phy_start", "put", "unrtnl">>,
  oget3   |-> <<"active", "get", "alloc", "request_irq", "phy_connect", "napi_enable",
              "enable", "napi_disable", "clear", "napi_enable", "hw_start", "phy_start",
              "put", "unrtnl">>,
  oget2   |-> <<"attach", "active", "get", "alloc", "request_irq", "phy_connect",
              "napi_enable", "enable", "napi_disable", "clear", "napi_enable", "hw_start",
              "phy_start", "put", "unrtnl">>,
  oget1   |-> <<"up", "attach", "active", "get", "alloc", "request_irq", "phy_connect",
              "napi_enable", "enable", "napi_disable", "clear", "napi_enable", "hw_start",
              "phy_start", "put", "unrtnl">>,
  unwind3 |-> <<"stop", "put", "unrtnl">>,
  unwind2 |-> <<"free", "stop", "put", "unrtnl">>,
  unwind1 |-> <<"free_irq", "free", "stop", "put", "unrtnl">>,
  close7  |-> <<"free", "put", "unrtnl">>,
  close6  |-> <<"phy_disconnect", "free", "put", "unrtnl">>,
  close5  |-> <<"free_irq", "phy_disconnect", "free", "put", "unrtnl">>,
  close4  |-> <<"cancel_work", "free_irq", "phy_disconnect", "free", "put", "unrtnl">>,
  close3  |-> <<"get", "clear_flags", "phy_stop", "napi_disable", "clear", "cancel_work",
              "free_irq", "phy_disconnect", "free", "put", "unrtnl">>,
  close2  |-> <<"stop", "get", "clear_flags", "phy_stop", "napi_disable", "clear",
              "cancel_work", "free_irq", "phy_disconnect", "free", "put", "unrtnl">>,
  close1  |-> <<"rtnl", "stop", "get", "clear_flags", "phy_stop", "napi_disable", "clear",
              "cancel_work", "free_irq", "phy_disconnect", "free", "put", "unrtnl">>,
  cget3   |-> <<"active", "get", "clear_flags", "phy_stop", "napi_disable", "clear",
              "cancel_work", "free_irq", "phy_disconnect", "free", "put", "unrtnl">>,
  cget2   |-> <<"attach", "active", "get", "clear_flags", "phy_stop", "napi_disable",
              "clear", "cancel_work", "free_irq", "phy_disconnect", "free", "put",
              "unrtnl">>,
  cget1   |-> <<"up", "attach", "active", "get", "clear_flags", "phy_stop", "napi_disable",
              "clear", "cancel_work", "free_irq", "phy_disconnect", "free", "put",
              "unrtnl">>,
  removed |-> <<"removed">>,
  leave9  |-> <<"unrtnl", "removed">>,
  leave8  |-> <<"put", "unrtnl", "removed">>,
  leave7  |-> <<"free", "put", "unrtnl", "removed">>,
  leave6  |-> <<"phy_disconnect", "free", "put", "unrtnl", "removed">>,
  leave5  |-> <<"free_irq", "phy_disconnect", "free", "put", "unrtnl", "removed">>,
  leave4  |-> <<"cancel_work", "free_irq", "phy_disconnect", "free", "put", "unrtnl",
              "removed">>,
  leave3  |-> <<"get", "clear_flags", "phy_stop", "napi_disable", "clear", "cancel_work",
              "free_irq", "phy_disconnect", "free", "put", "unrtnl", "removed">>,
  leave2  |-> <<"stop", "get", "clear_flags", "phy_stop", "napi_disable", "clear",
              "cancel_work", "free_irq", "phy_disconnect", "free", "put", "unrtnl",
              "removed">>,
  leave1  |-> <<"rtnl", "stop", "get", "clear_flags", "phy_stop", "napi_disable", "clear",
              "cancel_work", "free_irq", "phy_disconnect", "free", "put", "unrtnl",
              "removed">>,
  leave0  |-> <<"get", "rtnl", "stop", "get", "clear_flags", "phy_stop", "napi_disable",
              "clear", "cancel_work", "free_irq", "phy_disconnect", "free", "put", "unrtnl",
              "removed">>,
  lget3   |-> <<"active", "get", "rtnl", "stop", "get", "clear_flags", "phy_stop",
              "napi_disable", "clear", "cancel_work", "free_irq", "phy_disconnect", "free",
              "put", "unrtnl", "removed">>,
  lget2   |-> <<"attach", "active", "get", "rtnl", "stop", "get", "clear_flags", "phy_stop",
              "napi_disable", "clear", "cancel_work", "free_irq", "phy_disconnect", "free",
              "put", "unrtnl", "removed">>,
  lget1   |-> <<"up", "attach", "active", "get", "rtnl", "stop", "get", "clear_flags",
              "phy_stop", "napi_disable", "clear", "cancel_work", "free_irq",
              "phy_disconnect", "free", "put", "unrtnl", "removed">>,
  bare    |-> <<"get", "removed">>,
  bget3   |-> <<"active", "get", "removed">>,
  bget2   |-> <<"attach", "active", "get", "removed">>,
  bget1   |-> <<"up", "attach", "active", "get", "removed">>,
  shut6   |-> <<"shutdown">>,
  shut5   |-> <<"unrtnl", "shutdown">>,
  shut4   |-> <<"down", "unrtnl", "shutdown">>,
  shut3   |-> <<"detach", "down", "unrtnl", "shutdown">>,
  shut2   |-> <<"rtnl", "detach", "down", "unrtnl", "shutdown">>,
  shut1   |-> <<"get", "rtnl", "detach", "down", "unrtnl", "shutdown">>,
  sget3   |-> <<"active", "get", "rtnl", "detach", "down", "unrtnl", "shutdown">>,
  sget2   |-> <<"attach", "active", "get", "rtnl", "detach", "down", "unrtnl", "shutdown">>,
  sget1   |-> <<"up", "attach", "active", "get", "rtnl", "detach", "down", "unrtnl",
              "shutdown">>,
  task4   |-> <<"unrtnl">>,
  task3   |-> <<"test_flags", "unrtnl">>,
  task2   |-> <<"test_enabled", "test_flags", "unrtnl">>,
  task1   |-> <<"rtnl", "test_enabled", "test_flags", "unrtnl">>,
  rsus5   |-> <<"suspended">>,
  rsus4   |-> <<"unrtnl", "suspended">>,
  rsus3   |-> <<"down", "unrtnl", "suspended">>,
  rsus2   |-> <<"detach", "down", "unrtnl", "suspended">>,
  rsus1   |-> <<"rtnl", "detach", "down", "unrtnl", "suspended">>,
  bsus    |-> <<"detach", "suspended">>,
  rres3   |-> <<"active">>,
  rres2   |-> <<"attach", "active">>,
  rres1   |-> <<"up", "attach", "active">>,
  sys4    |-> <<"unrtnl">>,
  sys3    |-> <<"down", "unrtnl">>,
  sys2    |-> <<"detach", "down", "unrtnl">>,
  sys1    |-> <<"rtnl", "detach", "down", "unrtnl">>,
  wake3   |-> <<"awake">>,
  wake2   |-> <<"attach", "awake">>,
  wake1   |-> <<"up", "attach", "awake">>,
  linkdown |-> <<"pm_idle">>,
  linkup  |-> <<"pm_resume">>]

(* Their names, and whose thread is at which place. *)
Routines == {"none", "up1", "up2", "up3", "up4", "up5", "up6", "up7", "down1", "down2",
    "down3", "down4", "stop1", "stop2", "stop3", "stop4", "reset1", "reset2",
    "reset3", "reset4"}
UserPlaces == {"end", "open9", "open8", "open7", "open6", "open5", "open4", "open3",
    "open2", "open1", "parent3", "parent2", "parent1", "oget3", "oget2",
    "oget1", "unwind3", "unwind2", "unwind1", "close7", "close6", "close5",
    "close4", "close3", "close2", "close1", "cget3", "cget2", "cget1",
    "removed", "leave9", "leave8", "leave7", "leave6", "leave5", "leave4",
    "leave3", "leave2", "leave1", "leave0", "lget3", "lget2", "lget1", "bare",
    "bget3", "bget2", "bget1", "shut6", "shut5", "shut4", "shut3", "shut2",
    "shut1", "sget3", "sget2", "sget1"}
WorkerPlaces == {"end", "task1", "task2", "task3", "task4"}
PmPlaces == {"end", "rsus1", "rsus2", "rsus3", "rsus4", "rsus5", "bsus", "rres1",
    "rres2", "rres3", "sys1", "sys2", "sys3", "sys4", "wake1", "wake2",
    "wake3"}
PhyPlaces == {"end", "linkdown", "linkup"}
Places == UserPlaces \cup WorkerPlaces \cup PmPlaces \cup PhyPlaces

(* Every step a thread may take. *)
Steps == {"napi_enable", "enable", "napi_disable", "clear", "hw_start", "phy_start",
    "clear_flags", "phy_stop", "unrtnl", "put", "phy_connect", "request_irq",
    "alloc", "get", "start", "resume_parent", "rtnl", "active", "attach",
    "up", "stop", "free", "free_irq", "phy_disconnect", "cancel_work",
    "removed", "shutdown", "down", "detach", "test_flags", "test_enabled",
    "suspended", "awake", "pm_idle", "pm_resume"}

(* What is to do at a position, the next step of it, what remains then, and *)
(* where that is.                                                           *)
Rest(i, c)  == Routine[i] \o Place[c]
First(i, c) == Head(Rest(i, c))
After(i, c) == Tail(Rest(i, c))
Goes(i, c, step, j, d) ==
    Rest(i, c) # <<>> /\ First(i, c) = step /\ After(i, c) = Rest(j, d)

(* Every place is a sequence of steps. *)
LEMMA PlaceTyped ==
  \A c \in Places : Place[c] \in Seq(Steps)
<1>1. Place["end"] \in Seq(Steps)
  BY DEF Place, Steps
<1>2. Place["open9"] \in Seq(Steps)
  BY DEF Place, Steps
<1>3. Place["open8"] \in Seq(Steps)
  BY DEF Place, Steps
<1>4. Place["open7"] \in Seq(Steps)
  BY DEF Place, Steps
<1>5. Place["open6"] \in Seq(Steps)
  BY DEF Place, Steps
<1>6. Place["open5"] \in Seq(Steps)
  BY DEF Place, Steps
<1>7. Place["open4"] \in Seq(Steps)
  BY DEF Place, Steps
<1>8. Place["open3"] \in Seq(Steps)
  BY DEF Place, Steps
<1>9. Place["open2"] \in Seq(Steps)
  BY DEF Place, Steps
<1>10. Place["open1"] \in Seq(Steps)
  BY DEF Place, Steps
<1>11. Place["parent3"] \in Seq(Steps)
  BY DEF Place, Steps
<1>12. Place["parent2"] \in Seq(Steps)
  BY DEF Place, Steps
<1>13. Place["parent1"] \in Seq(Steps)
  BY DEF Place, Steps
<1>14. Place["oget3"] \in Seq(Steps)
  BY DEF Place, Steps
<1>15. Place["oget2"] \in Seq(Steps)
  BY DEF Place, Steps
<1>16. Place["oget1"] \in Seq(Steps)
  BY DEF Place, Steps
<1>17. Place["unwind3"] \in Seq(Steps)
  BY DEF Place, Steps
<1>18. Place["unwind2"] \in Seq(Steps)
  BY DEF Place, Steps
<1>19. Place["unwind1"] \in Seq(Steps)
  BY DEF Place, Steps
<1>20. Place["close7"] \in Seq(Steps)
  BY DEF Place, Steps
<1>21. Place["close6"] \in Seq(Steps)
  BY DEF Place, Steps
<1>22. Place["close5"] \in Seq(Steps)
  BY DEF Place, Steps
<1>23. Place["close4"] \in Seq(Steps)
  BY DEF Place, Steps
<1>24. Place["close3"] \in Seq(Steps)
  BY DEF Place, Steps
<1>25. Place["close2"] \in Seq(Steps)
  BY DEF Place, Steps
<1>26. Place["close1"] \in Seq(Steps)
  BY DEF Place, Steps
<1>27. Place["cget3"] \in Seq(Steps)
  BY DEF Place, Steps
<1>28. Place["cget2"] \in Seq(Steps)
  BY DEF Place, Steps
<1>29. Place["cget1"] \in Seq(Steps)
  BY DEF Place, Steps
<1>30. Place["removed"] \in Seq(Steps)
  BY DEF Place, Steps
<1>31. Place["leave9"] \in Seq(Steps)
  BY DEF Place, Steps
<1>32. Place["leave8"] \in Seq(Steps)
  BY DEF Place, Steps
<1>33. Place["leave7"] \in Seq(Steps)
  BY DEF Place, Steps
<1>34. Place["leave6"] \in Seq(Steps)
  BY DEF Place, Steps
<1>35. Place["leave5"] \in Seq(Steps)
  BY DEF Place, Steps
<1>36. Place["leave4"] \in Seq(Steps)
  BY DEF Place, Steps
<1>37. Place["leave3"] \in Seq(Steps)
  BY DEF Place, Steps
<1>38. Place["leave2"] \in Seq(Steps)
  BY DEF Place, Steps
<1>39. Place["leave1"] \in Seq(Steps)
  BY DEF Place, Steps
<1>40. Place["leave0"] \in Seq(Steps)
  BY DEF Place, Steps
<1>41. Place["lget3"] \in Seq(Steps)
  BY DEF Place, Steps
<1>42. Place["lget2"] \in Seq(Steps)
  BY DEF Place, Steps
<1>43. Place["lget1"] \in Seq(Steps)
  BY DEF Place, Steps
<1>44. Place["bare"] \in Seq(Steps)
  BY DEF Place, Steps
<1>45. Place["bget3"] \in Seq(Steps)
  BY DEF Place, Steps
<1>46. Place["bget2"] \in Seq(Steps)
  BY DEF Place, Steps
<1>47. Place["bget1"] \in Seq(Steps)
  BY DEF Place, Steps
<1>48. Place["shut6"] \in Seq(Steps)
  BY DEF Place, Steps
<1>49. Place["shut5"] \in Seq(Steps)
  BY DEF Place, Steps
<1>50. Place["shut4"] \in Seq(Steps)
  BY DEF Place, Steps
<1>51. Place["shut3"] \in Seq(Steps)
  BY DEF Place, Steps
<1>52. Place["shut2"] \in Seq(Steps)
  BY DEF Place, Steps
<1>53. Place["shut1"] \in Seq(Steps)
  BY DEF Place, Steps
<1>54. Place["sget3"] \in Seq(Steps)
  BY DEF Place, Steps
<1>55. Place["sget2"] \in Seq(Steps)
  BY DEF Place, Steps
<1>56. Place["sget1"] \in Seq(Steps)
  BY DEF Place, Steps
<1>57. Place["task4"] \in Seq(Steps)
  BY DEF Place, Steps
<1>58. Place["task3"] \in Seq(Steps)
  BY DEF Place, Steps
<1>59. Place["task2"] \in Seq(Steps)
  BY DEF Place, Steps
<1>60. Place["task1"] \in Seq(Steps)
  BY DEF Place, Steps
<1>61. Place["rsus5"] \in Seq(Steps)
  BY DEF Place, Steps
<1>62. Place["rsus4"] \in Seq(Steps)
  BY DEF Place, Steps
<1>63. Place["rsus3"] \in Seq(Steps)
  BY DEF Place, Steps
<1>64. Place["rsus2"] \in Seq(Steps)
  BY DEF Place, Steps
<1>65. Place["rsus1"] \in Seq(Steps)
  BY DEF Place, Steps
<1>66. Place["bsus"] \in Seq(Steps)
  BY DEF Place, Steps
<1>67. Place["rres3"] \in Seq(Steps)
  BY DEF Place, Steps
<1>68. Place["rres2"] \in Seq(Steps)
  BY DEF Place, Steps
<1>69. Place["rres1"] \in Seq(Steps)
  BY DEF Place, Steps
<1>70. Place["sys4"] \in Seq(Steps)
  BY DEF Place, Steps
<1>71. Place["sys3"] \in Seq(Steps)
  BY DEF Place, Steps
<1>72. Place["sys2"] \in Seq(Steps)
  BY DEF Place, Steps
<1>73. Place["sys1"] \in Seq(Steps)
  BY DEF Place, Steps
<1>74. Place["wake3"] \in Seq(Steps)
  BY DEF Place, Steps
<1>75. Place["wake2"] \in Seq(Steps)
  BY DEF Place, Steps
<1>76. Place["wake1"] \in Seq(Steps)
  BY DEF Place, Steps
<1>77. Place["linkdown"] \in Seq(Steps)
  BY DEF Place, Steps
<1>78. Place["linkup"] \in Seq(Steps)
  BY DEF Place, Steps
<1> QED
  BY <1>1, <1>2, <1>3, <1>4, <1>5, <1>6, <1>7, <1>8, <1>9, <1>10, <1>11,
     <1>12, <1>13, <1>14, <1>15, <1>16, <1>17, <1>18, <1>19, <1>20, <1>21,
     <1>22, <1>23, <1>24, <1>25, <1>26, <1>27, <1>28, <1>29, <1>30, <1>31,
     <1>32, <1>33, <1>34, <1>35, <1>36, <1>37, <1>38, <1>39, <1>40, <1>41,
     <1>42, <1>43, <1>44, <1>45, <1>46, <1>47, <1>48, <1>49, <1>50, <1>51,
     <1>52, <1>53, <1>54, <1>55, <1>56, <1>57, <1>58, <1>59, <1>60, <1>61,
     <1>62, <1>63, <1>64, <1>65, <1>66, <1>67, <1>68, <1>69, <1>70, <1>71,
     <1>72, <1>73, <1>74, <1>75, <1>76, <1>77, <1>78,
     Zenon DEF Places, UserPlaces, WorkerPlaces, PmPlaces, PhyPlaces

(* The next step inside a routine, wherever it was called from. *)
LEMMA RoutineTable ==
  ASSUME NEW c \in Places
  PROVE
    /\ Goes("up1", c, "napi_enable", "up2", c)
    /\ Goes("up5", c, "napi_enable", "up6", c)
    /\ Goes("stop3", c, "napi_enable", "stop4", c)
    /\ Goes("reset3", c, "napi_enable", "reset4", c)
    /\ Goes("up2", c, "enable", "up3", c)
    /\ Goes("up3", c, "napi_disable", "up4", c)
    /\ Goes("down3", c, "napi_disable", "down4", c)
    /\ Goes("stop1", c, "napi_disable", "stop2", c)
    /\ Goes("reset1", c, "napi_disable", "reset2", c)
    /\ Goes("up4", c, "clear", "up5", c)
    /\ Goes("down4", c, "clear", "none", c)
    /\ Goes("stop2", c, "clear", "stop3", c)
    /\ Goes("reset2", c, "clear", "reset3", c)
    /\ Goes("up6", c, "hw_start", "up7", c)
    /\ Goes("stop4", c, "hw_start", "down3", c)
    /\ Goes("reset4", c, "hw_start", "none", c)
    /\ Goes("up7", c, "phy_start", "none", c)
    /\ Goes("down1", c, "clear_flags", "down2", c)
    /\ Goes("down2", c, "phy_stop", "down3", c)
<1>0. Place[c] \in Seq(Steps)
  BY PlaceTyped
<1>1. Goes("up1", c, "napi_enable", "up2", c)
  BY <1>0 DEF Routine, Goes, Rest, First, After
<1>2. Goes("up5", c, "napi_enable", "up6", c)
  BY <1>0 DEF Routine, Goes, Rest, First, After
<1>3. Goes("stop3", c, "napi_enable", "stop4", c)
  BY <1>0 DEF Routine, Goes, Rest, First, After
<1>4. Goes("reset3", c, "napi_enable", "reset4", c)
  BY <1>0 DEF Routine, Goes, Rest, First, After
<1>5. Goes("up2", c, "enable", "up3", c)
  BY <1>0 DEF Routine, Goes, Rest, First, After
<1>6. Goes("up3", c, "napi_disable", "up4", c)
  BY <1>0 DEF Routine, Goes, Rest, First, After
<1>7. Goes("down3", c, "napi_disable", "down4", c)
  BY <1>0 DEF Routine, Goes, Rest, First, After
<1>8. Goes("stop1", c, "napi_disable", "stop2", c)
  BY <1>0 DEF Routine, Goes, Rest, First, After
<1>9. Goes("reset1", c, "napi_disable", "reset2", c)
  BY <1>0 DEF Routine, Goes, Rest, First, After
<1>10. Goes("up4", c, "clear", "up5", c)
  BY <1>0 DEF Routine, Goes, Rest, First, After
<1>11. Goes("down4", c, "clear", "none", c)
  BY <1>0 DEF Routine, Goes, Rest, First, After
<1>12. Goes("stop2", c, "clear", "stop3", c)
  BY <1>0 DEF Routine, Goes, Rest, First, After
<1>13. Goes("reset2", c, "clear", "reset3", c)
  BY <1>0 DEF Routine, Goes, Rest, First, After
<1>14. Goes("up6", c, "hw_start", "up7", c)
  BY <1>0 DEF Routine, Goes, Rest, First, After
<1>15. Goes("stop4", c, "hw_start", "down3", c)
  BY <1>0 DEF Routine, Goes, Rest, First, After
<1>16. Goes("reset4", c, "hw_start", "none", c)
  BY <1>0 DEF Routine, Goes, Rest, First, After
<1>17. Goes("up7", c, "phy_start", "none", c)
  BY <1>0 DEF Routine, Goes, Rest, First, After
<1>18. Goes("down1", c, "clear_flags", "down2", c)
  BY <1>0 DEF Routine, Goes, Rest, First, After
<1>19. Goes("down2", c, "phy_stop", "down3", c)
  BY <1>0 DEF Routine, Goes, Rest, First, After
<1> QED
  BY <1>0, <1>1, <1>2, <1>3, <1>4, <1>5, <1>6, <1>7, <1>8, <1>9, <1>10, <1>11,
     <1>12, <1>13, <1>14, <1>15, <1>16, <1>17, <1>18, <1>19

(* The next step of a place, and where it leads. *)
LEMMA PlaceTable ==
    /\ Rest("none", "end") = <<>>
    /\ Goes("none", "open9", "unrtnl", "none", "end")
    /\ Goes("none", "leave9", "unrtnl", "none", "removed")
    /\ Goes("none", "shut5", "unrtnl", "none", "shut6")
    /\ Goes("none", "task4", "unrtnl", "none", "end")
    /\ Goes("none", "rsus4", "unrtnl", "none", "rsus5")
    /\ Goes("none", "sys4", "unrtnl", "none", "end")
    /\ Goes("none", "open8", "put", "none", "open9")
    /\ Goes("none", "leave8", "put", "none", "leave9")
    /\ Goes("none", "open7", "phy_connect", "up1", "open8")
    /\ Goes("none", "open6", "request_irq", "none", "open7")
    /\ Goes("none", "open5", "alloc", "none", "open6")
    /\ Goes("none", "open4", "get", "none", "open5")
    /\ Goes("none", "close3", "get", "down1", "close4")
    /\ Goes("none", "leave3", "get", "down1", "leave4")
    /\ Goes("none", "leave0", "get", "none", "leave1")
    /\ Goes("none", "bare", "get", "none", "removed")
    /\ Goes("none", "shut1", "get", "none", "shut2")
    /\ Goes("none", "open3", "start", "none", "open4")
    /\ Goes("none", "open2", "resume_parent", "none", "open3")
    /\ Goes("none", "open1", "rtnl", "none", "open2")
    /\ Goes("none", "close1", "rtnl", "none", "close2")
    /\ Goes("none", "leave1", "rtnl", "none", "leave2")
    /\ Goes("none", "shut2", "rtnl", "none", "shut3")
    /\ Goes("none", "task1", "rtnl", "none", "task2")
    /\ Goes("none", "rsus1", "rtnl", "none", "rsus2")
    /\ Goes("none", "sys1", "rtnl", "none", "sys2")
    /\ Goes("none", "parent3", "active", "none", "open2")
    /\ Goes("none", "oget3", "active", "none", "open4")
    /\ Goes("none", "cget3", "active", "none", "close3")
    /\ Goes("none", "lget3", "active", "none", "leave0")
    /\ Goes("none", "bget3", "active", "none", "bare")
    /\ Goes("none", "sget3", "active", "none", "shut1")
    /\ Goes("none", "rres3", "active", "none", "end")
    /\ Goes("none", "parent2", "attach", "none", "parent3")
    /\ Goes("none", "oget2", "attach", "none", "oget3")
    /\ Goes("none", "cget2", "attach", "none", "cget3")
    /\ Goes("none", "lget2", "attach", "none", "lget3")
    /\ Goes("none", "bget2", "attach", "none", "bget3")
    /\ Goes("none", "sget2", "attach", "none", "sget3")
    /\ Goes("none", "rres2", "attach", "none", "rres3")
    /\ Goes("none", "wake2", "attach", "none", "wake3")
    /\ Goes("none", "parent1", "up", "none", "parent2")
    /\ Goes("none", "oget1", "up", "none", "oget2")
    /\ Goes("none", "cget1", "up", "none", "cget2")
    /\ Goes("none", "lget1", "up", "none", "lget2")
    /\ Goes("none", "bget1", "up", "none", "bget2")
    /\ Goes("none", "sget1", "up", "none", "sget2")
    /\ Goes("none", "rres1", "up", "none", "rres2")
    /\ Goes("none", "wake1", "up", "none", "wake2")
    /\ Goes("none", "unwind3", "stop", "none", "open8")
    /\ Goes("none", "close2", "stop", "none", "close3")
    /\ Goes("none", "leave2", "stop", "none", "leave3")
    /\ Goes("none", "unwind2", "free", "none", "unwind3")
    /\ Goes("none", "close7", "free", "none", "open8")
    /\ Goes("none", "leave7", "free", "none", "leave8")
    /\ Goes("none", "unwind1", "free_irq", "none", "unwind2")
    /\ Goes("none", "close5", "free_irq", "none", "close6")
    /\ Goes("none", "leave5", "free_irq", "none", "leave6")
    /\ Goes("none", "close6", "phy_disconnect", "none", "close7")
    /\ Goes("none", "leave6", "phy_disconnect", "none", "leave7")
    /\ Goes("none", "close4", "cancel_work", "none", "close5")
    /\ Goes("none", "leave4", "cancel_work", "none", "leave5")
    /\ Goes("none", "removed", "removed", "none", "end")
    /\ Goes("none", "shut6", "shutdown", "none", "end")
    /\ Goes("none", "shut4", "down", "none", "shut5")
    /\ Goes("none", "rsus3", "down", "none", "rsus4")
    /\ Goes("none", "sys3", "down", "none", "sys4")
    /\ Goes("none", "shut3", "detach", "none", "shut4")
    /\ Goes("none", "rsus2", "detach", "none", "rsus3")
    /\ Goes("none", "bsus", "detach", "none", "rsus5")
    /\ Goes("none", "sys2", "detach", "none", "sys3")
    /\ Goes("none", "task3", "test_flags", "none", "task4")
    /\ Goes("none", "task2", "test_enabled", "none", "task3")
    /\ Goes("none", "rsus5", "suspended", "none", "end")
    /\ Goes("none", "wake3", "awake", "none", "end")
    /\ Goes("none", "linkdown", "pm_idle", "none", "end")
    /\ Goes("none", "linkup", "pm_resume", "none", "end")
<1>0. Rest("none", "end") = <<>>
  BY DEF Place, Routine, Rest
<1>1. Goes("none", "open9", "unrtnl", "none", "end")
  BY DEF Place, Routine, Goes, Rest, First, After
<1>2. Goes("none", "leave9", "unrtnl", "none", "removed")
  BY DEF Place, Routine, Goes, Rest, First, After
<1>3. Goes("none", "shut5", "unrtnl", "none", "shut6")
  BY DEF Place, Routine, Goes, Rest, First, After
<1>4. Goes("none", "task4", "unrtnl", "none", "end")
  BY DEF Place, Routine, Goes, Rest, First, After
<1>5. Goes("none", "rsus4", "unrtnl", "none", "rsus5")
  BY DEF Place, Routine, Goes, Rest, First, After
<1>6. Goes("none", "sys4", "unrtnl", "none", "end")
  BY DEF Place, Routine, Goes, Rest, First, After
<1>7. Goes("none", "open8", "put", "none", "open9")
  BY DEF Place, Routine, Goes, Rest, First, After
<1>8. Goes("none", "leave8", "put", "none", "leave9")
  BY DEF Place, Routine, Goes, Rest, First, After
<1>9. Goes("none", "open7", "phy_connect", "up1", "open8")
  BY DEF Place, Routine, Goes, Rest, First, After
<1>10. Goes("none", "open6", "request_irq", "none", "open7")
  BY DEF Place, Routine, Goes, Rest, First, After
<1>11. Goes("none", "open5", "alloc", "none", "open6")
  BY DEF Place, Routine, Goes, Rest, First, After
<1>12. Goes("none", "open4", "get", "none", "open5")
  BY DEF Place, Routine, Goes, Rest, First, After
<1>13. Goes("none", "close3", "get", "down1", "close4")
  BY DEF Place, Routine, Goes, Rest, First, After
<1>14. Goes("none", "leave3", "get", "down1", "leave4")
  BY DEF Place, Routine, Goes, Rest, First, After
<1>15. Goes("none", "leave0", "get", "none", "leave1")
  BY DEF Place, Routine, Goes, Rest, First, After
<1>16. Goes("none", "bare", "get", "none", "removed")
  BY DEF Place, Routine, Goes, Rest, First, After
<1>17. Goes("none", "shut1", "get", "none", "shut2")
  BY DEF Place, Routine, Goes, Rest, First, After
<1>18. Goes("none", "open3", "start", "none", "open4")
  BY DEF Place, Routine, Goes, Rest, First, After
<1>19. Goes("none", "open2", "resume_parent", "none", "open3")
  BY DEF Place, Routine, Goes, Rest, First, After
<1>20. Goes("none", "open1", "rtnl", "none", "open2")
  BY DEF Place, Routine, Goes, Rest, First, After
<1>21. Goes("none", "close1", "rtnl", "none", "close2")
  BY DEF Place, Routine, Goes, Rest, First, After
<1>22. Goes("none", "leave1", "rtnl", "none", "leave2")
  BY DEF Place, Routine, Goes, Rest, First, After
<1>23. Goes("none", "shut2", "rtnl", "none", "shut3")
  BY DEF Place, Routine, Goes, Rest, First, After
<1>24. Goes("none", "task1", "rtnl", "none", "task2")
  BY DEF Place, Routine, Goes, Rest, First, After
<1>25. Goes("none", "rsus1", "rtnl", "none", "rsus2")
  BY DEF Place, Routine, Goes, Rest, First, After
<1>26. Goes("none", "sys1", "rtnl", "none", "sys2")
  BY DEF Place, Routine, Goes, Rest, First, After
<1>27. Goes("none", "parent3", "active", "none", "open2")
  BY DEF Place, Routine, Goes, Rest, First, After
<1>28. Goes("none", "oget3", "active", "none", "open4")
  BY DEF Place, Routine, Goes, Rest, First, After
<1>29. Goes("none", "cget3", "active", "none", "close3")
  BY DEF Place, Routine, Goes, Rest, First, After
<1>30. Goes("none", "lget3", "active", "none", "leave0")
  BY DEF Place, Routine, Goes, Rest, First, After
<1>31. Goes("none", "bget3", "active", "none", "bare")
  BY DEF Place, Routine, Goes, Rest, First, After
<1>32. Goes("none", "sget3", "active", "none", "shut1")
  BY DEF Place, Routine, Goes, Rest, First, After
<1>33. Goes("none", "rres3", "active", "none", "end")
  BY DEF Place, Routine, Goes, Rest, First, After
<1>34. Goes("none", "parent2", "attach", "none", "parent3")
  BY DEF Place, Routine, Goes, Rest, First, After
<1>35. Goes("none", "oget2", "attach", "none", "oget3")
  BY DEF Place, Routine, Goes, Rest, First, After
<1>36. Goes("none", "cget2", "attach", "none", "cget3")
  BY DEF Place, Routine, Goes, Rest, First, After
<1>37. Goes("none", "lget2", "attach", "none", "lget3")
  BY DEF Place, Routine, Goes, Rest, First, After
<1>38. Goes("none", "bget2", "attach", "none", "bget3")
  BY DEF Place, Routine, Goes, Rest, First, After
<1>39. Goes("none", "sget2", "attach", "none", "sget3")
  BY DEF Place, Routine, Goes, Rest, First, After
<1>40. Goes("none", "rres2", "attach", "none", "rres3")
  BY DEF Place, Routine, Goes, Rest, First, After
<1>41. Goes("none", "wake2", "attach", "none", "wake3")
  BY DEF Place, Routine, Goes, Rest, First, After
<1>42. Goes("none", "parent1", "up", "none", "parent2")
  BY DEF Place, Routine, Goes, Rest, First, After
<1>43. Goes("none", "oget1", "up", "none", "oget2")
  BY DEF Place, Routine, Goes, Rest, First, After
<1>44. Goes("none", "cget1", "up", "none", "cget2")
  BY DEF Place, Routine, Goes, Rest, First, After
<1>45. Goes("none", "lget1", "up", "none", "lget2")
  BY DEF Place, Routine, Goes, Rest, First, After
<1>46. Goes("none", "bget1", "up", "none", "bget2")
  BY DEF Place, Routine, Goes, Rest, First, After
<1>47. Goes("none", "sget1", "up", "none", "sget2")
  BY DEF Place, Routine, Goes, Rest, First, After
<1>48. Goes("none", "rres1", "up", "none", "rres2")
  BY DEF Place, Routine, Goes, Rest, First, After
<1>49. Goes("none", "wake1", "up", "none", "wake2")
  BY DEF Place, Routine, Goes, Rest, First, After
<1>50. Goes("none", "unwind3", "stop", "none", "open8")
  BY DEF Place, Routine, Goes, Rest, First, After
<1>51. Goes("none", "close2", "stop", "none", "close3")
  BY DEF Place, Routine, Goes, Rest, First, After
<1>52. Goes("none", "leave2", "stop", "none", "leave3")
  BY DEF Place, Routine, Goes, Rest, First, After
<1>53. Goes("none", "unwind2", "free", "none", "unwind3")
  BY DEF Place, Routine, Goes, Rest, First, After
<1>54. Goes("none", "close7", "free", "none", "open8")
  BY DEF Place, Routine, Goes, Rest, First, After
<1>55. Goes("none", "leave7", "free", "none", "leave8")
  BY DEF Place, Routine, Goes, Rest, First, After
<1>56. Goes("none", "unwind1", "free_irq", "none", "unwind2")
  BY DEF Place, Routine, Goes, Rest, First, After
<1>57. Goes("none", "close5", "free_irq", "none", "close6")
  BY DEF Place, Routine, Goes, Rest, First, After
<1>58. Goes("none", "leave5", "free_irq", "none", "leave6")
  BY DEF Place, Routine, Goes, Rest, First, After
<1>59. Goes("none", "close6", "phy_disconnect", "none", "close7")
  BY DEF Place, Routine, Goes, Rest, First, After
<1>60. Goes("none", "leave6", "phy_disconnect", "none", "leave7")
  BY DEF Place, Routine, Goes, Rest, First, After
<1>61. Goes("none", "close4", "cancel_work", "none", "close5")
  BY DEF Place, Routine, Goes, Rest, First, After
<1>62. Goes("none", "leave4", "cancel_work", "none", "leave5")
  BY DEF Place, Routine, Goes, Rest, First, After
<1>63. Goes("none", "removed", "removed", "none", "end")
  BY DEF Place, Routine, Goes, Rest, First, After
<1>64. Goes("none", "shut6", "shutdown", "none", "end")
  BY DEF Place, Routine, Goes, Rest, First, After
<1>65. Goes("none", "shut4", "down", "none", "shut5")
  BY DEF Place, Routine, Goes, Rest, First, After
<1>66. Goes("none", "rsus3", "down", "none", "rsus4")
  BY DEF Place, Routine, Goes, Rest, First, After
<1>67. Goes("none", "sys3", "down", "none", "sys4")
  BY DEF Place, Routine, Goes, Rest, First, After
<1>68. Goes("none", "shut3", "detach", "none", "shut4")
  BY DEF Place, Routine, Goes, Rest, First, After
<1>69. Goes("none", "rsus2", "detach", "none", "rsus3")
  BY DEF Place, Routine, Goes, Rest, First, After
<1>70. Goes("none", "bsus", "detach", "none", "rsus5")
  BY DEF Place, Routine, Goes, Rest, First, After
<1>71. Goes("none", "sys2", "detach", "none", "sys3")
  BY DEF Place, Routine, Goes, Rest, First, After
<1>72. Goes("none", "task3", "test_flags", "none", "task4")
  BY DEF Place, Routine, Goes, Rest, First, After
<1>73. Goes("none", "task2", "test_enabled", "none", "task3")
  BY DEF Place, Routine, Goes, Rest, First, After
<1>74. Goes("none", "rsus5", "suspended", "none", "end")
  BY DEF Place, Routine, Goes, Rest, First, After
<1>75. Goes("none", "wake3", "awake", "none", "end")
  BY DEF Place, Routine, Goes, Rest, First, After
<1>76. Goes("none", "linkdown", "pm_idle", "none", "end")
  BY DEF Place, Routine, Goes, Rest, First, After
<1>77. Goes("none", "linkup", "pm_resume", "none", "end")
  BY DEF Place, Routine, Goes, Rest, First, After
<1> QED
  BY <1>0, <1>1, <1>2, <1>3, <1>4, <1>5, <1>6, <1>7, <1>8, <1>9, <1>10, <1>11,
     <1>12, <1>13, <1>14, <1>15, <1>16, <1>17, <1>18, <1>19, <1>20, <1>21,
     <1>22, <1>23, <1>24, <1>25, <1>26, <1>27, <1>28, <1>29, <1>30, <1>31,
     <1>32, <1>33, <1>34, <1>35, <1>36, <1>37, <1>38, <1>39, <1>40, <1>41,
     <1>42, <1>43, <1>44, <1>45, <1>46, <1>47, <1>48, <1>49, <1>50, <1>51,
     <1>52, <1>53, <1>54, <1>55, <1>56, <1>57, <1>58, <1>59, <1>60, <1>61,
     <1>62, <1>63, <1>64, <1>65, <1>66, <1>67, <1>68, <1>69, <1>70, <1>71,
     <1>72, <1>73, <1>74, <1>75, <1>76, <1>77

(* The positions from which a thread enables NAPI. *)
LEMMA AtNapiEnable ==
  ASSUME NEW i \in Routines, NEW c \in Places, Rest(i, c) # <<>>,
         First(i, c) = "napi_enable"
  PROVE
    \/ i = "up1" /\ After(i, c) = Rest("up2", c)
    \/ i = "up5" /\ After(i, c) = Rest("up6", c)
    \/ i = "stop3" /\ After(i, c) = Rest("stop4", c)
    \/ i = "reset3" /\ After(i, c) = Rest("reset4", c)
  BY RoutineTable, PlaceTable
    DEF Routines, Places, UserPlaces, WorkerPlaces, PmPlaces, PhyPlaces, Goes

(* The positions from which a thread allows the work item. *)
LEMMA AtEnable ==
  ASSUME NEW i \in Routines, NEW c \in Places, Rest(i, c) # <<>>, First(i, c) = "enable"
  PROVE
    \/ i = "up2" /\ After(i, c) = Rest("up3", c)
  BY RoutineTable, PlaceTable
    DEF Routines, Places, UserPlaces, WorkerPlaces, PmPlaces, PhyPlaces, Goes

(* The positions from which a thread disables NAPI. *)
LEMMA AtNapiDisable ==
  ASSUME NEW i \in Routines, NEW c \in Places, Rest(i, c) # <<>>,
         First(i, c) = "napi_disable"
  PROVE
    \/ i = "up3" /\ After(i, c) = Rest("up4", c)
    \/ i = "down3" /\ After(i, c) = Rest("down4", c)
    \/ i = "stop1" /\ After(i, c) = Rest("stop2", c)
    \/ i = "reset1" /\ After(i, c) = Rest("reset2", c)
  BY RoutineTable, PlaceTable
    DEF Routines, Places, UserPlaces, WorkerPlaces, PmPlaces, PhyPlaces, Goes

(* The positions from which a thread stops the chip and clears the rings. *)
LEMMA AtClear ==
  ASSUME NEW i \in Routines, NEW c \in Places, Rest(i, c) # <<>>, First(i, c) = "clear"
  PROVE
    \/ i = "up4" /\ After(i, c) = Rest("up5", c)
    \/ i = "down4" /\ After(i, c) = Rest("none", c)
    \/ i = "stop2" /\ After(i, c) = Rest("stop3", c)
    \/ i = "reset2" /\ After(i, c) = Rest("reset3", c)
  BY RoutineTable, PlaceTable
    DEF Routines, Places, UserPlaces, WorkerPlaces, PmPlaces, PhyPlaces, Goes

(* The positions from which a thread starts the chip. *)
LEMMA AtHwStart ==
  ASSUME NEW i \in Routines, NEW c \in Places, Rest(i, c) # <<>>, First(i, c) = "hw_start"
  PROVE
    \/ i = "up6" /\ After(i, c) = Rest("up7", c)
    \/ i = "stop4" /\ After(i, c) = Rest("down3", c)
    \/ i = "reset4" /\ After(i, c) = Rest("none", c)
  BY RoutineTable, PlaceTable
    DEF Routines, Places, UserPlaces, WorkerPlaces, PmPlaces, PhyPlaces, Goes

(* The positions from which a thread starts the phy. *)
LEMMA AtPhyStart ==
  ASSUME NEW i \in Routines, NEW c \in Places, Rest(i, c) # <<>>, First(i, c) = "phy_start"
  PROVE
    \/ i = "up7" /\ After(i, c) = Rest("none", c)
  BY RoutineTable, PlaceTable
    DEF Routines, Places, UserPlaces, WorkerPlaces, PmPlaces, PhyPlaces, Goes

(* The positions from which a thread clears the flags of the work item. *)
LEMMA AtClearFlags ==
  ASSUME NEW i \in Routines, NEW c \in Places, Rest(i, c) # <<>>,
         First(i, c) = "clear_flags"
  PROVE
    \/ i = "down1" /\ After(i, c) = Rest("down2", c)
  BY RoutineTable, PlaceTable
    DEF Routines, Places, UserPlaces, WorkerPlaces, PmPlaces, PhyPlaces, Goes

(* The positions from which a thread stops the phy. *)
LEMMA AtPhyStop ==
  ASSUME NEW i \in Routines, NEW c \in Places, Rest(i, c) # <<>>, First(i, c) = "phy_stop"
  PROVE
    \/ i = "down2" /\ After(i, c) = Rest("down3", c)
  BY RoutineTable, PlaceTable
    DEF Routines, Places, UserPlaces, WorkerPlaces, PmPlaces, PhyPlaces, Goes

(* The positions from which a thread gives the rtnl lock back. *)
LEMMA AtUnrtnl ==
  ASSUME NEW i \in Routines, NEW c \in Places, Rest(i, c) # <<>>, First(i, c) = "unrtnl"
  PROVE
    \/ i = "none" /\ c = "open9" /\ After(i, c) = Rest("none", "end")
    \/ i = "none" /\ c = "leave9" /\ After(i, c) = Rest("none", "removed")
    \/ i = "none" /\ c = "shut5" /\ After(i, c) = Rest("none", "shut6")
    \/ i = "none" /\ c = "task4" /\ After(i, c) = Rest("none", "end")
    \/ i = "none" /\ c = "rsus4" /\ After(i, c) = Rest("none", "rsus5")
    \/ i = "none" /\ c = "sys4" /\ After(i, c) = Rest("none", "end")
  BY RoutineTable, PlaceTable
    DEF Routines, Places, UserPlaces, WorkerPlaces, PmPlaces, PhyPlaces, Goes

(* The positions from which a thread gives its reference to runtime power *)
(* back.                                                                  *)
LEMMA AtPut ==
  ASSUME NEW i \in Routines, NEW c \in Places, Rest(i, c) # <<>>, First(i, c) = "put"
  PROVE
    \/ i = "none" /\ c = "open8" /\ After(i, c) = Rest("none", "open9")
    \/ i = "none" /\ c = "leave8" /\ After(i, c) = Rest("none", "leave9")
  BY RoutineTable, PlaceTable
    DEF Routines, Places, UserPlaces, WorkerPlaces, PmPlaces, PhyPlaces, Goes

(* The positions from which a thread connects the phy. *)
LEMMA AtPhyConnect ==
  ASSUME NEW i \in Routines, NEW c \in Places, Rest(i, c) # <<>>,
         First(i, c) = "phy_connect"
  PROVE
    \/ i = "none" /\ c = "open7" /\ After(i, c) = Rest("up1", "open8")
  BY RoutineTable, PlaceTable
    DEF Routines, Places, UserPlaces, WorkerPlaces, PmPlaces, PhyPlaces, Goes

(* The positions from which a thread installs the handler. *)
LEMMA AtRequestIrq ==
  ASSUME NEW i \in Routines, NEW c \in Places, Rest(i, c) # <<>>,
         First(i, c) = "request_irq"
  PROVE
    \/ i = "none" /\ c = "open6" /\ After(i, c) = Rest("none", "open7")
  BY RoutineTable, PlaceTable
    DEF Routines, Places, UserPlaces, WorkerPlaces, PmPlaces, PhyPlaces, Goes

(* The positions from which a thread allocates the rings. *)
LEMMA AtAlloc ==
  ASSUME NEW i \in Routines, NEW c \in Places, Rest(i, c) # <<>>, First(i, c) = "alloc"
  PROVE
    \/ i = "none" /\ c = "open5" /\ After(i, c) = Rest("none", "open6")
  BY RoutineTable, PlaceTable
    DEF Routines, Places, UserPlaces, WorkerPlaces, PmPlaces, PhyPlaces, Goes

(* The positions from which a thread takes a reference to runtime power. *)
LEMMA AtGet ==
  ASSUME NEW i \in Routines, NEW c \in Places, Rest(i, c) # <<>>, First(i, c) = "get"
  PROVE
    \/ i = "none" /\ c = "open4" /\ After(i, c) = Rest("none", "open5")
    \/ i = "none" /\ c = "close3" /\ After(i, c) = Rest("down1", "close4")
    \/ i = "none" /\ c = "leave3" /\ After(i, c) = Rest("down1", "leave4")
    \/ i = "none" /\ c = "leave0" /\ After(i, c) = Rest("none", "leave1")
    \/ i = "none" /\ c = "bare" /\ After(i, c) = Rest("none", "removed")
    \/ i = "none" /\ c = "shut1" /\ After(i, c) = Rest("none", "shut2")
  BY RoutineTable, PlaceTable
    DEF Routines, Places, UserPlaces, WorkerPlaces, PmPlaces, PhyPlaces, Goes

(* The positions from which a thread marks the device running. *)
LEMMA AtStart ==
  ASSUME NEW i \in Routines, NEW c \in Places, Rest(i, c) # <<>>, First(i, c) = "start"
  PROVE
    \/ i = "none" /\ c = "open3" /\ After(i, c) = Rest("none", "open4")
  BY RoutineTable, PlaceTable
    DEF Routines, Places, UserPlaces, WorkerPlaces, PmPlaces, PhyPlaces, Goes

(* The positions from which a thread resumes a device that is not present. *)
LEMMA AtResumeParent ==
  ASSUME NEW i \in Routines, NEW c \in Places, Rest(i, c) # <<>>,
         First(i, c) = "resume_parent"
  PROVE
    \/ i = "none" /\ c = "open2" /\ After(i, c) = Rest("none", "open3")
  BY RoutineTable, PlaceTable
    DEF Routines, Places, UserPlaces, WorkerPlaces, PmPlaces, PhyPlaces, Goes

(* The positions from which a thread takes the rtnl lock. *)
LEMMA AtRtnl ==
  ASSUME NEW i \in Routines, NEW c \in Places, Rest(i, c) # <<>>, First(i, c) = "rtnl"
  PROVE
    \/ i = "none" /\ c = "open1" /\ After(i, c) = Rest("none", "open2")
    \/ i = "none" /\ c = "close1" /\ After(i, c) = Rest("none", "close2")
    \/ i = "none" /\ c = "leave1" /\ After(i, c) = Rest("none", "leave2")
    \/ i = "none" /\ c = "shut2" /\ After(i, c) = Rest("none", "shut3")
    \/ i = "none" /\ c = "task1" /\ After(i, c) = Rest("none", "task2")
    \/ i = "none" /\ c = "rsus1" /\ After(i, c) = Rest("none", "rsus2")
    \/ i = "none" /\ c = "sys1" /\ After(i, c) = Rest("none", "sys2")
  BY RoutineTable, PlaceTable
    DEF Routines, Places, UserPlaces, WorkerPlaces, PmPlaces, PhyPlaces, Goes

(* The positions from which a thread ends a runtime resume. *)
LEMMA AtActive ==
  ASSUME NEW i \in Routines, NEW c \in Places, Rest(i, c) # <<>>, First(i, c) = "active"
  PROVE
    \/ i = "none" /\ c = "parent3" /\ After(i, c) = Rest("none", "open2")
    \/ i = "none" /\ c = "oget3" /\ After(i, c) = Rest("none", "open4")
    \/ i = "none" /\ c = "cget3" /\ After(i, c) = Rest("none", "close3")
    \/ i = "none" /\ c = "lget3" /\ After(i, c) = Rest("none", "leave0")
    \/ i = "none" /\ c = "bget3" /\ After(i, c) = Rest("none", "bare")
    \/ i = "none" /\ c = "sget3" /\ After(i, c) = Rest("none", "shut1")
    \/ i = "none" /\ c = "rres3" /\ After(i, c) = Rest("none", "end")
  BY RoutineTable, PlaceTable
    DEF Routines, Places, UserPlaces, WorkerPlaces, PmPlaces, PhyPlaces, Goes

(* The positions from which a thread attaches the net device. *)
LEMMA AtAttach ==
  ASSUME NEW i \in Routines, NEW c \in Places, Rest(i, c) # <<>>, First(i, c) = "attach"
  PROVE
    \/ i = "none" /\ c = "parent2" /\ After(i, c) = Rest("none", "parent3")
    \/ i = "none" /\ c = "oget2" /\ After(i, c) = Rest("none", "oget3")
    \/ i = "none" /\ c = "cget2" /\ After(i, c) = Rest("none", "cget3")
    \/ i = "none" /\ c = "lget2" /\ After(i, c) = Rest("none", "lget3")
    \/ i = "none" /\ c = "bget2" /\ After(i, c) = Rest("none", "bget3")
    \/ i = "none" /\ c = "sget2" /\ After(i, c) = Rest("none", "sget3")
    \/ i = "none" /\ c = "rres2" /\ After(i, c) = Rest("none", "rres3")
    \/ i = "none" /\ c = "wake2" /\ After(i, c) = Rest("none", "wake3")
  BY RoutineTable, PlaceTable
    DEF Routines, Places, UserPlaces, WorkerPlaces, PmPlaces, PhyPlaces, Goes

(* The positions from which a thread calls rtl8169_up if the rings are *)
(* there.                                                              *)
LEMMA AtUp ==
  ASSUME NEW i \in Routines, NEW c \in Places, Rest(i, c) # <<>>, First(i, c) = "up"
  PROVE
    \/ i = "none" /\ c = "parent1" /\ After(i, c) = Rest("none", "parent2")
    \/ i = "none" /\ c = "oget1" /\ After(i, c) = Rest("none", "oget2")
    \/ i = "none" /\ c = "cget1" /\ After(i, c) = Rest("none", "cget2")
    \/ i = "none" /\ c = "lget1" /\ After(i, c) = Rest("none", "lget2")
    \/ i = "none" /\ c = "bget1" /\ After(i, c) = Rest("none", "bget2")
    \/ i = "none" /\ c = "sget1" /\ After(i, c) = Rest("none", "sget2")
    \/ i = "none" /\ c = "rres1" /\ After(i, c) = Rest("none", "rres2")
    \/ i = "none" /\ c = "wake1" /\ After(i, c) = Rest("none", "wake2")
  BY RoutineTable, PlaceTable
    DEF Routines, Places, UserPlaces, WorkerPlaces, PmPlaces, PhyPlaces, Goes

(* The positions from which a thread marks it no longer running. *)
LEMMA AtStop ==
  ASSUME NEW i \in Routines, NEW c \in Places, Rest(i, c) # <<>>, First(i, c) = "stop"
  PROVE
    \/ i = "none" /\ c = "unwind3" /\ After(i, c) = Rest("none", "open8")
    \/ i = "none" /\ c = "close2" /\ After(i, c) = Rest("none", "close3")
    \/ i = "none" /\ c = "leave2" /\ After(i, c) = Rest("none", "leave3")
  BY RoutineTable, PlaceTable
    DEF Routines, Places, UserPlaces, WorkerPlaces, PmPlaces, PhyPlaces, Goes

(* The positions from which a thread frees the rings. *)
LEMMA AtFree ==
  ASSUME NEW i \in Routines, NEW c \in Places, Rest(i, c) # <<>>, First(i, c) = "free"
  PROVE
    \/ i = "none" /\ c = "unwind2" /\ After(i, c) = Rest("none", "unwind3")
    \/ i = "none" /\ c = "close7" /\ After(i, c) = Rest("none", "open8")
    \/ i = "none" /\ c = "leave7" /\ After(i, c) = Rest("none", "leave8")
  BY RoutineTable, PlaceTable
    DEF Routines, Places, UserPlaces, WorkerPlaces, PmPlaces, PhyPlaces, Goes

(* The positions from which a thread removes the handler. *)
LEMMA AtFreeIrq ==
  ASSUME NEW i \in Routines, NEW c \in Places, Rest(i, c) # <<>>, First(i, c) = "free_irq"
  PROVE
    \/ i = "none" /\ c = "unwind1" /\ After(i, c) = Rest("none", "unwind2")
    \/ i = "none" /\ c = "close5" /\ After(i, c) = Rest("none", "close6")
    \/ i = "none" /\ c = "leave5" /\ After(i, c) = Rest("none", "leave6")
  BY RoutineTable, PlaceTable
    DEF Routines, Places, UserPlaces, WorkerPlaces, PmPlaces, PhyPlaces, Goes

(* The positions from which a thread disconnects the phy. *)
LEMMA AtPhyDisconnect ==
  ASSUME NEW i \in Routines, NEW c \in Places, Rest(i, c) # <<>>,
         First(i, c) = "phy_disconnect"
  PROVE
    \/ i = "none" /\ c = "close6" /\ After(i, c) = Rest("none", "close7")
    \/ i = "none" /\ c = "leave6" /\ After(i, c) = Rest("none", "leave7")
  BY RoutineTable, PlaceTable
    DEF Routines, Places, UserPlaces, WorkerPlaces, PmPlaces, PhyPlaces, Goes

(* The positions from which a thread cancels the work item. *)
LEMMA AtCancelWork ==
  ASSUME NEW i \in Routines, NEW c \in Places, Rest(i, c) # <<>>,
         First(i, c) = "cancel_work"
  PROVE
    \/ i = "none" /\ c = "close4" /\ After(i, c) = Rest("none", "close5")
    \/ i = "none" /\ c = "leave4" /\ After(i, c) = Rest("none", "leave5")
  BY RoutineTable, PlaceTable
    DEF Routines, Places, UserPlaces, WorkerPlaces, PmPlaces, PhyPlaces, Goes

(* The positions from which a thread ends the removal. *)
LEMMA AtRemoved ==
  ASSUME NEW i \in Routines, NEW c \in Places, Rest(i, c) # <<>>, First(i, c) = "removed"
  PROVE
    \/ i = "none" /\ c = "removed" /\ After(i, c) = Rest("none", "end")
  BY RoutineTable, PlaceTable
    DEF Routines, Places, UserPlaces, WorkerPlaces, PmPlaces, PhyPlaces, Goes

(* The positions from which a thread ends the shutdown. *)
LEMMA AtShutdown ==
  ASSUME NEW i \in Routines, NEW c \in Places, Rest(i, c) # <<>>, First(i, c) = "shutdown"
  PROVE
    \/ i = "none" /\ c = "shut6" /\ After(i, c) = Rest("none", "end")
  BY RoutineTable, PlaceTable
    DEF Routines, Places, UserPlaces, WorkerPlaces, PmPlaces, PhyPlaces, Goes

(* The positions from which a thread calls rtl8169_down if the device runs. *)
LEMMA AtDown ==
  ASSUME NEW i \in Routines, NEW c \in Places, Rest(i, c) # <<>>, First(i, c) = "down"
  PROVE
    \/ i = "none" /\ c = "shut4" /\ After(i, c) = Rest("none", "shut5")
    \/ i = "none" /\ c = "rsus3" /\ After(i, c) = Rest("none", "rsus4")
    \/ i = "none" /\ c = "sys3" /\ After(i, c) = Rest("none", "sys4")
  BY RoutineTable, PlaceTable
    DEF Routines, Places, UserPlaces, WorkerPlaces, PmPlaces, PhyPlaces, Goes

(* The positions from which a thread detaches the net device. *)
LEMMA AtDetach ==
  ASSUME NEW i \in Routines, NEW c \in Places, Rest(i, c) # <<>>, First(i, c) = "detach"
  PROVE
    \/ i = "none" /\ c = "shut3" /\ After(i, c) = Rest("none", "shut4")
    \/ i = "none" /\ c = "rsus2" /\ After(i, c) = Rest("none", "rsus3")
    \/ i = "none" /\ c = "bsus" /\ After(i, c) = Rest("none", "rsus5")
    \/ i = "none" /\ c = "sys2" /\ After(i, c) = Rest("none", "sys3")
  BY RoutineTable, PlaceTable
    DEF Routines, Places, UserPlaces, WorkerPlaces, PmPlaces, PhyPlaces, Goes

(* The positions from which a thread tests what rtl_task has to do. *)
LEMMA AtTestFlags ==
  ASSUME NEW i \in Routines, NEW c \in Places, Rest(i, c) # <<>>, First(i, c) = "test_flags"
  PROVE
    \/ i = "none" /\ c = "task3" /\ After(i, c) = Rest("none", "task4")
  BY RoutineTable, PlaceTable
    DEF Routines, Places, UserPlaces, WorkerPlaces, PmPlaces, PhyPlaces, Goes

(* The positions from which a thread tests whether rtl_task may run. *)
LEMMA AtTestEnabled ==
  ASSUME NEW i \in Routines, NEW c \in Places, Rest(i, c) # <<>>,
         First(i, c) = "test_enabled"
  PROVE
    \/ i = "none" /\ c = "task2" /\ After(i, c) = Rest("none", "task3")
  BY RoutineTable, PlaceTable
    DEF Routines, Places, UserPlaces, WorkerPlaces, PmPlaces, PhyPlaces, Goes

(* The positions from which a thread ends a runtime suspend. *)
LEMMA AtSuspended ==
  ASSUME NEW i \in Routines, NEW c \in Places, Rest(i, c) # <<>>, First(i, c) = "suspended"
  PROVE
    \/ i = "none" /\ c = "rsus5" /\ After(i, c) = Rest("none", "end")
  BY RoutineTable, PlaceTable
    DEF Routines, Places, UserPlaces, WorkerPlaces, PmPlaces, PhyPlaces, Goes

(* The positions from which a thread ends a system sleep. *)
LEMMA AtAwake ==
  ASSUME NEW i \in Routines, NEW c \in Places, Rest(i, c) # <<>>, First(i, c) = "awake"
  PROVE
    \/ i = "none" /\ c = "wake3" /\ After(i, c) = Rest("none", "end")
  BY RoutineTable, PlaceTable
    DEF Routines, Places, UserPlaces, WorkerPlaces, PmPlaces, PhyPlaces, Goes

(* The positions from which a thread asks for a runtime suspend. *)
LEMMA AtPmIdle ==
  ASSUME NEW i \in Routines, NEW c \in Places, Rest(i, c) # <<>>, First(i, c) = "pm_idle"
  PROVE
    \/ i = "none" /\ c = "linkdown" /\ After(i, c) = Rest("none", "end")
  BY RoutineTable, PlaceTable
    DEF Routines, Places, UserPlaces, WorkerPlaces, PmPlaces, PhyPlaces, Goes

(* The positions from which a thread takes the request for one back. *)
LEMMA AtPmResume ==
  ASSUME NEW i \in Routines, NEW c \in Places, Rest(i, c) # <<>>, First(i, c) = "pm_resume"
  PROVE
    \/ i = "none" /\ c = "linkup" /\ After(i, c) = Rest("none", "end")
  BY RoutineTable, PlaceTable
    DEF Routines, Places, UserPlaces, WorkerPlaces, PmPlaces, PhyPlaces, Goes

-----------------------------------------------------------------------------
(* What one step does, and what it leaves alone.                               *)

(* What a thread changes that enables NAPI. *)
LEMMA DoesNapiEnable ==
  ASSUME NEW t, Step(t), At(t, "napi_enable")
  PROVE
  /\ napi' = TRUE
  /\ Then(t)
  /\ UNCHANGED <<rtnl, running, present, carrier, flags, queued, ring, irq, hw, phy,
        rpm, usage, idle, asleep, gone>>
  BY DEF Step, LockStep, PowerStep, GoneStep, NetStep, WorkStep, DevStep, PhyStop, At, net,
     wk, dev, power

(* What a thread changes that allows the work item. *)
LEMMA DoesEnable ==
  ASSUME NEW t, Step(t), At(t, "enable")
  PROVE
  /\ flags' = flags \cup {"enabled"}
  /\ Then(t)
  /\ UNCHANGED <<rtnl, running, present, carrier, queued, ring, irq, napi, hw, phy,
        rpm, usage, idle, asleep, gone>>
  BY DEF Step, LockStep, PowerStep, GoneStep, NetStep, WorkStep, DevStep, PhyStop, At, net,
     wk, dev, power

(* What a thread changes that disables NAPI. *)
LEMMA DoesNapiDisable ==
  ASSUME NEW t, Step(t), At(t, "napi_disable")
  PROVE
  /\ napi /\ napi' = FALSE
  /\ Then(t)
  /\ UNCHANGED <<rtnl, running, present, carrier, flags, queued, ring, irq, hw, phy,
        rpm, usage, idle, asleep, gone>>
  BY DEF Step, LockStep, PowerStep, GoneStep, NetStep, WorkStep, DevStep, PhyStop, At, net,
     wk, dev, power

(* What a thread changes that stops the chip and clears the rings. *)
LEMMA DoesClear ==
  ASSUME NEW t, Step(t), At(t, "clear")
  PROVE
  /\ hw' = FALSE
  /\ Then(t)
  /\ UNCHANGED <<rtnl, running, present, carrier, flags, queued, ring, irq, napi, phy,
        rpm, usage, idle, asleep, gone>>
  BY DEF Step, LockStep, PowerStep, GoneStep, NetStep, WorkStep, DevStep, PhyStop, At, net,
     wk, dev, power

(* What a thread changes that starts the chip. *)
LEMMA DoesHwStart ==
  ASSUME NEW t, Step(t), At(t, "hw_start")
  PROVE
  /\ hw' = TRUE
  /\ Then(t)
  /\ UNCHANGED <<rtnl, running, present, carrier, flags, queued, ring, irq, napi, phy,
        rpm, usage, idle, asleep, gone>>
  BY DEF Step, LockStep, PowerStep, GoneStep, NetStep, WorkStep, DevStep, PhyStop, At, net,
     wk, dev, power

(* What a thread changes that starts the phy. *)
LEMMA DoesPhyStart ==
  ASSUME NEW t, Step(t), At(t, "phy_start")
  PROVE
  /\ phy' = "started"
  /\ Then(t)
  /\ UNCHANGED <<rtnl, running, present, carrier, flags, queued, ring, irq, napi, hw,
        rpm, usage, idle, asleep, gone>>
  BY DEF Step, LockStep, PowerStep, GoneStep, NetStep, WorkStep, DevStep, PhyStop, At, net,
     wk, dev, power

(* What a thread changes that clears the flags of the work item. *)
LEMMA DoesClearFlags ==
  ASSUME NEW t, Step(t), At(t, "clear_flags")
  PROVE
  /\ flags' = {}
  /\ Then(t)
  /\ UNCHANGED <<rtnl, running, present, carrier, queued, ring, irq, napi, hw, phy,
        rpm, usage, idle, asleep, gone>>
  BY DEF Step, LockStep, PowerStep, GoneStep, NetStep, WorkStep, DevStep, PhyStop, At, net,
     wk, dev, power

(* What a thread changes that stops the phy. *)
LEMMA DoesPhyStop ==
  ASSUME NEW t, Step(t), At(t, "phy_stop")
  PROVE
  /\ Idle("phy") /\ phy' = "stopped" /\ carrier' = FALSE
  /\ ThenCall(t, IF carrier /\ Is8125 THEN ResetWork ELSE <<>>)
  /\ UNCHANGED <<rtnl, running, present, flags, queued, ring, irq, napi, hw, rpm,
        usage, idle, asleep, gone>>
  BY DEF Step, LockStep, PowerStep, GoneStep, NetStep, WorkStep, DevStep, PhyStop, At, net,
     wk, dev, power

(* What a thread changes that gives the rtnl lock back. *)
LEMMA DoesUnrtnl ==
  ASSUME NEW t, Step(t), At(t, "unrtnl")
  PROVE
  /\ rtnl' = "none"
  /\ Then(t)
  /\ UNCHANGED <<running, present, carrier, flags, queued, ring, irq, napi, hw, phy,
        rpm, usage, idle, asleep, gone>>
  BY DEF Step, LockStep, PowerStep, GoneStep, NetStep, WorkStep, DevStep, PhyStop, At, net,
     wk, dev, power

(* What a thread changes that gives its reference to runtime power back. *)
LEMMA DoesPut ==
  ASSUME NEW t, Step(t), At(t, "put")
  PROVE
  /\ usage' = usage - 1
  /\ Then(t)
  /\ UNCHANGED <<rtnl, running, present, carrier, flags, queued, ring, irq, napi, hw,
        phy, rpm, idle, asleep, gone>>
  BY DEF Step, LockStep, PowerStep, GoneStep, NetStep, WorkStep, DevStep, PhyStop, At, net,
     wk, dev, power

(* What a thread changes that connects the phy. *)
LEMMA DoesPhyConnect ==
  ASSUME NEW t, Step(t), At(t, "phy_connect")
  PROVE
  /\ phy' = "stopped"
  /\ Then(t)
  /\ UNCHANGED <<rtnl, running, present, carrier, flags, queued, ring, irq, napi, hw,
        rpm, usage, idle, asleep, gone>>
  BY DEF Step, LockStep, PowerStep, GoneStep, NetStep, WorkStep, DevStep, PhyStop, At, net,
     wk, dev, power

(* What a thread changes that installs the handler. *)
LEMMA DoesRequestIrq ==
  ASSUME NEW t, Step(t), At(t, "request_irq")
  PROVE
  /\ irq' = TRUE
  /\ Then(t)
  /\ UNCHANGED <<rtnl, running, present, carrier, flags, queued, ring, napi, hw, phy,
        rpm, usage, idle, asleep, gone>>
  BY DEF Step, LockStep, PowerStep, GoneStep, NetStep, WorkStep, DevStep, PhyStop, At, net,
     wk, dev, power

(* What a thread changes that allocates the rings. *)
LEMMA DoesAlloc ==
  ASSUME NEW t, Step(t), At(t, "alloc")
  PROVE
  /\ ring' = TRUE
  /\ Then(t)
  /\ UNCHANGED <<rtnl, running, present, carrier, flags, queued, irq, napi, hw, phy,
        rpm, usage, idle, asleep, gone>>
  BY DEF Step, LockStep, PowerStep, GoneStep, NetStep, WorkStep, DevStep, PhyStop, At, net,
     wk, dev, power

(* What a thread changes that takes a reference to runtime power. *)
LEMMA DoesGet ==
  ASSUME NEW t, Step(t), At(t, "get")
  PROVE
  /\ \/ rpm = "active" /\ usage' = usage + 1 /\ Then(t) /\ rpm' = rpm
     \/ rpm = "suspended" /\ rpm' = "resuming" /\ Jump(t, RuntimeResume \o todo[t]) /\ usage' = usage
  /\ UNCHANGED <<rtnl, running, present, carrier, flags, queued, ring, irq, napi, hw,
        phy, asleep, gone>>
  BY DEF Step, LockStep, PowerStep, GoneStep, NetStep, WorkStep, DevStep, PhyStop, At, net,
     wk, dev, power

(* What a thread changes that marks the device running. *)
LEMMA DoesStart ==
  ASSUME NEW t, Step(t), At(t, "start")
  PROVE
  /\ running' = TRUE
  /\ Then(t)
  /\ UNCHANGED <<rtnl, present, carrier, flags, queued, ring, irq, napi, hw, phy, rpm,
        usage, idle, asleep, gone>>
  BY DEF Step, LockStep, PowerStep, GoneStep, NetStep, WorkStep, DevStep, PhyStop, At, net,
     wk, dev, power

(* What a thread changes that resumes a device that is not present. *)
LEMMA DoesResumeParent ==
  ASSUME NEW t, Step(t), At(t, "resume_parent")
  PROVE
  /\ \/ ~present /\ rpm = "suspended" /\ rpm' = "resuming" /\ Jump(t, RuntimeResume \o todo[t])
     \/ ~present /\ rpm = "active" /\ rpm' = rpm /\ Jump(t, <<"unrtnl">>)
     \/ present /\ Then(t) /\ rpm' = rpm
  /\ UNCHANGED <<rtnl, running, present, carrier, flags, queued, ring, irq, napi, hw,
        phy, usage, idle, asleep, gone>>
  BY DEF Step, LockStep, PowerStep, GoneStep, NetStep, WorkStep, DevStep, PhyStop, At, net,
     wk, dev, power

(* What a thread changes that takes the rtnl lock. *)
LEMMA DoesRtnl ==
  ASSUME NEW t, Step(t), At(t, "rtnl")
  PROVE
  /\ rtnl = "none" /\ rtnl' = t
  /\ Then(t)
  /\ UNCHANGED <<running, present, carrier, flags, queued, ring, irq, napi, hw, phy,
        rpm, usage, idle, asleep, gone>>
  BY DEF Step, LockStep, PowerStep, GoneStep, NetStep, WorkStep, DevStep, PhyStop, At, net,
     wk, dev, power

(* What a thread changes that ends a runtime resume. *)
LEMMA DoesActive ==
  ASSUME NEW t, Step(t), At(t, "active")
  PROVE
  /\ rpm' = "active"
  /\ Then(t)
  /\ UNCHANGED <<rtnl, running, present, carrier, flags, queued, ring, irq, napi, hw,
        phy, usage, asleep, gone>>
  BY DEF Step, LockStep, PowerStep, GoneStep, NetStep, WorkStep, DevStep, PhyStop, At, net,
     wk, dev, power

(* What a thread changes that attaches the net device. *)
LEMMA DoesAttach ==
  ASSUME NEW t, Step(t), At(t, "attach")
  PROVE
  /\ present' = TRUE
  /\ Then(t)
  /\ UNCHANGED <<rtnl, running, carrier, flags, queued, ring, irq, napi, hw, phy, rpm,
        usage, idle, asleep, gone>>
  BY DEF Step, LockStep, PowerStep, GoneStep, NetStep, WorkStep, DevStep, PhyStop, At, net,
     wk, dev, power

(* What a thread changes that calls rtl8169_up if the rings are there. *)
LEMMA DoesUp ==
  ASSUME NEW t, Step(t), At(t, "up")
  PROVE
  /\ ThenCall(t, IF ring THEN Up ELSE <<>>)
  /\ UNCHANGED <<rtnl, running, present, carrier, flags, queued, ring, irq, napi, hw,
        phy, rpm, usage, idle, asleep, gone>>
  BY DEF Step, LockStep, PowerStep, GoneStep, NetStep, WorkStep, DevStep, PhyStop, At, net,
     wk, dev, power

(* What a thread changes that marks it no longer running. *)
LEMMA DoesStop ==
  ASSUME NEW t, Step(t), At(t, "stop")
  PROVE
  /\ running' = FALSE
  /\ Then(t)
  /\ UNCHANGED <<rtnl, present, carrier, flags, queued, ring, irq, napi, hw, phy, rpm,
        usage, idle, asleep, gone>>
  BY DEF Step, LockStep, PowerStep, GoneStep, NetStep, WorkStep, DevStep, PhyStop, At, net,
     wk, dev, power

(* What a thread changes that frees the rings. *)
LEMMA DoesFree ==
  ASSUME NEW t, Step(t), At(t, "free")
  PROVE
  /\ ring' = FALSE
  /\ Then(t)
  /\ UNCHANGED <<rtnl, running, present, carrier, flags, queued, irq, napi, hw, phy,
        rpm, usage, idle, asleep, gone>>
  BY DEF Step, LockStep, PowerStep, GoneStep, NetStep, WorkStep, DevStep, PhyStop, At, net,
     wk, dev, power

(* What a thread changes that removes the handler. *)
LEMMA DoesFreeIrq ==
  ASSUME NEW t, Step(t), At(t, "free_irq")
  PROVE
  /\ irq' = FALSE
  /\ Then(t)
  /\ UNCHANGED <<rtnl, running, present, carrier, flags, queued, ring, napi, hw, phy,
        rpm, usage, idle, asleep, gone>>
  BY DEF Step, LockStep, PowerStep, GoneStep, NetStep, WorkStep, DevStep, PhyStop, At, net,
     wk, dev, power

(* What a thread changes that disconnects the phy. *)
LEMMA DoesPhyDisconnect ==
  ASSUME NEW t, Step(t), At(t, "phy_disconnect")
  PROVE
  /\ phy' = "none"
  /\ Then(t)
  /\ UNCHANGED <<rtnl, running, present, carrier, flags, queued, ring, irq, napi, hw,
        rpm, usage, idle, asleep, gone>>
  BY DEF Step, LockStep, PowerStep, GoneStep, NetStep, WorkStep, DevStep, PhyStop, At, net,
     wk, dev, power

(* What a thread changes that cancels the work item. *)
LEMMA DoesCancelWork ==
  ASSUME NEW t, Step(t), At(t, "cancel_work")
  PROVE
  /\ Idle("worker") /\ queued' = FALSE
  /\ Then(t)
  /\ UNCHANGED <<rtnl, running, present, carrier, flags, ring, irq, napi, hw, phy, rpm,
        usage, idle, asleep, gone>>
  BY DEF Step, LockStep, PowerStep, GoneStep, NetStep, WorkStep, DevStep, PhyStop, At, net,
     wk, dev, power

(* What a thread changes that ends the removal. *)
LEMMA DoesRemoved ==
  ASSUME NEW t, Step(t), At(t, "removed")
  PROVE
  /\ gone' = "removed"
  /\ Then(t)
  /\ UNCHANGED <<rtnl, running, present, carrier, flags, queued, ring, irq, napi, hw,
        phy, rpm, usage, idle, asleep>>
  BY DEF Step, LockStep, PowerStep, GoneStep, NetStep, WorkStep, DevStep, PhyStop, At, net,
     wk, dev, power

(* What a thread changes that ends the shutdown. *)
LEMMA DoesShutdown ==
  ASSUME NEW t, Step(t), At(t, "shutdown")
  PROVE
  /\ gone' = "shutdown"
  /\ Then(t)
  /\ UNCHANGED <<rtnl, running, present, carrier, flags, queued, ring, irq, napi, hw,
        phy, rpm, usage, idle, asleep>>
  BY DEF Step, LockStep, PowerStep, GoneStep, NetStep, WorkStep, DevStep, PhyStop, At, net,
     wk, dev, power

(* What a thread changes that calls rtl8169_down if the device runs. *)
LEMMA DoesDown ==
  ASSUME NEW t, Step(t), At(t, "down")
  PROVE
  /\ ThenCall(t, IF running THEN Down ELSE <<>>)
  /\ UNCHANGED <<rtnl, running, present, carrier, flags, queued, ring, irq, napi, hw,
        phy, rpm, usage, idle, asleep, gone>>
  BY DEF Step, LockStep, PowerStep, GoneStep, NetStep, WorkStep, DevStep, PhyStop, At, net,
     wk, dev, power

(* What a thread changes that detaches the net device. *)
LEMMA DoesDetach ==
  ASSUME NEW t, Step(t), At(t, "detach")
  PROVE
  /\ present' = FALSE
  /\ Then(t)
  /\ UNCHANGED <<rtnl, running, carrier, flags, queued, ring, irq, napi, hw, phy, rpm,
        usage, idle, asleep, gone>>
  BY DEF Step, LockStep, PowerStep, GoneStep, NetStep, WorkStep, DevStep, PhyStop, At, net,
     wk, dev, power

(* What a thread changes that tests what rtl_task has to do. *)
LEMMA DoesTestFlags ==
  ASSUME NEW t, Step(t), At(t, "test_flags")
  PROVE
  /\ ("enabled" \in flags' <=> "enabled" \in flags) /\ (Then(t) \/ ThenCall(t, ResetWork))
  /\ UNCHANGED <<rtnl, running, carrier, queued, ring, irq, napi, hw, phy, rpm, usage,
        idle, asleep, gone>>
  BY DEF Step, LockStep, PowerStep, GoneStep, NetStep, WorkStep, DevStep, PhyStop, At, net,
     wk, dev, power

(* What a thread changes that tests whether rtl_task may run. *)
LEMMA DoesTestEnabled ==
  ASSUME NEW t, Step(t), At(t, "test_enabled")
  PROVE
  /\ IF running /\ "enabled" \in flags THEN Then(t) ELSE Jump(t, <<"unrtnl">>)
  /\ UNCHANGED <<rtnl, running, present, carrier, flags, queued, ring, irq, napi, hw,
        phy, rpm, usage, idle, asleep, gone>>
  BY DEF Step, LockStep, PowerStep, GoneStep, NetStep, WorkStep, DevStep, PhyStop, At, net,
     wk, dev, power

(* What a thread changes that ends a runtime suspend. *)
LEMMA DoesSuspended ==
  ASSUME NEW t, Step(t), At(t, "suspended")
  PROVE
  /\ rpm' = "suspended"
  /\ Then(t)
  /\ UNCHANGED <<rtnl, running, present, carrier, flags, queued, ring, irq, napi, hw,
        phy, usage, idle, asleep, gone>>
  BY DEF Step, LockStep, PowerStep, GoneStep, NetStep, WorkStep, DevStep, PhyStop, At, net,
     wk, dev, power

(* What a thread changes that ends a system sleep. *)
LEMMA DoesAwake ==
  ASSUME NEW t, Step(t), At(t, "awake")
  PROVE
  /\ asleep' = FALSE /\ usage' = usage - 1
  /\ Then(t)
  /\ UNCHANGED <<rtnl, running, present, carrier, flags, queued, ring, irq, napi, hw,
        phy, rpm, idle, gone>>
  BY DEF Step, LockStep, PowerStep, GoneStep, NetStep, WorkStep, DevStep, PhyStop, At, net,
     wk, dev, power

(* What a thread changes that asks for a runtime suspend. *)
LEMMA DoesPmIdle ==
  ASSUME NEW t, Step(t), At(t, "pm_idle")
  PROVE
  /\ Then(t)
  /\ UNCHANGED <<rtnl, running, present, carrier, flags, queued, ring, irq, napi, hw,
        phy, rpm, usage, asleep, gone>>
  BY DEF Step, LockStep, PowerStep, GoneStep, NetStep, WorkStep, DevStep, PhyStop, At, net,
     wk, dev, power

(* What a thread changes that takes the request for one back. *)
LEMMA DoesPmResume ==
  ASSUME NEW t, Step(t), At(t, "pm_resume")
  PROVE
  /\ Then(t)
  /\ UNCHANGED <<rtnl, running, present, carrier, flags, queued, ring, irq, napi, hw,
        phy, rpm, usage, asleep, gone>>
  BY DEF Step, LockStep, PowerStep, GoneStep, NetStep, WorkStep, DevStep, PhyStop, At, net,
     wk, dev, power

-----------------------------------------------------------------------------
(* What is to do after a call, or at the beginning of a thread.                *)

(* The calls of the routines lead to their first step. *)
LEMMA Called ==
  ASSUME NEW c \in Places
  PROVE
    /\ Up \o Rest("none", c) = Rest("up1", c)
    /\ Down \o Rest("none", c) = Rest("down1", c)
    /\ ResetWork \o Rest("none", c) = Rest("reset1", c)
    /\ ResetWork \o Rest("down3", c) = Rest("stop1", c)
    /\ \A i \in Routines : <<>> \o Rest(i, c) = Rest(i, c)
<1>0. Place[c] \in Seq(Steps)
  BY PlaceTyped
<1>1. Up \o Rest("none", c) = Rest("up1", c)
  BY <1>0 DEF Rest, Routine, Up, ResetWork
<1>2. Down \o Rest("none", c) = Rest("down1", c)
  BY <1>0 DEF Rest, Routine, Down
<1>3. ResetWork \o Rest("none", c) = Rest("reset1", c)
  BY <1>0 DEF Rest, Routine, ResetWork
<1>4. ResetWork \o Rest("down3", c) = Rest("stop1", c)
  BY <1>0 DEF Rest, Routine, ResetWork
<1>5. \A i \in Routines : <<>> \o Rest(i, c) = Rest(i, c)
  <2> TAKE i \in Routines
  <2>1. Routine[i] \in Seq(Steps)
    <3>1. CASE i = "none"
      <4>1. Routine["none"] \in Seq(Steps)
        BY DEF Routine, Steps
      <4> QED
        BY <3>1, <4>1
    <3>2. CASE i = "up1"
      <4>1. Routine["up1"] \in Seq(Steps)
        BY DEF Routine, Steps
      <4> QED
        BY <3>2, <4>1
    <3>3. CASE i = "up2"
      <4>1. Routine["up2"] \in Seq(Steps)
        BY DEF Routine, Steps
      <4> QED
        BY <3>3, <4>1
    <3>4. CASE i = "up3"
      <4>1. Routine["up3"] \in Seq(Steps)
        BY DEF Routine, Steps
      <4> QED
        BY <3>4, <4>1
    <3>5. CASE i = "up4"
      <4>1. Routine["up4"] \in Seq(Steps)
        BY DEF Routine, Steps
      <4> QED
        BY <3>5, <4>1
    <3>6. CASE i = "up5"
      <4>1. Routine["up5"] \in Seq(Steps)
        BY DEF Routine, Steps
      <4> QED
        BY <3>6, <4>1
    <3>7. CASE i = "up6"
      <4>1. Routine["up6"] \in Seq(Steps)
        BY DEF Routine, Steps
      <4> QED
        BY <3>7, <4>1
    <3>8. CASE i = "up7"
      <4>1. Routine["up7"] \in Seq(Steps)
        BY DEF Routine, Steps
      <4> QED
        BY <3>8, <4>1
    <3>9. CASE i = "down1"
      <4>1. Routine["down1"] \in Seq(Steps)
        BY DEF Routine, Steps
      <4> QED
        BY <3>9, <4>1
    <3>10. CASE i = "down2"
      <4>1. Routine["down2"] \in Seq(Steps)
        BY DEF Routine, Steps
      <4> QED
        BY <3>10, <4>1
    <3>11. CASE i = "down3"
      <4>1. Routine["down3"] \in Seq(Steps)
        BY DEF Routine, Steps
      <4> QED
        BY <3>11, <4>1
    <3>12. CASE i = "down4"
      <4>1. Routine["down4"] \in Seq(Steps)
        BY DEF Routine, Steps
      <4> QED
        BY <3>12, <4>1
    <3>13. CASE i = "stop1"
      <4>1. Routine["stop1"] \in Seq(Steps)
        BY DEF Routine, Steps
      <4> QED
        BY <3>13, <4>1
    <3>14. CASE i = "stop2"
      <4>1. Routine["stop2"] \in Seq(Steps)
        BY DEF Routine, Steps
      <4> QED
        BY <3>14, <4>1
    <3>15. CASE i = "stop3"
      <4>1. Routine["stop3"] \in Seq(Steps)
        BY DEF Routine, Steps
      <4> QED
        BY <3>15, <4>1
    <3>16. CASE i = "stop4"
      <4>1. Routine["stop4"] \in Seq(Steps)
        BY DEF Routine, Steps
      <4> QED
        BY <3>16, <4>1
    <3>17. CASE i = "reset1"
      <4>1. Routine["reset1"] \in Seq(Steps)
        BY DEF Routine, Steps
      <4> QED
        BY <3>17, <4>1
    <3>18. CASE i = "reset2"
      <4>1. Routine["reset2"] \in Seq(Steps)
        BY DEF Routine, Steps
      <4> QED
        BY <3>18, <4>1
    <3>19. CASE i = "reset3"
      <4>1. Routine["reset3"] \in Seq(Steps)
        BY DEF Routine, Steps
      <4> QED
        BY <3>19, <4>1
    <3>20. CASE i = "reset4"
      <4>1. Routine["reset4"] \in Seq(Steps)
        BY DEF Routine, Steps
      <4> QED
        BY <3>20, <4>1
    <3> QED
      BY <3>1, <3>2, <3>3, <3>4, <3>5, <3>6, <3>7, <3>8, <3>9, <3>10, <3>11, <3>12, <3>13,
           <3>14, <3>15, <3>16, <3>17, <3>18, <3>19, <3>20
        DEF Routines
  <2> QED
    BY <1>0, <2>1 DEF Rest
<1> QED
  BY <1>1, <1>2, <1>3, <1>4, <1>5

(* So does every beginning of a thread, a resume in between and an *)
(* unwinding.                                                      *)
LEMMA Begun ==
    /\ RuntimeResume \o Rest("none", "open2") = Rest("none", "parent1")
    /\ RuntimeResume \o Rest("none", "open4") = Rest("none", "oget1")
    /\ RuntimeResume \o Rest("none", "close3") = Rest("none", "cget1")
    /\ RuntimeResume \o Rest("none", "leave0") = Rest("none", "lget1")
    /\ RuntimeResume \o Rest("none", "bare") = Rest("none", "bget1")
    /\ RuntimeResume \o Rest("none", "shut1") = Rest("none", "sget1")
    /\ <<"unrtnl">> = Rest("none", "open9")
    /\ <<"unrtnl">> = Rest("none", "task4")
    /\ Unwind("alloc") = Rest("none", "unwind3")
    /\ Unwind("request_irq") = Rest("none", "unwind2")
    /\ Unwind("phy_connect") = Rest("none", "unwind1")
    /\ Open = Rest("none", "open1")
    /\ Close = Rest("none", "close1")
    /\ Task = Rest("none", "task1")
    /\ RuntimeResume = Rest("none", "rres1")
    /\ Suspend = Rest("none", "sys1")
    /\ Resume = Rest("none", "wake1")
    /\ Shutdown = Rest("none", "shut1")
    /\ ResetWork \o <<"pm_idle">> = Rest("reset1", "linkdown")
    /\ <<>> \o <<"pm_idle">> = Rest("none", "linkdown")
    /\ <<"pm_resume">> = Rest("none", "linkup")
    /\ <<"rtnl", "detach", "down", "unrtnl", "suspended">> = Rest("none", "rsus1")
    /\ <<"detach", "suspended">> = Rest("none", "bsus")
    /\ <<"get">> \o Close \o <<"removed">> = Rest("none", "leave0")
    /\ <<"get">> \o <<>> \o <<"removed">> = Rest("none", "bare")
<1>1. RuntimeResume \o Rest("none", "open2") = Rest("none", "parent1")
  BY DEF Rest, Routine, Place, RuntimeResume
<1>2. RuntimeResume \o Rest("none", "open4") = Rest("none", "oget1")
  BY DEF Rest, Routine, Place, RuntimeResume
<1>3. RuntimeResume \o Rest("none", "close3") = Rest("none", "cget1")
  BY DEF Rest, Routine, Place, RuntimeResume
<1>4. RuntimeResume \o Rest("none", "leave0") = Rest("none", "lget1")
  BY DEF Rest, Routine, Place, RuntimeResume
<1>5. RuntimeResume \o Rest("none", "bare") = Rest("none", "bget1")
  BY DEF Rest, Routine, Place, RuntimeResume
<1>6. RuntimeResume \o Rest("none", "shut1") = Rest("none", "sget1")
  BY DEF Rest, Routine, Place, RuntimeResume
<1>7. <<"unrtnl">> = Rest("none", "open9")
  BY DEF Rest, Routine, Place
<1>8. <<"unrtnl">> = Rest("none", "task4")
  BY DEF Rest, Routine, Place
<1>9. Unwind("alloc") = Rest("none", "unwind3")
  BY DEF Rest, Routine, Place, Unwind
<1>10. Unwind("request_irq") = Rest("none", "unwind2")
  BY DEF Rest, Routine, Place, Unwind
<1>11. Unwind("phy_connect") = Rest("none", "unwind1")
  BY DEF Rest, Routine, Place, Unwind
<1>12. Open = Rest("none", "open1")
  BY DEF Rest, Routine, Place, Open, Up, ResetWork
<1>13. Close = Rest("none", "close1")
  BY DEF Rest, Routine, Place, Close, Down
<1>14. Task = Rest("none", "task1")
  BY DEF Rest, Routine, Place, Task
<1>15. RuntimeResume = Rest("none", "rres1")
  BY DEF Rest, Routine, Place, RuntimeResume
<1>16. Suspend = Rest("none", "sys1")
  BY DEF Rest, Routine, Place, Suspend
<1>17. Resume = Rest("none", "wake1")
  BY DEF Rest, Routine, Place, Resume
<1>18. Shutdown = Rest("none", "shut1")
  BY DEF Rest, Routine, Place, Shutdown
<1>19. ResetWork \o <<"pm_idle">> = Rest("reset1", "linkdown")
  BY DEF Rest, Routine, Place, ResetWork
<1>20. <<>> \o <<"pm_idle">> = Rest("none", "linkdown")
  BY DEF Rest, Routine, Place
<1>21. <<"pm_resume">> = Rest("none", "linkup")
  BY DEF Rest, Routine, Place
<1>22. <<"rtnl", "detach", "down", "unrtnl", "suspended">> = Rest("none", "rsus1")
  BY DEF Rest, Routine, Place
<1>23. <<"detach", "suspended">> = Rest("none", "bsus")
  BY DEF Rest, Routine, Place
<1>24. <<"get">> \o Close \o <<"removed">> = Rest("none", "leave0")
  BY DEF Rest, Routine, Place, Close, Down
<1>25. <<"get">> \o <<>> \o <<"removed">> = Rest("none", "bare")
  BY DEF Rest, Routine, Place
<1> QED
  BY <1>1, <1>2, <1>3, <1>4, <1>5, <1>6, <1>7, <1>8, <1>9, <1>10, <1>11,
     <1>12, <1>13, <1>14, <1>15, <1>16, <1>17, <1>18, <1>19, <1>20, <1>21,
     <1>22, <1>23, <1>24, <1>25

-----------------------------------------------------------------------------
(* The invariant.                                                              *)

(* The routines of the three kinds, from each of their steps. *)
Ups    == {"up1", "up2", "up3", "up4", "up5", "up6", "up7"}
Downs  == {"down1", "down2", "down3", "down4", "stop1", "stop2", "stop3", "stop4"}
Resets == {"reset1", "reset2", "reset3", "reset4"}

(* Where they are called from. *)
UpPlaces   == {"open8", "cget2", "lget2", "sget2", "rres2", "wake2"}
DownPlaces == {"close4", "leave4", "shut5", "rsus4", "sys4"}

(* Where a thread holds the rtnl lock. *)
Locked == {"open2", "open3", "open4", "open5", "open6", "open7", "open8", "open9",
           "parent1", "parent2", "parent3", "oget1", "oget2", "oget3",
           "unwind1", "unwind2", "unwind3",
           "close2", "close3", "close4", "close5", "close6", "close7",
           "cget1", "cget2", "cget3",
           "leave2", "leave3", "leave4", "leave5", "leave6", "leave7", "leave8", "leave9",
           "shut3", "shut4", "shut5", "task2", "task3", "task4",
           "rsus2", "rsus3", "rsus4", "sys2", "sys3", "sys4"}

(* Where the user's thread resumes the device itself. *)
UserResumes == {"parent1", "parent2", "parent3", "oget1", "oget2", "oget3",
                "cget1", "cget2", "cget3", "lget1", "lget2", "lget3",
                "bget1", "bget2", "bget3", "sget1", "sget2", "sget3"}

(* Where it holds one reference to runtime power, or two. *)
Ref1 == {"open5", "open6", "open7", "open8", "unwind1", "unwind2", "unwind3",
         "close4", "close5", "close6", "close7", "leave1", "leave2", "leave3", "leave9",
         "removed", "shut2", "shut3", "shut4", "shut5", "shut6"}
Ref2 == {"leave4", "leave5", "leave6", "leave7", "leave8"}

(* Where the device may be open or not, but is entirely the one or the other. *)
Flex == {"end", "open8", "open9", "shut1", "shut2", "shut3", "shut4", "shut5", "shut6",
         "sget1", "sget2", "sget3"}

(* Elsewhere: where it is marked running, has a phy, a handler and its rings. *)
RunningAt == {"open4", "oget1", "oget2", "oget3", "open5", "open6", "open7",
              "unwind1", "unwind2", "unwind3", "close1", "close2",
              "leave0", "lget1", "lget2", "lget3", "leave1", "leave2"}
PhyAt == {"close1", "close2", "close3", "cget1", "cget2", "cget3",
          "close4", "close5", "close6", "leave0", "lget1", "lget2", "lget3",
          "leave1", "leave2", "leave3", "leave4", "leave5", "leave6"}
IrqAt  == (PhyAt \ {"close6", "leave6"}) \cup {"open7", "unwind1"}
RingAt == PhyAt \cup {"close7", "leave7", "open6", "open7", "unwind1", "unwind2"}

(* Where the work item cannot run, and where open and close are in between. *)
Quiet    == {"open6", "open7", "unwind1", "unwind2",
             "close5", "close6", "close7", "leave5", "leave6", "leave7"}
HalfOpen == Quiet \cup {"close4", "leave4"}

(* A routine has disabled NAPI and not enabled it yet; it has yet to start *)
(* the chip.                                                               *)
Holds(i)  == i \in {"reset2", "reset3", "stop2", "stop3", "up1", "up4", "up5", "down4"}
Starts(i) == i \in {"reset3", "reset4", "stop3", "stop4",
                    "up1", "up2", "up3", "up4", "up5", "up6"}

(* Which routine goes with which place. *)
Shape(ui, uc, wi, wc, pi, pc, yi, yc) ==
  /\ ui \in {"none"} \cup Ups \cup Downs /\ pi \in {"none"} \cup Ups \cup Downs
  /\ wi \in {"none"} \cup Resets /\ yi \in {"none"} \cup Resets
  /\ uc \in UserPlaces /\ pc \in PmPlaces /\ wc \in WorkerPlaces /\ yc \in PhyPlaces
  /\ ui \in Ups => uc \in UpPlaces
  /\ ui \in Downs => uc \in DownPlaces
  /\ pi \in Ups => pc \in UpPlaces
  /\ pi \in Downs => pc \in DownPlaces
  /\ wi # "none" => wc = "task4"
  /\ yi # "none" => yc = "linkdown" /\ Is8125

(* rtnl is held by the thread that is at a locked place. *)
Lock(uc, wc, pc) ==
  /\ rtnl \in {"none", "user", "worker", "pm"}
  /\ rtnl = "user" <=> uc \in Locked
  /\ rtnl = "worker" <=> wc \in Locked
  /\ rtnl = "pm" <=> pc \in Locked

(* How many references to runtime power are held. *)
Refs(uc) == IF uc \in Ref2 THEN 2 ELSE IF uc \in Ref1 \/ gone # "no" THEN 1 ELSE 0

(* The status of runtime power and of system sleep, told from the places. *)
Power(uc, pc) ==
  /\ gone \in {"no", "shutdown", "removed"} /\ asleep \in BOOLEAN
  /\ rpm \in {"active", "suspending", "suspended", "resuming"}
  /\ usage = Refs(uc) + (IF asleep THEN 1 ELSE 0)
  /\ gone # "no" => uc = "end"
  /\ rpm = "suspending" <=> pc \in {"rsus1", "rsus2", "rsus3", "rsus4", "rsus5", "bsus"}
  /\ rpm = "resuming" <=> uc \in UserResumes \/ pc \in {"rres1", "rres2", "rres3"}
  /\ ~(uc \in UserResumes /\ pc \in {"rres1", "rres2", "rres3"})
  /\ asleep \/ uc \in Ref1 \cup Ref2 \/ gone # "no" => rpm = "active"
  /\ pc \in {"sys1", "sys2", "sys3", "sys4", "wake1", "wake2", "wake3"} => asleep
  /\ asleep => uc = "end" /\ gone = "no"

(* What is allocated, installed and connected, told from the place of the *)
(* user's thread.                                                         *)
Netdev(ui, uc, pi, pc) ==
  /\ uc \in Flex => (ring <=> running) /\ (irq <=> running) /\ (phy # "none" <=> running)
  /\ uc \notin Flex => /\ (running <=> uc \in RunningAt) /\ (ring <=> uc \in RingAt)
                      /\ (irq <=> uc \in IrqAt) /\ (phy # "none" <=> uc \in PhyAt)
  /\ ui # "none" \/ pi # "none" => ring
  /\ pc = "bsus" => ~ring
  /\ gone = "removed" => ~ring

(* Where the device is down when nobody is inside a routine. *)
Off(uc, pc) ==
  \/ ~ring
  \/ uc \in HalfOpen \cup {"shut5", "shut6", "cget1", "lget1", "sget1"}
  \/ gone = "shutdown" \/ rpm = "suspended"
  \/ pc \in {"rsus4", "rsus5", "rres1", "sys4", "wake1"}
  \/ asleep /\ pc = "end"

(* The work item is allowed. *)
Enabled == "enabled" \in flags

(* Outside the routines the device is down or up. *)
DownState(ui, uc, pi, pc) ==
   ui = "none" /\ pi = "none" /\ Off(uc, pc) => ~napi /\ ~hw /\ ~Enabled /\ phy # "started"
UpState(ui, uc, pi, pc) ==
   ui = "none" /\ pi = "none" /\ ~Off(uc, pc) => Enabled /\ phy = "started"

(* Inside them it is in between. *)
Between(i) ==
   /\ i \in {"up1", "up2"} => ~hw /\ ~Enabled /\ phy = "stopped"
   /\ i \in {"up3", "up4", "up5", "up6", "up7"} => Enabled /\ phy = "stopped"
   /\ i = "down1" => Enabled /\ phy = "started"
   /\ i = "down2" => ~Enabled /\ phy = "started"
   /\ i \in Downs \ {"down1", "down2"} => ~Enabled /\ phy = "stopped"

(* All of it. *)
Device(ui, uc, pi, pc) ==
  /\ DownState(ui, uc, pi, pc) /\ UpState(ui, uc, pi, pc)
  /\ Between(ui) /\ Between(pi)

(* NAPI is enabled unless one thread, and one only, has disabled it. *)
Napi(ui, uc, wi, pi, pc, yi) ==
  /\ Holds(ui) \/ Holds(wi) \/ Holds(pi) \/ Holds(yi) => ~napi
  /\ ~(Holds(ui) /\ Holds(wi)) /\ ~(Holds(ui) /\ Holds(pi)) /\ ~(Holds(ui) /\ Holds(yi))
  /\ ~(Holds(wi) /\ Holds(pi)) /\ ~(Holds(wi) /\ Holds(yi)) /\ ~(Holds(pi) /\ Holds(yi))
  /\ \/ napi \/ Holds(ui) \/ Holds(wi) \/ Holds(pi) \/ Holds(yi)
     \/ ui = "none" /\ pi = "none" /\ Off(uc, pc)
  /\ \/ hw \/ Starts(ui) \/ Starts(wi) \/ Starts(pi) \/ Starts(yi)
     \/ ui = "none" /\ pi = "none" /\ Off(uc, pc)

(* The work item and the link handler run only while the device is up. *)
Others(uc, wi, wc, yc) ==
  /\ wi # "none" \/ wc = "task3" => Enabled
  /\ yc # "end" \/ carrier => phy = "started"
  /\ uc \in Quiet \/ ~ring => ~queued /\ wc = "end"

(* The values. *)
Types ==
  /\ running \in BOOLEAN /\ carrier \in BOOLEAN
  /\ ring \in BOOLEAN /\ irq \in BOOLEAN /\ napi \in BOOLEAN /\ hw \in BOOLEAN
  /\ phy \in {"none", "stopped", "started"}

(* The parts together. *)
Parts(ui, uc, wi, wc, pi, pc, yi, yc) ==
  /\ Types
  /\ Shape(ui, uc, wi, wc, pi, pc, yi, yc)
  /\ Lock(uc, wc, pc)
  /\ Power(uc, pc)
  /\ Netdev(ui, uc, pi, pc)
  /\ Device(ui, uc, pi, pc)
  /\ Napi(ui, uc, wi, pi, pc, yi)
  /\ Others(uc, wi, wc, yc)

(* The threads are at these positions. *)
Good(ui, uc, wi, wc, pi, pc, yi, yc) ==
  /\ todo = [t \in Threads |-> todo[t]]
  /\ todo["user"] = Rest(ui, uc) /\ todo["worker"] = Rest(wi, wc)
  /\ todo["pm"] = Rest(pi, pc) /\ todo["phy"] = Rest(yi, yc)
  /\ Parts(ui, uc, wi, wc, pi, pc, yi, yc)

(* The inductive invariant. *)
IInv == \E ui, uc, wi, wc, pi, pc, yi, yc : Good(ui, uc, wi, wc, pi, pc, yi, yc)

-----------------------------------------------------------------------------
(* How the invariant is used and established again.                            *)

(* The user's thread gets to the position (j, d). *)
LEMMA UserArrives ==
  ASSUME NEW ui, NEW uc, NEW wi, NEW wc, NEW pi, NEW pc, NEW yi, NEW yc, NEW j, NEW d,
         Good(ui, uc, wi, wc, pi, pc, yi, yc), todo' = [todo EXCEPT !["user"] = Rest(j, d)],
         Parts(j, d, wi, wc, pi, pc, yi, yc)'
  PROVE  IInv'
<1>1. Good(j, d, wi, wc, pi, pc, yi, yc)'
  BY DEF Good, Threads
<1> QED
  BY <1>1 DEF IInv

(* The work item gets to the position (j, d). *)
LEMMA WorkerArrives ==
  ASSUME NEW ui, NEW uc, NEW wi, NEW wc, NEW pi, NEW pc, NEW yi, NEW yc, NEW j, NEW d,
         Good(ui, uc, wi, wc, pi, pc, yi, yc),
         todo' = [todo EXCEPT !["worker"] = Rest(j, d)],
         Parts(ui, uc, j, d, pi, pc, yi, yc)'
  PROVE  IInv'
<1>1. Good(ui, uc, j, d, pi, pc, yi, yc)'
  BY DEF Good, Threads
<1> QED
  BY <1>1 DEF IInv

(* Power management gets to the position (j, d). *)
LEMMA PmArrives ==
  ASSUME NEW ui, NEW uc, NEW wi, NEW wc, NEW pi, NEW pc, NEW yi, NEW yc, NEW j, NEW d,
         Good(ui, uc, wi, wc, pi, pc, yi, yc), todo' = [todo EXCEPT !["pm"] = Rest(j, d)],
         Parts(ui, uc, wi, wc, j, d, yi, yc)'
  PROVE  IInv'
<1>1. Good(ui, uc, wi, wc, j, d, yi, yc)'
  BY DEF Good, Threads
<1> QED
  BY <1>1 DEF IInv

(* The link handler gets to the position (j, d). *)
LEMMA PhyArrives ==
  ASSUME NEW ui, NEW uc, NEW wi, NEW wc, NEW pi, NEW pc, NEW yi, NEW yc, NEW j, NEW d,
         Good(ui, uc, wi, wc, pi, pc, yi, yc), todo' = [todo EXCEPT !["phy"] = Rest(j, d)],
         Parts(ui, uc, wi, wc, pi, pc, j, d)'
  PROVE  IInv'
<1>1. Good(ui, uc, wi, wc, pi, pc, j, d)'
  BY DEF Good, Threads
<1> QED
  BY <1>1 DEF IInv

(* The user's thread takes its step from the position it is at. *)
LEMMA UserFrom ==
  ASSUME NEW ui, NEW uc, NEW wi, NEW wc, NEW pi, NEW pc, NEW yi, NEW yc,
         Good(ui, uc, wi, wc, pi, pc, yi, yc)
  PROVE  /\ ui \in Routines /\ uc \in Places /\ Parts(ui, uc, wi, wc, pi, pc, yi, yc)
         /\ todo["user"] = Rest(ui, uc)
         /\ \A step : At("user", step) => Rest(ui, uc) # <<>> /\ First(ui, uc) = step
         /\ Then("user") => todo' = [todo EXCEPT !["user"] = After(ui, uc)]
         /\ \A p : ThenCall("user", p) => todo' = [todo EXCEPT !["user"] = p \o After(ui, uc)]
  BY DEF Good, Parts, Shape, Routines, Places, Ups, Downs, Resets, At, Idle, First, Then,
     ThenCall, After

(* The work item takes its step from the position it is at. *)
LEMMA WorkerFrom ==
  ASSUME NEW ui, NEW uc, NEW wi, NEW wc, NEW pi, NEW pc, NEW yi, NEW yc,
         Good(ui, uc, wi, wc, pi, pc, yi, yc)
  PROVE  /\ wi \in Routines /\ wc \in Places /\ Parts(ui, uc, wi, wc, pi, pc, yi, yc)
         /\ todo["worker"] = Rest(wi, wc)
         /\ \A step : At("worker", step) => Rest(wi, wc) # <<>> /\ First(wi, wc) = step
         /\ Then("worker") => todo' = [todo EXCEPT !["worker"] = After(wi, wc)]
         /\ \A p : ThenCall("worker", p) => todo' = [todo EXCEPT !["worker"] = p \o After(wi, wc)]
  BY DEF Good, Parts, Shape, Routines, Places, Ups, Downs, Resets, At, Idle, First, Then,
     ThenCall, After

(* Power management takes its step from the position it is at. *)
LEMMA PmFrom ==
  ASSUME NEW ui, NEW uc, NEW wi, NEW wc, NEW pi, NEW pc, NEW yi, NEW yc,
         Good(ui, uc, wi, wc, pi, pc, yi, yc)
  PROVE  /\ pi \in Routines /\ pc \in Places /\ Parts(ui, uc, wi, wc, pi, pc, yi, yc)
         /\ todo["pm"] = Rest(pi, pc)
         /\ \A step : At("pm", step) => Rest(pi, pc) # <<>> /\ First(pi, pc) = step
         /\ Then("pm") => todo' = [todo EXCEPT !["pm"] = After(pi, pc)]
         /\ \A p : ThenCall("pm", p) => todo' = [todo EXCEPT !["pm"] = p \o After(pi, pc)]
  BY DEF Good, Parts, Shape, Routines, Places, Ups, Downs, Resets, At, Idle, First, Then,
     ThenCall, After

(* The link handler takes its step from the position it is at. *)
LEMMA PhyFrom ==
  ASSUME NEW ui, NEW uc, NEW wi, NEW wc, NEW pi, NEW pc, NEW yi, NEW yc,
         Good(ui, uc, wi, wc, pi, pc, yi, yc)
  PROVE  /\ yi \in Routines /\ yc \in Places /\ Parts(ui, uc, wi, wc, pi, pc, yi, yc)
         /\ todo["phy"] = Rest(yi, yc)
         /\ \A step : At("phy", step) => Rest(yi, yc) # <<>> /\ First(yi, yc) = step
         /\ Then("phy") => todo' = [todo EXCEPT !["phy"] = After(yi, yc)]
         /\ \A p : ThenCall("phy", p) => todo' = [todo EXCEPT !["phy"] = p \o After(yi, yc)]
  BY DEF Good, Parts, Shape, Routines, Places, Ups, Downs, Resets, At, Idle, First, Then,
     ThenCall, After

(* Only one of the user's thread and power management brings the device up *)
(* or down.                                                                *)
Alone(ui, uc, pi, pc) ==
  /\ ui # "none" \/ uc \in Ref1 \cup Ref2 \cup UserResumes => pi = "none" /\ pc = "end"
  /\ pi # "none" => ui = "none"

(* It follows from the state of runtime power. *)
LEMMA MasterAlone ==
  ASSUME NEW ui, NEW uc, NEW wi, NEW wc, NEW pi, NEW pc, NEW yi, NEW yc,
         Parts(ui, uc, wi, wc, pi, pc, yi, yc)
  PROVE  Alone(ui, uc, pi, pc)
<1>1. ui # "none" => uc \in Ref1 \cup Ref2 \cup UserResumes
  BY DEF Parts, Shape, Ups, Downs, UpPlaces, DownPlaces, UserPlaces, Ref1, Ref2, UserResumes
<1>2. uc \in Ref1 \cup Ref2 \cup UserResumes => uc # "end"
  BY DEF Ref1, Ref2, UserResumes
<1>3. uc \in Ref1 \cup Ref2 \cup UserResumes => pc = "end"
  BY <1>2 DEF Parts, Shape, Power, PmPlaces
<1>4. pc = "end" => pi = "none"
  BY DEF Parts, Shape, UpPlaces, DownPlaces
<1> QED
  BY <1>1, <1>3, <1>4 DEF Alone

(* A thread that has nothing to do is at no place. *)
LEMMA EmptyAt ==
  ASSUME NEW i \in Routines, NEW c \in Places, Rest(i, c) = <<>>
  PROVE  i = "none" /\ c = "end"
  BY RoutineTable, PlaceTable
    DEF Routines, Places, UserPlaces, WorkerPlaces, PmPlaces, PhyPlaces, Goes

-----------------------------------------------------------------------------
(* The steps that only go on to the next one.                                  *)

(* The user's thread enables NAPI. *)
LEMMA UserNapiEnable ==
  ASSUME NEW ui, NEW uc, NEW wi, NEW wc, NEW pi, NEW pc, NEW yi, NEW yc,
         Good(ui, uc, wi, wc, pi, pc, yi, yc), Step("user"), At("user", "napi_enable")
  PROVE  IInv'
<1>0. Parts(ui, uc, wi, wc, pi, pc, yi, yc) /\ Alone(ui, uc, pi, pc)
  BY MasterAlone DEF Good
<1>1. /\ napi' = TRUE
      /\ Then("user")
      /\ UNCHANGED <<rtnl, running, present, carrier, flags, queued, ring, irq, hw, phy,
        rpm, usage, idle, asleep, gone>>
  BY DoesNapiEnable
<1>2. /\ ui \in Routines /\ uc \in Places /\ Rest(ui, uc) # <<>>
      /\ First(ui, uc) = "napi_enable"
  BY UserFrom
<1>3. \/ ui = "up1" /\ After(ui, uc) = Rest("up2", uc)
      \/ ui = "up5" /\ After(ui, uc) = Rest("up6", uc)
      \/ ui = "stop3" /\ After(ui, uc) = Rest("stop4", uc)
  BY <1>0, <1>2, AtNapiEnable DEF Parts, Shape, Ups, Downs, Resets, UserPlaces
<1>4. todo' = [todo EXCEPT !["user"] = After(ui, uc)]
  BY <1>1, UserFrom
<1>5. PICK j, d : /\ todo' = [todo EXCEPT !["user"] = Rest(j, d)]
             /\ \/ ui = "up1" /\ j = "up2" /\ d = uc
                \/ ui = "up5" /\ j = "up6" /\ d = uc
                \/ ui = "stop3" /\ j = "stop4" /\ d = uc
  BY <1>3, <1>4
<1>6. Types'
  BY <1>0, <1>1, <1>5 DEF Parts, Types
<1>7. Shape(j, d, wi, wc, pi, pc, yi, yc)'
  BY <1>0, <1>1, <1>5 DEF Parts, Shape, Ups, Downs, Resets, UpPlaces, DownPlaces, UserPlaces
<1>8. Lock(d, wc, pc)'
  BY <1>0, <1>1, <1>5 DEF Parts, Lock, Locked
<1>9. Power(d, pc)'
  BY <1>0, <1>1, <1>5 DEF Parts, Power, Refs, Ref1, Ref2, UserResumes
<1>10. Netdev(j, d, pi, pc)'
  BY <1>0, <1>1, <1>5 DEF Parts, Netdev, Flex, RunningAt, RingAt, IrqAt, PhyAt
<1>11. Device(j, d, pi, pc)'
  BY <1>0, <1>1, <1>5
    DEF Parts, Alone, Device, DownState, UpState, Between, Enabled, Off, HalfOpen, Quiet,
          Shape, Ups, Downs, Resets, UpPlaces, DownPlaces
<1>12. Napi(j, d, wi, pi, pc, yi)'
  BY <1>0, <1>1, <1>5 DEF Parts, Napi, Holds, Starts, Off, HalfOpen, Quiet
<1>13. Others(d, wi, wc, yc)'
  BY <1>0, <1>1, <1>5
    DEF Parts, Alone, Others, Device, DownState, UpState, Between, Enabled, Off, HalfOpen,
          Quiet, Netdev, Flex, RunningAt, RingAt, IrqAt, PhyAt
<1>14. Parts(j, d, wi, wc, pi, pc, yi, yc)'
  BY <1>6, <1>7, <1>8, <1>9, <1>10, <1>11, <1>12, <1>13 DEF Parts
<1> QED
  BY <1>5, <1>14, UserArrives

(* The user's thread allows the work item. *)
LEMMA UserEnable ==
  ASSUME NEW ui, NEW uc, NEW wi, NEW wc, NEW pi, NEW pc, NEW yi, NEW yc,
         Good(ui, uc, wi, wc, pi, pc, yi, yc), Step("user"), At("user", "enable")
  PROVE  IInv'
<1>0. Parts(ui, uc, wi, wc, pi, pc, yi, yc) /\ Alone(ui, uc, pi, pc)
  BY MasterAlone DEF Good
<1>1. /\ flags' = flags \cup {"enabled"}
      /\ Then("user")
      /\ UNCHANGED <<rtnl, running, present, carrier, queued, ring, irq, napi, hw, phy,
        rpm, usage, idle, asleep, gone>>
  BY DoesEnable
<1>2. /\ ui \in Routines /\ uc \in Places /\ Rest(ui, uc) # <<>>
      /\ First(ui, uc) = "enable"
  BY UserFrom
<1>3. \/ ui = "up2" /\ After(ui, uc) = Rest("up3", uc)
  BY <1>0, <1>2, AtEnable DEF Parts, Shape, Ups, Downs, Resets, UserPlaces
<1>4. todo' = [todo EXCEPT !["user"] = After(ui, uc)]
  BY <1>1, UserFrom
<1>5. PICK j, d : /\ todo' = [todo EXCEPT !["user"] = Rest(j, d)]
             /\ \/ ui = "up2" /\ j = "up3" /\ d = uc
  BY <1>3, <1>4
<1>6. Types'
  BY <1>0, <1>1, <1>5 DEF Parts, Types
<1>7. Shape(j, d, wi, wc, pi, pc, yi, yc)'
  BY <1>0, <1>1, <1>5 DEF Parts, Shape, Ups, Downs, Resets, UpPlaces, DownPlaces, UserPlaces
<1>8. Lock(d, wc, pc)'
  BY <1>0, <1>1, <1>5 DEF Parts, Lock, Locked
<1>9. Power(d, pc)'
  BY <1>0, <1>1, <1>5 DEF Parts, Power, Refs, Ref1, Ref2, UserResumes
<1>10. Netdev(j, d, pi, pc)'
  BY <1>0, <1>1, <1>5 DEF Parts, Netdev, Flex, RunningAt, RingAt, IrqAt, PhyAt
<1>11. Device(j, d, pi, pc)'
  BY <1>0, <1>1, <1>5
    DEF Parts, Alone, Device, DownState, UpState, Between, Enabled, Off, HalfOpen, Quiet,
          Shape, Ups, Downs, Resets, UpPlaces, DownPlaces
<1>12. Napi(j, d, wi, pi, pc, yi)'
  BY <1>0, <1>1, <1>5 DEF Parts, Napi, Holds, Starts, Off, HalfOpen, Quiet
<1>13. Others(d, wi, wc, yc)'
  BY <1>0, <1>1, <1>5
    DEF Parts, Alone, Others, Device, DownState, UpState, Between, Enabled, Off, HalfOpen,
          Quiet, Netdev, Flex, RunningAt, RingAt, IrqAt, PhyAt
<1>14. Parts(j, d, wi, wc, pi, pc, yi, yc)'
  BY <1>6, <1>7, <1>8, <1>9, <1>10, <1>11, <1>12, <1>13 DEF Parts
<1> QED
  BY <1>5, <1>14, UserArrives

(* The user's thread disables NAPI. *)
LEMMA UserNapiDisable ==
  ASSUME NEW ui, NEW uc, NEW wi, NEW wc, NEW pi, NEW pc, NEW yi, NEW yc,
         Good(ui, uc, wi, wc, pi, pc, yi, yc), Step("user"), At("user", "napi_disable")
  PROVE  IInv'
<1>0. Parts(ui, uc, wi, wc, pi, pc, yi, yc) /\ Alone(ui, uc, pi, pc)
  BY MasterAlone DEF Good
<1>1. /\ napi /\ napi' = FALSE
      /\ Then("user")
      /\ UNCHANGED <<rtnl, running, present, carrier, flags, queued, ring, irq, hw, phy,
        rpm, usage, idle, asleep, gone>>
  BY DoesNapiDisable
<1>2. /\ ui \in Routines /\ uc \in Places /\ Rest(ui, uc) # <<>>
      /\ First(ui, uc) = "napi_disable"
  BY UserFrom
<1>3. \/ ui = "up3" /\ After(ui, uc) = Rest("up4", uc)
      \/ ui = "down3" /\ After(ui, uc) = Rest("down4", uc)
      \/ ui = "stop1" /\ After(ui, uc) = Rest("stop2", uc)
  BY <1>0, <1>2, AtNapiDisable DEF Parts, Shape, Ups, Downs, Resets, UserPlaces
<1>4. todo' = [todo EXCEPT !["user"] = After(ui, uc)]
  BY <1>1, UserFrom
<1>5. PICK j, d : /\ todo' = [todo EXCEPT !["user"] = Rest(j, d)]
             /\ \/ ui = "up3" /\ j = "up4" /\ d = uc
                \/ ui = "down3" /\ j = "down4" /\ d = uc
                \/ ui = "stop1" /\ j = "stop2" /\ d = uc
  BY <1>3, <1>4
<1>6. Types'
  BY <1>0, <1>1, <1>5 DEF Parts, Types
<1>7. Shape(j, d, wi, wc, pi, pc, yi, yc)'
  BY <1>0, <1>1, <1>5 DEF Parts, Shape, Ups, Downs, Resets, UpPlaces, DownPlaces, UserPlaces
<1>8. Lock(d, wc, pc)'
  BY <1>0, <1>1, <1>5 DEF Parts, Lock, Locked
<1>9. Power(d, pc)'
  BY <1>0, <1>1, <1>5 DEF Parts, Power, Refs, Ref1, Ref2, UserResumes
<1>10. Netdev(j, d, pi, pc)'
  BY <1>0, <1>1, <1>5 DEF Parts, Netdev, Flex, RunningAt, RingAt, IrqAt, PhyAt
<1>11. Device(j, d, pi, pc)'
  BY <1>0, <1>1, <1>5
    DEF Parts, Alone, Device, DownState, UpState, Between, Enabled, Off, HalfOpen, Quiet,
          Shape, Ups, Downs, Resets, UpPlaces, DownPlaces
<1>12. Napi(j, d, wi, pi, pc, yi)'
  BY <1>0, <1>1, <1>5 DEF Parts, Napi, Holds, Starts, Off, HalfOpen, Quiet
<1>13. Others(d, wi, wc, yc)'
  BY <1>0, <1>1, <1>5
    DEF Parts, Alone, Others, Device, DownState, UpState, Between, Enabled, Off, HalfOpen,
          Quiet, Netdev, Flex, RunningAt, RingAt, IrqAt, PhyAt
<1>14. Parts(j, d, wi, wc, pi, pc, yi, yc)'
  BY <1>6, <1>7, <1>8, <1>9, <1>10, <1>11, <1>12, <1>13 DEF Parts
<1> QED
  BY <1>5, <1>14, UserArrives

(* The user's thread stops the chip and clears the rings. *)
LEMMA UserClear ==
  ASSUME NEW ui, NEW uc, NEW wi, NEW wc, NEW pi, NEW pc, NEW yi, NEW yc,
         Good(ui, uc, wi, wc, pi, pc, yi, yc), Step("user"), At("user", "clear")
  PROVE  IInv'
<1>0. Parts(ui, uc, wi, wc, pi, pc, yi, yc) /\ Alone(ui, uc, pi, pc)
  BY MasterAlone DEF Good
<1>1. /\ hw' = FALSE
      /\ Then("user")
      /\ UNCHANGED <<rtnl, running, present, carrier, flags, queued, ring, irq, napi, phy,
        rpm, usage, idle, asleep, gone>>
  BY DoesClear
<1>2. /\ ui \in Routines /\ uc \in Places /\ Rest(ui, uc) # <<>>
      /\ First(ui, uc) = "clear"
  BY UserFrom
<1>3. \/ ui = "up4" /\ After(ui, uc) = Rest("up5", uc)
      \/ ui = "down4" /\ After(ui, uc) = Rest("none", uc)
      \/ ui = "stop2" /\ After(ui, uc) = Rest("stop3", uc)
  BY <1>0, <1>2, AtClear DEF Parts, Shape, Ups, Downs, Resets, UserPlaces
<1>4. todo' = [todo EXCEPT !["user"] = After(ui, uc)]
  BY <1>1, UserFrom
<1>5. PICK j, d : /\ todo' = [todo EXCEPT !["user"] = Rest(j, d)]
             /\ \/ ui = "up4" /\ j = "up5" /\ d = uc
                \/ ui = "down4" /\ j = "none" /\ d = uc
                \/ ui = "stop2" /\ j = "stop3" /\ d = uc
  BY <1>3, <1>4
<1>6. Types'
  BY <1>0, <1>1, <1>5 DEF Parts, Types
<1>7. Shape(j, d, wi, wc, pi, pc, yi, yc)'
  BY <1>0, <1>1, <1>5 DEF Parts, Shape, Ups, Downs, Resets, UpPlaces, DownPlaces, UserPlaces
<1>8. Lock(d, wc, pc)'
  BY <1>0, <1>1, <1>5 DEF Parts, Lock, Locked
<1>9. Power(d, pc)'
  BY <1>0, <1>1, <1>5 DEF Parts, Power, Refs, Ref1, Ref2, UserResumes
<1>10. Netdev(j, d, pi, pc)'
  BY <1>0, <1>1, <1>5 DEF Parts, Netdev, Flex, RunningAt, RingAt, IrqAt, PhyAt
<1>11. Device(j, d, pi, pc)'
  <2>1. (j = "none" => Off(d, pc)') /\ pi = "none"
    BY <1>0, <1>1, <1>5
      DEF Parts, Alone, Off, HalfOpen, Quiet, Shape, Ups, Downs, DownPlaces, PmPlaces,
            UserPlaces
  <2> QED
    BY <1>0, <1>1, <1>5, <2>1
      DEF Parts, Device, DownState, UpState, Between, Enabled, Downs, Napi, Holds, Starts
<1>12. Napi(j, d, wi, pi, pc, yi)'
  <2>1. (j = "none" => Off(d, pc)') /\ pi = "none"
    BY <1>0, <1>1, <1>5
      DEF Parts, Alone, Off, HalfOpen, Quiet, Shape, Ups, Downs, DownPlaces, PmPlaces,
            UserPlaces
  <2> QED
    BY <1>0, <1>1, <1>5, <2>1
      DEF Parts, Device, DownState, UpState, Between, Enabled, Downs, Napi, Holds, Starts
<1>13. Others(d, wi, wc, yc)'
  BY <1>0, <1>1, <1>5
    DEF Parts, Alone, Others, Device, DownState, UpState, Between, Enabled, Off, HalfOpen,
          Quiet, Netdev, Flex, RunningAt, RingAt, IrqAt, PhyAt
<1>14. Parts(j, d, wi, wc, pi, pc, yi, yc)'
  BY <1>6, <1>7, <1>8, <1>9, <1>10, <1>11, <1>12, <1>13 DEF Parts
<1> QED
  BY <1>5, <1>14, UserArrives

(* The user's thread starts the chip. *)
LEMMA UserHwStart ==
  ASSUME NEW ui, NEW uc, NEW wi, NEW wc, NEW pi, NEW pc, NEW yi, NEW yc,
         Good(ui, uc, wi, wc, pi, pc, yi, yc), Step("user"), At("user", "hw_start")
  PROVE  IInv'
<1>0. Parts(ui, uc, wi, wc, pi, pc, yi, yc) /\ Alone(ui, uc, pi, pc)
  BY MasterAlone DEF Good
<1>1. /\ hw' = TRUE
      /\ Then("user")
      /\ UNCHANGED <<rtnl, running, present, carrier, flags, queued, ring, irq, napi, phy,
        rpm, usage, idle, asleep, gone>>
  BY DoesHwStart
<1>2. /\ ui \in Routines /\ uc \in Places /\ Rest(ui, uc) # <<>>
      /\ First(ui, uc) = "hw_start"
  BY UserFrom
<1>3. \/ ui = "up6" /\ After(ui, uc) = Rest("up7", uc)
      \/ ui = "stop4" /\ After(ui, uc) = Rest("down3", uc)
  BY <1>0, <1>2, AtHwStart DEF Parts, Shape, Ups, Downs, Resets, UserPlaces
<1>4. todo' = [todo EXCEPT !["user"] = After(ui, uc)]
  BY <1>1, UserFrom
<1>5. PICK j, d : /\ todo' = [todo EXCEPT !["user"] = Rest(j, d)]
             /\ \/ ui = "up6" /\ j = "up7" /\ d = uc
                \/ ui = "stop4" /\ j = "down3" /\ d = uc
  BY <1>3, <1>4
<1>6. Types'
  BY <1>0, <1>1, <1>5 DEF Parts, Types
<1>7. Shape(j, d, wi, wc, pi, pc, yi, yc)'
  BY <1>0, <1>1, <1>5 DEF Parts, Shape, Ups, Downs, Resets, UpPlaces, DownPlaces, UserPlaces
<1>8. Lock(d, wc, pc)'
  BY <1>0, <1>1, <1>5 DEF Parts, Lock, Locked
<1>9. Power(d, pc)'
  BY <1>0, <1>1, <1>5 DEF Parts, Power, Refs, Ref1, Ref2, UserResumes
<1>10. Netdev(j, d, pi, pc)'
  BY <1>0, <1>1, <1>5 DEF Parts, Netdev, Flex, RunningAt, RingAt, IrqAt, PhyAt
<1>11. Device(j, d, pi, pc)'
  BY <1>0, <1>1, <1>5
    DEF Parts, Alone, Device, DownState, UpState, Between, Enabled, Off, HalfOpen, Quiet,
          Shape, Ups, Downs, Resets, UpPlaces, DownPlaces
<1>12. Napi(j, d, wi, pi, pc, yi)'
  BY <1>0, <1>1, <1>5 DEF Parts, Napi, Holds, Starts, Off, HalfOpen, Quiet
<1>13. Others(d, wi, wc, yc)'
  BY <1>0, <1>1, <1>5
    DEF Parts, Alone, Others, Device, DownState, UpState, Between, Enabled, Off, HalfOpen,
          Quiet, Netdev, Flex, RunningAt, RingAt, IrqAt, PhyAt
<1>14. Parts(j, d, wi, wc, pi, pc, yi, yc)'
  BY <1>6, <1>7, <1>8, <1>9, <1>10, <1>11, <1>12, <1>13 DEF Parts
<1> QED
  BY <1>5, <1>14, UserArrives

(* The user's thread starts the phy. *)
LEMMA UserPhyStart ==
  ASSUME NEW ui, NEW uc, NEW wi, NEW wc, NEW pi, NEW pc, NEW yi, NEW yc,
         Good(ui, uc, wi, wc, pi, pc, yi, yc), Step("user"), At("user", "phy_start")
  PROVE  IInv'
<1>0. Parts(ui, uc, wi, wc, pi, pc, yi, yc) /\ Alone(ui, uc, pi, pc)
  BY MasterAlone DEF Good
<1>1. /\ phy' = "started"
      /\ Then("user")
      /\ UNCHANGED <<rtnl, running, present, carrier, flags, queued, ring, irq, napi, hw,
        rpm, usage, idle, asleep, gone>>
  BY DoesPhyStart
<1>2. /\ ui \in Routines /\ uc \in Places /\ Rest(ui, uc) # <<>>
      /\ First(ui, uc) = "phy_start"
  BY UserFrom
<1>3. \/ ui = "up7" /\ After(ui, uc) = Rest("none", uc)
  BY <1>0, <1>2, AtPhyStart DEF Parts, Shape, Ups, Downs, Resets, UserPlaces
<1>4. todo' = [todo EXCEPT !["user"] = After(ui, uc)]
  BY <1>1, UserFrom
<1>5. PICK j, d : /\ todo' = [todo EXCEPT !["user"] = Rest(j, d)]
             /\ \/ ui = "up7" /\ j = "none" /\ d = uc
  BY <1>3, <1>4
<1>6. Types'
  BY <1>0, <1>1, <1>5 DEF Parts, Types
<1>7. Shape(j, d, wi, wc, pi, pc, yi, yc)'
  BY <1>0, <1>1, <1>5 DEF Parts, Shape, Ups, Downs, Resets, UpPlaces, DownPlaces, UserPlaces
<1>8. Lock(d, wc, pc)'
  BY <1>0, <1>1, <1>5 DEF Parts, Lock, Locked
<1>9. Power(d, pc)'
  BY <1>0, <1>1, <1>5 DEF Parts, Power, Refs, Ref1, Ref2, UserResumes
<1>10. Netdev(j, d, pi, pc)'
  BY <1>0, <1>1, <1>5
    DEF Parts, Alone, Netdev, Flex, RunningAt, RingAt, IrqAt, PhyAt, Ups, Downs, Shape,
          UpPlaces
<1>11. Device(j, d, pi, pc)'
  BY <1>0, <1>1, <1>5
    DEF Parts, Alone, Device, DownState, UpState, Between, Enabled, Off, HalfOpen, Quiet,
          Netdev, Flex, RunningAt, RingAt, IrqAt, PhyAt, Power, Refs, Ref1, Ref2,
          UserResumes, Shape, Ups, Downs, Resets, UpPlaces, DownPlaces
<1>12. Napi(j, d, wi, pi, pc, yi)'
  BY <1>0, <1>1, <1>5 DEF Parts, Napi, Holds, Starts, Off, HalfOpen, Quiet
<1>13. Others(d, wi, wc, yc)'
  BY <1>0, <1>1, <1>5
    DEF Parts, Alone, Others, Device, DownState, UpState, Between, Enabled, Off, HalfOpen,
          Quiet, Netdev, Flex, RunningAt, RingAt, IrqAt, PhyAt
<1>14. Parts(j, d, wi, wc, pi, pc, yi, yc)'
  BY <1>6, <1>7, <1>8, <1>9, <1>10, <1>11, <1>12, <1>13 DEF Parts
<1> QED
  BY <1>5, <1>14, UserArrives

(* The user's thread clears the flags of the work item. *)
LEMMA UserClearFlags ==
  ASSUME NEW ui, NEW uc, NEW wi, NEW wc, NEW pi, NEW pc, NEW yi, NEW yc,
         Good(ui, uc, wi, wc, pi, pc, yi, yc), Step("user"), At("user", "clear_flags")
  PROVE  IInv'
<1>0. Parts(ui, uc, wi, wc, pi, pc, yi, yc) /\ Alone(ui, uc, pi, pc)
  BY MasterAlone DEF Good
<1>1. /\ flags' = {}
      /\ Then("user")
      /\ UNCHANGED <<rtnl, running, present, carrier, queued, ring, irq, napi, hw, phy,
        rpm, usage, idle, asleep, gone>>
  BY DoesClearFlags
<1>2. /\ ui \in Routines /\ uc \in Places /\ Rest(ui, uc) # <<>>
      /\ First(ui, uc) = "clear_flags"
  BY UserFrom
<1>3. \/ ui = "down1" /\ After(ui, uc) = Rest("down2", uc)
  BY <1>0, <1>2, AtClearFlags DEF Parts, Shape, Ups, Downs, Resets, UserPlaces
<1>4. todo' = [todo EXCEPT !["user"] = After(ui, uc)]
  BY <1>1, UserFrom
<1>5. PICK j, d : /\ todo' = [todo EXCEPT !["user"] = Rest(j, d)]
             /\ \/ ui = "down1" /\ j = "down2" /\ d = uc
  BY <1>3, <1>4
<1>6. Types'
  BY <1>0, <1>1, <1>5 DEF Parts, Types
<1>7. Shape(j, d, wi, wc, pi, pc, yi, yc)'
  BY <1>0, <1>1, <1>5 DEF Parts, Shape, Ups, Downs, Resets, UpPlaces, DownPlaces, UserPlaces
<1>8. Lock(d, wc, pc)'
  BY <1>0, <1>1, <1>5 DEF Parts, Lock, Locked
<1>9. Power(d, pc)'
  BY <1>0, <1>1, <1>5 DEF Parts, Power, Refs, Ref1, Ref2, UserResumes
<1>10. Netdev(j, d, pi, pc)'
  BY <1>0, <1>1, <1>5 DEF Parts, Netdev, Flex, RunningAt, RingAt, IrqAt, PhyAt
<1>11. Device(j, d, pi, pc)'
  BY <1>0, <1>1, <1>5
    DEF Parts, Alone, Device, DownState, UpState, Between, Enabled, Off, HalfOpen, Quiet,
          Shape, Ups, Downs, Resets, UpPlaces, DownPlaces
<1>12. Napi(j, d, wi, pi, pc, yi)'
  BY <1>0, <1>1, <1>5 DEF Parts, Napi, Holds, Starts, Off, HalfOpen, Quiet
<1>13. Others(d, wi, wc, yc)'
  BY <1>0, <1>1, <1>5
    DEF Parts, Alone, Others, Device, DownState, UpState, Between, Enabled, Off, HalfOpen,
          Quiet, Netdev, Flex, RunningAt, RingAt, IrqAt, PhyAt, Lock, Locked, Shape,
          DownPlaces, Ups, Downs
<1>14. Parts(j, d, wi, wc, pi, pc, yi, yc)'
  BY <1>6, <1>7, <1>8, <1>9, <1>10, <1>11, <1>12, <1>13 DEF Parts
<1> QED
  BY <1>5, <1>14, UserArrives

(* The user's thread gives the rtnl lock back. *)
LEMMA UserUnrtnl ==
  ASSUME NEW ui, NEW uc, NEW wi, NEW wc, NEW pi, NEW pc, NEW yi, NEW yc,
         Good(ui, uc, wi, wc, pi, pc, yi, yc), Step("user"), At("user", "unrtnl")
  PROVE  IInv'
<1>0. Parts(ui, uc, wi, wc, pi, pc, yi, yc) /\ Alone(ui, uc, pi, pc)
  BY MasterAlone DEF Good
<1>1. /\ rtnl' = "none"
      /\ Then("user")
      /\ UNCHANGED <<running, present, carrier, flags, queued, ring, irq, napi, hw, phy,
        rpm, usage, idle, asleep, gone>>
  BY DoesUnrtnl
<1>2. /\ ui \in Routines /\ uc \in Places /\ Rest(ui, uc) # <<>>
      /\ First(ui, uc) = "unrtnl"
  BY UserFrom
<1>3. \/ ui = "none" /\ uc = "open9" /\ After(ui, uc) = Rest("none", "end")
      \/ ui = "none" /\ uc = "leave9" /\ After(ui, uc) = Rest("none", "removed")
      \/ ui = "none" /\ uc = "shut5" /\ After(ui, uc) = Rest("none", "shut6")
  BY <1>0, <1>2, AtUnrtnl DEF Parts, Shape, Ups, Downs, Resets, UserPlaces
<1>4. todo' = [todo EXCEPT !["user"] = After(ui, uc)]
  BY <1>1, UserFrom
<1>5. PICK j, d : /\ todo' = [todo EXCEPT !["user"] = Rest(j, d)]
             /\ \/ ui = "none" /\ uc = "open9" /\ j = "none" /\ d = "end"
                \/ ui = "none" /\ uc = "leave9" /\ j = "none" /\ d = "removed"
                \/ ui = "none" /\ uc = "shut5" /\ j = "none" /\ d = "shut6"
  BY <1>3, <1>4
<1>6. Types'
  BY <1>0, <1>1, <1>5 DEF Parts, Types
<1>7. Shape(j, d, wi, wc, pi, pc, yi, yc)'
  BY <1>0, <1>1, <1>5 DEF Parts, Shape, Ups, Downs, Resets, UpPlaces, DownPlaces, UserPlaces
<1>8. Lock(d, wc, pc)'
  BY <1>0, <1>1, <1>5 DEF Parts, Lock, Locked
<1>9. Power(d, pc)'
  BY <1>0, <1>1, <1>5 DEF Parts, Power, Refs, Ref1, Ref2, UserResumes
<1>10. Netdev(j, d, pi, pc)'
  BY <1>0, <1>1, <1>5 DEF Parts, Netdev, Flex, RunningAt, RingAt, IrqAt, PhyAt
<1>11. Device(j, d, pi, pc)'
  BY <1>0, <1>1, <1>5
    DEF Parts, Device, DownState, UpState, Between, Enabled, Off, HalfOpen, Quiet
<1>12. Napi(j, d, wi, pi, pc, yi)'
  BY <1>0, <1>1, <1>5 DEF Parts, Napi, Holds, Starts, Off, HalfOpen, Quiet
<1>13. Others(d, wi, wc, yc)'
  BY <1>0, <1>1, <1>5
    DEF Parts, Alone, Others, Device, DownState, UpState, Between, Enabled, Off, HalfOpen,
          Quiet, Netdev, Flex, RunningAt, RingAt, IrqAt, PhyAt
<1>14. Parts(j, d, wi, wc, pi, pc, yi, yc)'
  BY <1>6, <1>7, <1>8, <1>9, <1>10, <1>11, <1>12, <1>13 DEF Parts
<1> QED
  BY <1>5, <1>14, UserArrives

(* The user's thread gives its reference to runtime power back. *)
LEMMA UserPut ==
  ASSUME NEW ui, NEW uc, NEW wi, NEW wc, NEW pi, NEW pc, NEW yi, NEW yc,
         Good(ui, uc, wi, wc, pi, pc, yi, yc), Step("user"), At("user", "put")
  PROVE  IInv'
<1>0. Parts(ui, uc, wi, wc, pi, pc, yi, yc) /\ Alone(ui, uc, pi, pc)
  BY MasterAlone DEF Good
<1>1. /\ usage' = usage - 1
      /\ Then("user")
      /\ UNCHANGED <<rtnl, running, present, carrier, flags, queued, ring, irq, napi, hw,
        phy, rpm, idle, asleep, gone>>
  BY DoesPut
<1>2. /\ ui \in Routines /\ uc \in Places /\ Rest(ui, uc) # <<>>
      /\ First(ui, uc) = "put"
  BY UserFrom
<1>3. \/ ui = "none" /\ uc = "open8" /\ After(ui, uc) = Rest("none", "open9")
      \/ ui = "none" /\ uc = "leave8" /\ After(ui, uc) = Rest("none", "leave9")
  BY <1>0, <1>2, AtPut DEF Parts, Shape, Ups, Downs, Resets, UserPlaces
<1>4. todo' = [todo EXCEPT !["user"] = After(ui, uc)]
  BY <1>1, UserFrom
<1>5. PICK j, d : /\ todo' = [todo EXCEPT !["user"] = Rest(j, d)]
             /\ \/ ui = "none" /\ uc = "open8" /\ j = "none" /\ d = "open9"
                \/ ui = "none" /\ uc = "leave8" /\ j = "none" /\ d = "leave9"
  BY <1>3, <1>4
<1>6. Types'
  BY <1>0, <1>1, <1>5 DEF Parts, Types
<1>7. Shape(j, d, wi, wc, pi, pc, yi, yc)'
  BY <1>0, <1>1, <1>5 DEF Parts, Shape, Ups, Downs, Resets, UpPlaces, DownPlaces, UserPlaces
<1>8. Lock(d, wc, pc)'
  BY <1>0, <1>1, <1>5 DEF Parts, Lock, Locked
<1>9. Power(d, pc)'
  BY <1>0, <1>1, <1>5 DEF Parts, Power, Refs, Ref1, Ref2, UserResumes
<1>10. Netdev(j, d, pi, pc)'
  BY <1>0, <1>1, <1>5 DEF Parts, Netdev, Flex, RunningAt, RingAt, IrqAt, PhyAt
<1>11. Device(j, d, pi, pc)'
  BY <1>0, <1>1, <1>5
    DEF Parts, Device, DownState, UpState, Between, Enabled, Off, HalfOpen, Quiet
<1>12. Napi(j, d, wi, pi, pc, yi)'
  BY <1>0, <1>1, <1>5 DEF Parts, Napi, Holds, Starts, Off, HalfOpen, Quiet
<1>13. Others(d, wi, wc, yc)'
  BY <1>0, <1>1, <1>5
    DEF Parts, Alone, Others, Device, DownState, UpState, Between, Enabled, Off, HalfOpen,
          Quiet, Netdev, Flex, RunningAt, RingAt, IrqAt, PhyAt
<1>14. Parts(j, d, wi, wc, pi, pc, yi, yc)'
  BY <1>6, <1>7, <1>8, <1>9, <1>10, <1>11, <1>12, <1>13 DEF Parts
<1> QED
  BY <1>5, <1>14, UserArrives

(* The user's thread connects the phy. *)
LEMMA UserPhyConnect ==
  ASSUME NEW ui, NEW uc, NEW wi, NEW wc, NEW pi, NEW pc, NEW yi, NEW yc,
         Good(ui, uc, wi, wc, pi, pc, yi, yc), Step("user"), At("user", "phy_connect")
  PROVE  IInv'
<1>0. Parts(ui, uc, wi, wc, pi, pc, yi, yc) /\ Alone(ui, uc, pi, pc)
  BY MasterAlone DEF Good
<1>1. /\ phy' = "stopped"
      /\ Then("user")
      /\ UNCHANGED <<rtnl, running, present, carrier, flags, queued, ring, irq, napi, hw,
        rpm, usage, idle, asleep, gone>>
  BY DoesPhyConnect
<1>2. /\ ui \in Routines /\ uc \in Places /\ Rest(ui, uc) # <<>>
      /\ First(ui, uc) = "phy_connect"
  BY UserFrom
<1>3. \/ ui = "none" /\ uc = "open7" /\ After(ui, uc) = Rest("up1", "open8")
  BY <1>0, <1>2, AtPhyConnect DEF Parts, Shape, Ups, Downs, Resets, UserPlaces
<1>4. todo' = [todo EXCEPT !["user"] = After(ui, uc)]
  BY <1>1, UserFrom
<1>5. PICK j, d : /\ todo' = [todo EXCEPT !["user"] = Rest(j, d)]
             /\ \/ ui = "none" /\ uc = "open7" /\ j = "up1" /\ d = "open8"
  BY <1>3, <1>4
<1>6. Types'
  BY <1>0, <1>1, <1>5 DEF Parts, Types
<1>7. Shape(j, d, wi, wc, pi, pc, yi, yc)'
  BY <1>0, <1>1, <1>5 DEF Parts, Shape, Ups, Downs, Resets, UpPlaces, DownPlaces, UserPlaces
<1>8. Lock(d, wc, pc)'
  BY <1>0, <1>1, <1>5 DEF Parts, Lock, Locked
<1>9. Power(d, pc)'
  BY <1>0, <1>1, <1>5 DEF Parts, Power, Refs, Ref1, Ref2, UserResumes
<1>10. Netdev(j, d, pi, pc)'
  BY <1>0, <1>1, <1>5 DEF Parts, Netdev, Flex, RunningAt, RingAt, IrqAt, PhyAt
<1>11. Device(j, d, pi, pc)'
  BY <1>0, <1>1, <1>5
    DEF Parts, Alone, Device, DownState, UpState, Between, Enabled, Off, HalfOpen, Quiet,
          Netdev, Flex, RunningAt, RingAt, IrqAt, PhyAt, Power, Refs, Ref1, Ref2,
          UserResumes, Shape, Ups, Downs, Resets, UpPlaces, DownPlaces
<1>12. Napi(j, d, wi, pi, pc, yi)'
  BY <1>0, <1>1, <1>5
    DEF Parts, Alone, Napi, Holds, Starts, Off, HalfOpen, Quiet, Netdev, Flex, RunningAt,
          RingAt, IrqAt, PhyAt, Power, Refs, Ref1, Ref2, UserResumes, Shape, Ups, Downs,
          Resets, UpPlaces, DownPlaces, Others, Device, DownState, UpState, Between, Enabled
<1>13. Others(d, wi, wc, yc)'
  BY <1>0, <1>1, <1>5
    DEF Parts, Alone, Others, Device, DownState, UpState, Between, Enabled, Off, HalfOpen,
          Quiet, Netdev, Flex, RunningAt, RingAt, IrqAt, PhyAt
<1>14. Parts(j, d, wi, wc, pi, pc, yi, yc)'
  BY <1>6, <1>7, <1>8, <1>9, <1>10, <1>11, <1>12, <1>13 DEF Parts
<1> QED
  BY <1>5, <1>14, UserArrives

(* The user's thread installs the handler. *)
LEMMA UserRequestIrq ==
  ASSUME NEW ui, NEW uc, NEW wi, NEW wc, NEW pi, NEW pc, NEW yi, NEW yc,
         Good(ui, uc, wi, wc, pi, pc, yi, yc), Step("user"), At("user", "request_irq")
  PROVE  IInv'
<1>0. Parts(ui, uc, wi, wc, pi, pc, yi, yc) /\ Alone(ui, uc, pi, pc)
  BY MasterAlone DEF Good
<1>1. /\ irq' = TRUE
      /\ Then("user")
      /\ UNCHANGED <<rtnl, running, present, carrier, flags, queued, ring, napi, hw, phy,
        rpm, usage, idle, asleep, gone>>
  BY DoesRequestIrq
<1>2. /\ ui \in Routines /\ uc \in Places /\ Rest(ui, uc) # <<>>
      /\ First(ui, uc) = "request_irq"
  BY UserFrom
<1>3. \/ ui = "none" /\ uc = "open6" /\ After(ui, uc) = Rest("none", "open7")
  BY <1>0, <1>2, AtRequestIrq DEF Parts, Shape, Ups, Downs, Resets, UserPlaces
<1>4. todo' = [todo EXCEPT !["user"] = After(ui, uc)]
  BY <1>1, UserFrom
<1>5. PICK j, d : /\ todo' = [todo EXCEPT !["user"] = Rest(j, d)]
             /\ \/ ui = "none" /\ uc = "open6" /\ j = "none" /\ d = "open7"
  BY <1>3, <1>4
<1>6. Types'
  BY <1>0, <1>1, <1>5 DEF Parts, Types
<1>7. Shape(j, d, wi, wc, pi, pc, yi, yc)'
  BY <1>0, <1>1, <1>5 DEF Parts, Shape, Ups, Downs, Resets, UpPlaces, DownPlaces, UserPlaces
<1>8. Lock(d, wc, pc)'
  BY <1>0, <1>1, <1>5 DEF Parts, Lock, Locked
<1>9. Power(d, pc)'
  BY <1>0, <1>1, <1>5 DEF Parts, Power, Refs, Ref1, Ref2, UserResumes
<1>10. Netdev(j, d, pi, pc)'
  BY <1>0, <1>1, <1>5 DEF Parts, Netdev, Flex, RunningAt, RingAt, IrqAt, PhyAt
<1>11. Device(j, d, pi, pc)'
  BY <1>0, <1>1, <1>5
    DEF Parts, Device, DownState, UpState, Between, Enabled, Off, HalfOpen, Quiet
<1>12. Napi(j, d, wi, pi, pc, yi)'
  BY <1>0, <1>1, <1>5 DEF Parts, Napi, Holds, Starts, Off, HalfOpen, Quiet
<1>13. Others(d, wi, wc, yc)'
  BY <1>0, <1>1, <1>5
    DEF Parts, Alone, Others, Device, DownState, UpState, Between, Enabled, Off, HalfOpen,
          Quiet, Netdev, Flex, RunningAt, RingAt, IrqAt, PhyAt
<1>14. Parts(j, d, wi, wc, pi, pc, yi, yc)'
  BY <1>6, <1>7, <1>8, <1>9, <1>10, <1>11, <1>12, <1>13 DEF Parts
<1> QED
  BY <1>5, <1>14, UserArrives

(* The user's thread allocates the rings. *)
LEMMA UserAlloc ==
  ASSUME NEW ui, NEW uc, NEW wi, NEW wc, NEW pi, NEW pc, NEW yi, NEW yc,
         Good(ui, uc, wi, wc, pi, pc, yi, yc), Step("user"), At("user", "alloc")
  PROVE  IInv'
<1>0. Parts(ui, uc, wi, wc, pi, pc, yi, yc) /\ Alone(ui, uc, pi, pc)
  BY MasterAlone DEF Good
<1>1. /\ ring' = TRUE
      /\ Then("user")
      /\ UNCHANGED <<rtnl, running, present, carrier, flags, queued, irq, napi, hw, phy,
        rpm, usage, idle, asleep, gone>>
  BY DoesAlloc
<1>2. /\ ui \in Routines /\ uc \in Places /\ Rest(ui, uc) # <<>>
      /\ First(ui, uc) = "alloc"
  BY UserFrom
<1>3. \/ ui = "none" /\ uc = "open5" /\ After(ui, uc) = Rest("none", "open6")
  BY <1>0, <1>2, AtAlloc DEF Parts, Shape, Ups, Downs, Resets, UserPlaces
<1>4. todo' = [todo EXCEPT !["user"] = After(ui, uc)]
  BY <1>1, UserFrom
<1>5. PICK j, d : /\ todo' = [todo EXCEPT !["user"] = Rest(j, d)]
             /\ \/ ui = "none" /\ uc = "open5" /\ j = "none" /\ d = "open6"
  BY <1>3, <1>4
<1>6. Types'
  BY <1>0, <1>1, <1>5 DEF Parts, Types
<1>7. Shape(j, d, wi, wc, pi, pc, yi, yc)'
  BY <1>0, <1>1, <1>5 DEF Parts, Shape, Ups, Downs, Resets, UpPlaces, DownPlaces, UserPlaces
<1>8. Lock(d, wc, pc)'
  BY <1>0, <1>1, <1>5 DEF Parts, Lock, Locked
<1>9. Power(d, pc)'
  BY <1>0, <1>1, <1>5 DEF Parts, Power, Refs, Ref1, Ref2, UserResumes
<1>10. Netdev(j, d, pi, pc)'
  BY <1>0, <1>1, <1>5
    DEF Parts, Alone, Netdev, Flex, RunningAt, RingAt, IrqAt, PhyAt, Power, Ref1, Ref2
<1>11. Device(j, d, pi, pc)'
  BY <1>0, <1>1, <1>5
    DEF Parts, Alone, Device, DownState, UpState, Between, Enabled, Off, HalfOpen, Quiet,
          Netdev, Flex, RunningAt, RingAt, IrqAt, PhyAt
<1>12. Napi(j, d, wi, pi, pc, yi)'
  BY <1>0, <1>1, <1>5 DEF Parts, Napi, Holds, Starts, Off, HalfOpen, Quiet
<1>13. Others(d, wi, wc, yc)'
  BY <1>0, <1>1, <1>5
    DEF Parts, Alone, Others, Device, DownState, UpState, Between, Enabled, Off, HalfOpen,
          Quiet, Netdev, Flex, RunningAt, RingAt, IrqAt, PhyAt
<1>14. Parts(j, d, wi, wc, pi, pc, yi, yc)'
  BY <1>6, <1>7, <1>8, <1>9, <1>10, <1>11, <1>12, <1>13 DEF Parts
<1> QED
  BY <1>5, <1>14, UserArrives

(* The user's thread marks the device running. *)
LEMMA UserStart ==
  ASSUME NEW ui, NEW uc, NEW wi, NEW wc, NEW pi, NEW pc, NEW yi, NEW yc,
         Good(ui, uc, wi, wc, pi, pc, yi, yc), Step("user"), At("user", "start")
  PROVE  IInv'
<1>0. Parts(ui, uc, wi, wc, pi, pc, yi, yc) /\ Alone(ui, uc, pi, pc)
  BY MasterAlone DEF Good
<1>1. /\ running' = TRUE
      /\ Then("user")
      /\ UNCHANGED <<rtnl, present, carrier, flags, queued, ring, irq, napi, hw, phy, rpm,
        usage, idle, asleep, gone>>
  BY DoesStart
<1>2. /\ ui \in Routines /\ uc \in Places /\ Rest(ui, uc) # <<>>
      /\ First(ui, uc) = "start"
  BY UserFrom
<1>3. \/ ui = "none" /\ uc = "open3" /\ After(ui, uc) = Rest("none", "open4")
  BY <1>0, <1>2, AtStart DEF Parts, Shape, Ups, Downs, Resets, UserPlaces
<1>4. todo' = [todo EXCEPT !["user"] = After(ui, uc)]
  BY <1>1, UserFrom
<1>5. PICK j, d : /\ todo' = [todo EXCEPT !["user"] = Rest(j, d)]
             /\ \/ ui = "none" /\ uc = "open3" /\ j = "none" /\ d = "open4"
  BY <1>3, <1>4
<1>6. Types'
  BY <1>0, <1>1, <1>5 DEF Parts, Types
<1>7. Shape(j, d, wi, wc, pi, pc, yi, yc)'
  BY <1>0, <1>1, <1>5 DEF Parts, Shape, Ups, Downs, Resets, UpPlaces, DownPlaces, UserPlaces
<1>8. Lock(d, wc, pc)'
  BY <1>0, <1>1, <1>5 DEF Parts, Lock, Locked
<1>9. Power(d, pc)'
  BY <1>0, <1>1, <1>5 DEF Parts, Power, Refs, Ref1, Ref2, UserResumes
<1>10. Netdev(j, d, pi, pc)'
  BY <1>0, <1>1, <1>5 DEF Parts, Netdev, Flex, RunningAt, RingAt, IrqAt, PhyAt
<1>11. Device(j, d, pi, pc)'
  BY <1>0, <1>1, <1>5
    DEF Parts, Device, DownState, UpState, Between, Enabled, Off, HalfOpen, Quiet
<1>12. Napi(j, d, wi, pi, pc, yi)'
  BY <1>0, <1>1, <1>5 DEF Parts, Napi, Holds, Starts, Off, HalfOpen, Quiet
<1>13. Others(d, wi, wc, yc)'
  BY <1>0, <1>1, <1>5
    DEF Parts, Alone, Others, Device, DownState, UpState, Between, Enabled, Off, HalfOpen,
          Quiet, Netdev, Flex, RunningAt, RingAt, IrqAt, PhyAt
<1>14. Parts(j, d, wi, wc, pi, pc, yi, yc)'
  BY <1>6, <1>7, <1>8, <1>9, <1>10, <1>11, <1>12, <1>13 DEF Parts
<1> QED
  BY <1>5, <1>14, UserArrives

(* The user's thread takes the rtnl lock. *)
LEMMA UserRtnl ==
  ASSUME NEW ui, NEW uc, NEW wi, NEW wc, NEW pi, NEW pc, NEW yi, NEW yc,
         Good(ui, uc, wi, wc, pi, pc, yi, yc), Step("user"), At("user", "rtnl")
  PROVE  IInv'
<1>0. Parts(ui, uc, wi, wc, pi, pc, yi, yc) /\ Alone(ui, uc, pi, pc)
  BY MasterAlone DEF Good
<1>1. /\ rtnl = "none" /\ rtnl' = "user"
      /\ Then("user")
      /\ UNCHANGED <<running, present, carrier, flags, queued, ring, irq, napi, hw, phy,
        rpm, usage, idle, asleep, gone>>
  BY DoesRtnl
<1>2. /\ ui \in Routines /\ uc \in Places /\ Rest(ui, uc) # <<>>
      /\ First(ui, uc) = "rtnl"
  BY UserFrom
<1>3. \/ ui = "none" /\ uc = "open1" /\ After(ui, uc) = Rest("none", "open2")
      \/ ui = "none" /\ uc = "close1" /\ After(ui, uc) = Rest("none", "close2")
      \/ ui = "none" /\ uc = "leave1" /\ After(ui, uc) = Rest("none", "leave2")
      \/ ui = "none" /\ uc = "shut2" /\ After(ui, uc) = Rest("none", "shut3")
  BY <1>0, <1>2, AtRtnl DEF Parts, Shape, Ups, Downs, Resets, UserPlaces
<1>4. todo' = [todo EXCEPT !["user"] = After(ui, uc)]
  BY <1>1, UserFrom
<1>5. PICK j, d : /\ todo' = [todo EXCEPT !["user"] = Rest(j, d)]
             /\ \/ ui = "none" /\ uc = "open1" /\ j = "none" /\ d = "open2"
                \/ ui = "none" /\ uc = "close1" /\ j = "none" /\ d = "close2"
                \/ ui = "none" /\ uc = "leave1" /\ j = "none" /\ d = "leave2"
                \/ ui = "none" /\ uc = "shut2" /\ j = "none" /\ d = "shut3"
  BY <1>3, <1>4
<1>6. Types'
  BY <1>0, <1>1, <1>5 DEF Parts, Types
<1>7. Shape(j, d, wi, wc, pi, pc, yi, yc)'
  BY <1>0, <1>1, <1>5 DEF Parts, Shape, Ups, Downs, Resets, UpPlaces, DownPlaces, UserPlaces
<1>8. Lock(d, wc, pc)'
  BY <1>0, <1>1, <1>5 DEF Parts, Lock, Locked
<1>9. Power(d, pc)'
  BY <1>0, <1>1, <1>5 DEF Parts, Power, Refs, Ref1, Ref2, UserResumes
<1>10. Netdev(j, d, pi, pc)'
  BY <1>0, <1>1, <1>5 DEF Parts, Netdev, Flex, RunningAt, RingAt, IrqAt, PhyAt
<1>11. Device(j, d, pi, pc)'
  BY <1>0, <1>1, <1>5
    DEF Parts, Device, DownState, UpState, Between, Enabled, Off, HalfOpen, Quiet
<1>12. Napi(j, d, wi, pi, pc, yi)'
  BY <1>0, <1>1, <1>5 DEF Parts, Napi, Holds, Starts, Off, HalfOpen, Quiet
<1>13. Others(d, wi, wc, yc)'
  BY <1>0, <1>1, <1>5
    DEF Parts, Alone, Others, Device, DownState, UpState, Between, Enabled, Off, HalfOpen,
          Quiet, Netdev, Flex, RunningAt, RingAt, IrqAt, PhyAt
<1>14. Parts(j, d, wi, wc, pi, pc, yi, yc)'
  BY <1>6, <1>7, <1>8, <1>9, <1>10, <1>11, <1>12, <1>13 DEF Parts
<1> QED
  BY <1>5, <1>14, UserArrives

(* The user's thread ends a runtime resume. *)
LEMMA UserActive ==
  ASSUME NEW ui, NEW uc, NEW wi, NEW wc, NEW pi, NEW pc, NEW yi, NEW yc,
         Good(ui, uc, wi, wc, pi, pc, yi, yc), Step("user"), At("user", "active")
  PROVE  IInv'
<1>0. Parts(ui, uc, wi, wc, pi, pc, yi, yc) /\ Alone(ui, uc, pi, pc)
  BY MasterAlone DEF Good
<1>1. /\ rpm' = "active"
      /\ Then("user")
      /\ UNCHANGED <<rtnl, running, present, carrier, flags, queued, ring, irq, napi, hw,
        phy, usage, asleep, gone>>
  BY DoesActive
<1>2. /\ ui \in Routines /\ uc \in Places /\ Rest(ui, uc) # <<>>
      /\ First(ui, uc) = "active"
  BY UserFrom
<1>3. \/ ui = "none" /\ uc = "parent3" /\ After(ui, uc) = Rest("none", "open2")
      \/ ui = "none" /\ uc = "oget3" /\ After(ui, uc) = Rest("none", "open4")
      \/ ui = "none" /\ uc = "cget3" /\ After(ui, uc) = Rest("none", "close3")
      \/ ui = "none" /\ uc = "lget3" /\ After(ui, uc) = Rest("none", "leave0")
      \/ ui = "none" /\ uc = "bget3" /\ After(ui, uc) = Rest("none", "bare")
      \/ ui = "none" /\ uc = "sget3" /\ After(ui, uc) = Rest("none", "shut1")
  BY <1>0, <1>2, AtActive DEF Parts, Shape, Ups, Downs, Resets, UserPlaces
<1>4. todo' = [todo EXCEPT !["user"] = After(ui, uc)]
  BY <1>1, UserFrom
<1>5. PICK j, d : /\ todo' = [todo EXCEPT !["user"] = Rest(j, d)]
             /\ \/ ui = "none" /\ uc = "parent3" /\ j = "none" /\ d = "open2"
                \/ ui = "none" /\ uc = "oget3" /\ j = "none" /\ d = "open4"
                \/ ui = "none" /\ uc = "cget3" /\ j = "none" /\ d = "close3"
                \/ ui = "none" /\ uc = "lget3" /\ j = "none" /\ d = "leave0"
                \/ ui = "none" /\ uc = "bget3" /\ j = "none" /\ d = "bare"
                \/ ui = "none" /\ uc = "sget3" /\ j = "none" /\ d = "shut1"
  BY <1>3, <1>4
<1>6. Types'
  BY <1>0, <1>1, <1>5 DEF Parts, Types
<1>7. Shape(j, d, wi, wc, pi, pc, yi, yc)'
  BY <1>0, <1>1, <1>5 DEF Parts, Shape, Ups, Downs, Resets, UpPlaces, DownPlaces, UserPlaces
<1>8. Lock(d, wc, pc)'
  BY <1>0, <1>1, <1>5 DEF Parts, Lock, Locked
<1>9. Power(d, pc)'
  BY <1>0, <1>1, <1>5 DEF Parts, Power, Refs, Ref1, Ref2, UserResumes
<1>10. Netdev(j, d, pi, pc)'
  BY <1>0, <1>1, <1>5 DEF Parts, Netdev, Flex, RunningAt, RingAt, IrqAt, PhyAt
<1>11. Device(j, d, pi, pc)'
  BY <1>0, <1>1, <1>5
    DEF Parts, Alone, Device, DownState, UpState, Between, Enabled, Off, HalfOpen, Quiet,
          Netdev, Flex, RunningAt, RingAt, IrqAt, PhyAt, Power, Refs, Ref1, Ref2,
          UserResumes, Shape, Ups, Downs, Resets, UpPlaces, DownPlaces
<1>12. Napi(j, d, wi, pi, pc, yi)'
  BY <1>0, <1>1, <1>5
    DEF Parts, Alone, Napi, Holds, Starts, Off, HalfOpen, Quiet, Netdev, Flex, RunningAt,
          RingAt, IrqAt, PhyAt, Power, Refs, Ref1, Ref2, UserResumes, Shape, Ups, Downs,
          Resets, UpPlaces, DownPlaces
<1>13. Others(d, wi, wc, yc)'
  BY <1>0, <1>1, <1>5
    DEF Parts, Alone, Others, Device, DownState, UpState, Between, Enabled, Off, HalfOpen,
          Quiet, Netdev, Flex, RunningAt, RingAt, IrqAt, PhyAt
<1>14. Parts(j, d, wi, wc, pi, pc, yi, yc)'
  BY <1>6, <1>7, <1>8, <1>9, <1>10, <1>11, <1>12, <1>13 DEF Parts
<1> QED
  BY <1>5, <1>14, UserArrives

(* The user's thread attaches the net device. *)
LEMMA UserAttach ==
  ASSUME NEW ui, NEW uc, NEW wi, NEW wc, NEW pi, NEW pc, NEW yi, NEW yc,
         Good(ui, uc, wi, wc, pi, pc, yi, yc), Step("user"), At("user", "attach")
  PROVE  IInv'
<1>0. Parts(ui, uc, wi, wc, pi, pc, yi, yc) /\ Alone(ui, uc, pi, pc)
  BY MasterAlone DEF Good
<1>1. /\ present' = TRUE
      /\ Then("user")
      /\ UNCHANGED <<rtnl, running, carrier, flags, queued, ring, irq, napi, hw, phy, rpm,
        usage, idle, asleep, gone>>
  BY DoesAttach
<1>2. /\ ui \in Routines /\ uc \in Places /\ Rest(ui, uc) # <<>>
      /\ First(ui, uc) = "attach"
  BY UserFrom
<1>3. \/ ui = "none" /\ uc = "parent2" /\ After(ui, uc) = Rest("none", "parent3")
      \/ ui = "none" /\ uc = "oget2" /\ After(ui, uc) = Rest("none", "oget3")
      \/ ui = "none" /\ uc = "cget2" /\ After(ui, uc) = Rest("none", "cget3")
      \/ ui = "none" /\ uc = "lget2" /\ After(ui, uc) = Rest("none", "lget3")
      \/ ui = "none" /\ uc = "bget2" /\ After(ui, uc) = Rest("none", "bget3")
      \/ ui = "none" /\ uc = "sget2" /\ After(ui, uc) = Rest("none", "sget3")
  BY <1>0, <1>2, AtAttach DEF Parts, Shape, Ups, Downs, Resets, UserPlaces
<1>4. todo' = [todo EXCEPT !["user"] = After(ui, uc)]
  BY <1>1, UserFrom
<1>5. PICK j, d : /\ todo' = [todo EXCEPT !["user"] = Rest(j, d)]
             /\ \/ ui = "none" /\ uc = "parent2" /\ j = "none" /\ d = "parent3"
                \/ ui = "none" /\ uc = "oget2" /\ j = "none" /\ d = "oget3"
                \/ ui = "none" /\ uc = "cget2" /\ j = "none" /\ d = "cget3"
                \/ ui = "none" /\ uc = "lget2" /\ j = "none" /\ d = "lget3"
                \/ ui = "none" /\ uc = "bget2" /\ j = "none" /\ d = "bget3"
                \/ ui = "none" /\ uc = "sget2" /\ j = "none" /\ d = "sget3"
  BY <1>3, <1>4
<1>6. Types'
  BY <1>0, <1>1, <1>5 DEF Parts, Types
<1>7. Shape(j, d, wi, wc, pi, pc, yi, yc)'
  BY <1>0, <1>1, <1>5 DEF Parts, Shape, Ups, Downs, Resets, UpPlaces, DownPlaces, UserPlaces
<1>8. Lock(d, wc, pc)'
  BY <1>0, <1>1, <1>5 DEF Parts, Lock, Locked
<1>9. Power(d, pc)'
  BY <1>0, <1>1, <1>5 DEF Parts, Power, Refs, Ref1, Ref2, UserResumes
<1>10. Netdev(j, d, pi, pc)'
  BY <1>0, <1>1, <1>5 DEF Parts, Netdev, Flex, RunningAt, RingAt, IrqAt, PhyAt
<1>11. Device(j, d, pi, pc)'
  BY <1>0, <1>1, <1>5
    DEF Parts, Device, DownState, UpState, Between, Enabled, Off, HalfOpen, Quiet
<1>12. Napi(j, d, wi, pi, pc, yi)'
  BY <1>0, <1>1, <1>5 DEF Parts, Napi, Holds, Starts, Off, HalfOpen, Quiet
<1>13. Others(d, wi, wc, yc)'
  BY <1>0, <1>1, <1>5
    DEF Parts, Alone, Others, Device, DownState, UpState, Between, Enabled, Off, HalfOpen,
          Quiet, Netdev, Flex, RunningAt, RingAt, IrqAt, PhyAt
<1>14. Parts(j, d, wi, wc, pi, pc, yi, yc)'
  BY <1>6, <1>7, <1>8, <1>9, <1>10, <1>11, <1>12, <1>13 DEF Parts
<1> QED
  BY <1>5, <1>14, UserArrives

(* The user's thread marks it no longer running. *)
LEMMA UserStop ==
  ASSUME NEW ui, NEW uc, NEW wi, NEW wc, NEW pi, NEW pc, NEW yi, NEW yc,
         Good(ui, uc, wi, wc, pi, pc, yi, yc), Step("user"), At("user", "stop")
  PROVE  IInv'
<1>0. Parts(ui, uc, wi, wc, pi, pc, yi, yc) /\ Alone(ui, uc, pi, pc)
  BY MasterAlone DEF Good
<1>1. /\ running' = FALSE
      /\ Then("user")
      /\ UNCHANGED <<rtnl, present, carrier, flags, queued, ring, irq, napi, hw, phy, rpm,
        usage, idle, asleep, gone>>
  BY DoesStop
<1>2. /\ ui \in Routines /\ uc \in Places /\ Rest(ui, uc) # <<>>
      /\ First(ui, uc) = "stop"
  BY UserFrom
<1>3. \/ ui = "none" /\ uc = "unwind3" /\ After(ui, uc) = Rest("none", "open8")
      \/ ui = "none" /\ uc = "close2" /\ After(ui, uc) = Rest("none", "close3")
      \/ ui = "none" /\ uc = "leave2" /\ After(ui, uc) = Rest("none", "leave3")
  BY <1>0, <1>2, AtStop DEF Parts, Shape, Ups, Downs, Resets, UserPlaces
<1>4. todo' = [todo EXCEPT !["user"] = After(ui, uc)]
  BY <1>1, UserFrom
<1>5. PICK j, d : /\ todo' = [todo EXCEPT !["user"] = Rest(j, d)]
             /\ \/ ui = "none" /\ uc = "unwind3" /\ j = "none" /\ d = "open8"
                \/ ui = "none" /\ uc = "close2" /\ j = "none" /\ d = "close3"
                \/ ui = "none" /\ uc = "leave2" /\ j = "none" /\ d = "leave3"
  BY <1>3, <1>4
<1>6. Types'
  BY <1>0, <1>1, <1>5 DEF Parts, Types
<1>7. Shape(j, d, wi, wc, pi, pc, yi, yc)'
  BY <1>0, <1>1, <1>5 DEF Parts, Shape, Ups, Downs, Resets, UpPlaces, DownPlaces, UserPlaces
<1>8. Lock(d, wc, pc)'
  BY <1>0, <1>1, <1>5 DEF Parts, Lock, Locked
<1>9. Power(d, pc)'
  BY <1>0, <1>1, <1>5 DEF Parts, Power, Refs, Ref1, Ref2, UserResumes
<1>10. Netdev(j, d, pi, pc)'
  BY <1>0, <1>1, <1>5 DEF Parts, Netdev, Flex, RunningAt, RingAt, IrqAt, PhyAt
<1>11. Device(j, d, pi, pc)'
  BY <1>0, <1>1, <1>5
    DEF Parts, Device, DownState, UpState, Between, Enabled, Off, HalfOpen, Quiet
<1>12. Napi(j, d, wi, pi, pc, yi)'
  BY <1>0, <1>1, <1>5 DEF Parts, Napi, Holds, Starts, Off, HalfOpen, Quiet
<1>13. Others(d, wi, wc, yc)'
  BY <1>0, <1>1, <1>5
    DEF Parts, Alone, Others, Device, DownState, UpState, Between, Enabled, Off, HalfOpen,
          Quiet, Netdev, Flex, RunningAt, RingAt, IrqAt, PhyAt
<1>14. Parts(j, d, wi, wc, pi, pc, yi, yc)'
  BY <1>6, <1>7, <1>8, <1>9, <1>10, <1>11, <1>12, <1>13 DEF Parts
<1> QED
  BY <1>5, <1>14, UserArrives

(* The user's thread frees the rings. *)
LEMMA UserFree ==
  ASSUME NEW ui, NEW uc, NEW wi, NEW wc, NEW pi, NEW pc, NEW yi, NEW yc,
         Good(ui, uc, wi, wc, pi, pc, yi, yc), Step("user"), At("user", "free")
  PROVE  IInv'
<1>0. Parts(ui, uc, wi, wc, pi, pc, yi, yc) /\ Alone(ui, uc, pi, pc)
  BY MasterAlone DEF Good
<1>1. /\ ring' = FALSE
      /\ Then("user")
      /\ UNCHANGED <<rtnl, running, present, carrier, flags, queued, irq, napi, hw, phy,
        rpm, usage, idle, asleep, gone>>
  BY DoesFree
<1>2. /\ ui \in Routines /\ uc \in Places /\ Rest(ui, uc) # <<>>
      /\ First(ui, uc) = "free"
  BY UserFrom
<1>3. \/ ui = "none" /\ uc = "unwind2" /\ After(ui, uc) = Rest("none", "unwind3")
      \/ ui = "none" /\ uc = "close7" /\ After(ui, uc) = Rest("none", "open8")
      \/ ui = "none" /\ uc = "leave7" /\ After(ui, uc) = Rest("none", "leave8")
  BY <1>0, <1>2, AtFree DEF Parts, Shape, Ups, Downs, Resets, UserPlaces
<1>4. todo' = [todo EXCEPT !["user"] = After(ui, uc)]
  BY <1>1, UserFrom
<1>5. PICK j, d : /\ todo' = [todo EXCEPT !["user"] = Rest(j, d)]
             /\ \/ ui = "none" /\ uc = "unwind2" /\ j = "none" /\ d = "unwind3"
                \/ ui = "none" /\ uc = "close7" /\ j = "none" /\ d = "open8"
                \/ ui = "none" /\ uc = "leave7" /\ j = "none" /\ d = "leave8"
  BY <1>3, <1>4
<1>6. Types'
  BY <1>0, <1>1, <1>5 DEF Parts, Types
<1>7. Shape(j, d, wi, wc, pi, pc, yi, yc)'
  BY <1>0, <1>1, <1>5 DEF Parts, Shape, Ups, Downs, Resets, UpPlaces, DownPlaces, UserPlaces
<1>8. Lock(d, wc, pc)'
  BY <1>0, <1>1, <1>5 DEF Parts, Lock, Locked
<1>9. Power(d, pc)'
  BY <1>0, <1>1, <1>5 DEF Parts, Power, Refs, Ref1, Ref2, UserResumes
<1>10. Netdev(j, d, pi, pc)'
  BY <1>0, <1>1, <1>5
    DEF Parts, Alone, Netdev, Flex, RunningAt, RingAt, IrqAt, PhyAt, Ref1, Ref2
<1>11. Device(j, d, pi, pc)'
  BY <1>0, <1>1, <1>5
    DEF Parts, Device, DownState, UpState, Between, Enabled, Off, HalfOpen, Quiet
<1>12. Napi(j, d, wi, pi, pc, yi)'
  BY <1>0, <1>1, <1>5 DEF Parts, Napi, Holds, Starts, Off, HalfOpen, Quiet
<1>13. Others(d, wi, wc, yc)'
  BY <1>0, <1>1, <1>5
    DEF Parts, Alone, Others, Device, DownState, UpState, Between, Enabled, Off, HalfOpen,
          Quiet, Netdev, Flex, RunningAt, RingAt, IrqAt, PhyAt
<1>14. Parts(j, d, wi, wc, pi, pc, yi, yc)'
  BY <1>6, <1>7, <1>8, <1>9, <1>10, <1>11, <1>12, <1>13 DEF Parts
<1> QED
  BY <1>5, <1>14, UserArrives

(* The user's thread removes the handler. *)
LEMMA UserFreeIrq ==
  ASSUME NEW ui, NEW uc, NEW wi, NEW wc, NEW pi, NEW pc, NEW yi, NEW yc,
         Good(ui, uc, wi, wc, pi, pc, yi, yc), Step("user"), At("user", "free_irq")
  PROVE  IInv'
<1>0. Parts(ui, uc, wi, wc, pi, pc, yi, yc) /\ Alone(ui, uc, pi, pc)
  BY MasterAlone DEF Good
<1>1. /\ irq' = FALSE
      /\ Then("user")
      /\ UNCHANGED <<rtnl, running, present, carrier, flags, queued, ring, napi, hw, phy,
        rpm, usage, idle, asleep, gone>>
  BY DoesFreeIrq
<1>2. /\ ui \in Routines /\ uc \in Places /\ Rest(ui, uc) # <<>>
      /\ First(ui, uc) = "free_irq"
  BY UserFrom
<1>3. \/ ui = "none" /\ uc = "unwind1" /\ After(ui, uc) = Rest("none", "unwind2")
      \/ ui = "none" /\ uc = "close5" /\ After(ui, uc) = Rest("none", "close6")
      \/ ui = "none" /\ uc = "leave5" /\ After(ui, uc) = Rest("none", "leave6")
  BY <1>0, <1>2, AtFreeIrq DEF Parts, Shape, Ups, Downs, Resets, UserPlaces
<1>4. todo' = [todo EXCEPT !["user"] = After(ui, uc)]
  BY <1>1, UserFrom
<1>5. PICK j, d : /\ todo' = [todo EXCEPT !["user"] = Rest(j, d)]
             /\ \/ ui = "none" /\ uc = "unwind1" /\ j = "none" /\ d = "unwind2"
                \/ ui = "none" /\ uc = "close5" /\ j = "none" /\ d = "close6"
                \/ ui = "none" /\ uc = "leave5" /\ j = "none" /\ d = "leave6"
  BY <1>3, <1>4
<1>6. Types'
  BY <1>0, <1>1, <1>5 DEF Parts, Types
<1>7. Shape(j, d, wi, wc, pi, pc, yi, yc)'
  BY <1>0, <1>1, <1>5 DEF Parts, Shape, Ups, Downs, Resets, UpPlaces, DownPlaces, UserPlaces
<1>8. Lock(d, wc, pc)'
  BY <1>0, <1>1, <1>5 DEF Parts, Lock, Locked
<1>9. Power(d, pc)'
  BY <1>0, <1>1, <1>5 DEF Parts, Power, Refs, Ref1, Ref2, UserResumes
<1>10. Netdev(j, d, pi, pc)'
  BY <1>0, <1>1, <1>5 DEF Parts, Netdev, Flex, RunningAt, RingAt, IrqAt, PhyAt
<1>11. Device(j, d, pi, pc)'
  BY <1>0, <1>1, <1>5
    DEF Parts, Device, DownState, UpState, Between, Enabled, Off, HalfOpen, Quiet
<1>12. Napi(j, d, wi, pi, pc, yi)'
  BY <1>0, <1>1, <1>5 DEF Parts, Napi, Holds, Starts, Off, HalfOpen, Quiet
<1>13. Others(d, wi, wc, yc)'
  BY <1>0, <1>1, <1>5
    DEF Parts, Alone, Others, Device, DownState, UpState, Between, Enabled, Off, HalfOpen,
          Quiet, Netdev, Flex, RunningAt, RingAt, IrqAt, PhyAt
<1>14. Parts(j, d, wi, wc, pi, pc, yi, yc)'
  BY <1>6, <1>7, <1>8, <1>9, <1>10, <1>11, <1>12, <1>13 DEF Parts
<1> QED
  BY <1>5, <1>14, UserArrives

(* The user's thread disconnects the phy. *)
LEMMA UserPhyDisconnect ==
  ASSUME NEW ui, NEW uc, NEW wi, NEW wc, NEW pi, NEW pc, NEW yi, NEW yc,
         Good(ui, uc, wi, wc, pi, pc, yi, yc), Step("user"), At("user", "phy_disconnect")
  PROVE  IInv'
<1>0. Parts(ui, uc, wi, wc, pi, pc, yi, yc) /\ Alone(ui, uc, pi, pc)
  BY MasterAlone DEF Good
<1>1. /\ phy' = "none"
      /\ Then("user")
      /\ UNCHANGED <<rtnl, running, present, carrier, flags, queued, ring, irq, napi, hw,
        rpm, usage, idle, asleep, gone>>
  BY DoesPhyDisconnect
<1>2. /\ ui \in Routines /\ uc \in Places /\ Rest(ui, uc) # <<>>
      /\ First(ui, uc) = "phy_disconnect"
  BY UserFrom
<1>3. \/ ui = "none" /\ uc = "close6" /\ After(ui, uc) = Rest("none", "close7")
      \/ ui = "none" /\ uc = "leave6" /\ After(ui, uc) = Rest("none", "leave7")
  BY <1>0, <1>2, AtPhyDisconnect DEF Parts, Shape, Ups, Downs, Resets, UserPlaces
<1>4. todo' = [todo EXCEPT !["user"] = After(ui, uc)]
  BY <1>1, UserFrom
<1>5. PICK j, d : /\ todo' = [todo EXCEPT !["user"] = Rest(j, d)]
             /\ \/ ui = "none" /\ uc = "close6" /\ j = "none" /\ d = "close7"
                \/ ui = "none" /\ uc = "leave6" /\ j = "none" /\ d = "leave7"
  BY <1>3, <1>4
<1>6. Types'
  BY <1>0, <1>1, <1>5 DEF Parts, Types
<1>7. Shape(j, d, wi, wc, pi, pc, yi, yc)'
  BY <1>0, <1>1, <1>5 DEF Parts, Shape, Ups, Downs, Resets, UpPlaces, DownPlaces, UserPlaces
<1>8. Lock(d, wc, pc)'
  BY <1>0, <1>1, <1>5 DEF Parts, Lock, Locked
<1>9. Power(d, pc)'
  BY <1>0, <1>1, <1>5 DEF Parts, Power, Refs, Ref1, Ref2, UserResumes
<1>10. Netdev(j, d, pi, pc)'
  BY <1>0, <1>1, <1>5 DEF Parts, Netdev, Flex, RunningAt, RingAt, IrqAt, PhyAt
<1>11. Device(j, d, pi, pc)'
  BY <1>0, <1>1, <1>5
    DEF Parts, Alone, Device, DownState, UpState, Between, Enabled, Off, HalfOpen, Quiet,
          Netdev, Flex, RunningAt, RingAt, IrqAt, PhyAt, Power, Refs, Ref1, Ref2,
          UserResumes, Shape, Ups, Downs, Resets, UpPlaces, DownPlaces
<1>12. Napi(j, d, wi, pi, pc, yi)'
  BY <1>0, <1>1, <1>5 DEF Parts, Napi, Holds, Starts, Off, HalfOpen, Quiet
<1>13. Others(d, wi, wc, yc)'
  BY <1>0, <1>1, <1>5
    DEF Parts, Alone, Others, Device, DownState, UpState, Between, Enabled, Off, HalfOpen,
          Quiet, Netdev, Flex, RunningAt, RingAt, IrqAt, PhyAt, Ref1, Ref2
<1>14. Parts(j, d, wi, wc, pi, pc, yi, yc)'
  BY <1>6, <1>7, <1>8, <1>9, <1>10, <1>11, <1>12, <1>13 DEF Parts
<1> QED
  BY <1>5, <1>14, UserArrives

(* The user's thread cancels the work item. *)
LEMMA UserCancelWork ==
  ASSUME NEW ui, NEW uc, NEW wi, NEW wc, NEW pi, NEW pc, NEW yi, NEW yc,
         Good(ui, uc, wi, wc, pi, pc, yi, yc), Step("user"), At("user", "cancel_work")
  PROVE  IInv'
<1>0. Parts(ui, uc, wi, wc, pi, pc, yi, yc) /\ Alone(ui, uc, pi, pc)
  BY MasterAlone DEF Good
<1>1. /\ Idle("worker") /\ queued' = FALSE
      /\ Then("user")
      /\ UNCHANGED <<rtnl, running, present, carrier, flags, ring, irq, napi, hw, phy, rpm,
        usage, idle, asleep, gone>>
  BY DoesCancelWork
<1>2. /\ ui \in Routines /\ uc \in Places /\ Rest(ui, uc) # <<>>
      /\ First(ui, uc) = "cancel_work"
  BY UserFrom
<1>3. \/ ui = "none" /\ uc = "close4" /\ After(ui, uc) = Rest("none", "close5")
      \/ ui = "none" /\ uc = "leave4" /\ After(ui, uc) = Rest("none", "leave5")
  BY <1>0, <1>2, AtCancelWork DEF Parts, Shape, Ups, Downs, Resets, UserPlaces
<1>4. todo' = [todo EXCEPT !["user"] = After(ui, uc)]
  BY <1>1, UserFrom
<1>5. PICK j, d : /\ todo' = [todo EXCEPT !["user"] = Rest(j, d)]
             /\ \/ ui = "none" /\ uc = "close4" /\ j = "none" /\ d = "close5"
                \/ ui = "none" /\ uc = "leave4" /\ j = "none" /\ d = "leave5"
  BY <1>3, <1>4
<1>w. wc = "end"
  BY <1>1, WorkerFrom, EmptyAt DEF Idle
<1>6. Types'
  BY <1>0, <1>1, <1>5 DEF Parts, Types
<1>7. Shape(j, d, wi, wc, pi, pc, yi, yc)'
  BY <1>0, <1>1, <1>5 DEF Parts, Shape, Ups, Downs, Resets, UpPlaces, DownPlaces, UserPlaces
<1>8. Lock(d, wc, pc)'
  BY <1>0, <1>1, <1>5 DEF Parts, Lock, Locked
<1>9. Power(d, pc)'
  BY <1>0, <1>1, <1>5 DEF Parts, Power, Refs, Ref1, Ref2, UserResumes
<1>10. Netdev(j, d, pi, pc)'
  BY <1>0, <1>1, <1>5 DEF Parts, Netdev, Flex, RunningAt, RingAt, IrqAt, PhyAt
<1>11. Device(j, d, pi, pc)'
  BY <1>0, <1>1, <1>5
    DEF Parts, Device, DownState, UpState, Between, Enabled, Off, HalfOpen, Quiet
<1>12. Napi(j, d, wi, pi, pc, yi)'
  BY <1>0, <1>1, <1>5 DEF Parts, Napi, Holds, Starts, Off, HalfOpen, Quiet
<1>13. Others(d, wi, wc, yc)'
  BY <1>0, <1>1, <1>5, <1>w
    DEF Parts, Alone, Others, Device, DownState, UpState, Between, Enabled, Off, HalfOpen,
          Quiet, Netdev, Flex, RunningAt, RingAt, IrqAt, PhyAt
<1>14. Parts(j, d, wi, wc, pi, pc, yi, yc)'
  BY <1>6, <1>7, <1>8, <1>9, <1>10, <1>11, <1>12, <1>13 DEF Parts
<1> QED
  BY <1>5, <1>14, UserArrives

(* The user's thread ends the removal. *)
LEMMA UserRemoved ==
  ASSUME NEW ui, NEW uc, NEW wi, NEW wc, NEW pi, NEW pc, NEW yi, NEW yc,
         Good(ui, uc, wi, wc, pi, pc, yi, yc), Step("user"), At("user", "removed")
  PROVE  IInv'
<1>0. Parts(ui, uc, wi, wc, pi, pc, yi, yc) /\ Alone(ui, uc, pi, pc)
  BY MasterAlone DEF Good
<1>1. /\ gone' = "removed"
      /\ Then("user")
      /\ UNCHANGED <<rtnl, running, present, carrier, flags, queued, ring, irq, napi, hw,
        phy, rpm, usage, idle, asleep>>
  BY DoesRemoved
<1>2. /\ ui \in Routines /\ uc \in Places /\ Rest(ui, uc) # <<>>
      /\ First(ui, uc) = "removed"
  BY UserFrom
<1>3. \/ ui = "none" /\ uc = "removed" /\ After(ui, uc) = Rest("none", "end")
  BY <1>0, <1>2, AtRemoved DEF Parts, Shape, Ups, Downs, Resets, UserPlaces
<1>4. todo' = [todo EXCEPT !["user"] = After(ui, uc)]
  BY <1>1, UserFrom
<1>5. PICK j, d : /\ todo' = [todo EXCEPT !["user"] = Rest(j, d)]
             /\ \/ ui = "none" /\ uc = "removed" /\ j = "none" /\ d = "end"
  BY <1>3, <1>4
<1>6. Types'
  BY <1>0, <1>1, <1>5 DEF Parts, Types
<1>7. Shape(j, d, wi, wc, pi, pc, yi, yc)'
  BY <1>0, <1>1, <1>5 DEF Parts, Shape, Ups, Downs, Resets, UpPlaces, DownPlaces, UserPlaces
<1>8. Lock(d, wc, pc)'
  BY <1>0, <1>1, <1>5 DEF Parts, Lock, Locked
<1>9. Power(d, pc)'
  BY <1>0, <1>1, <1>5 DEF Parts, Power, Refs, Ref1, Ref2, UserResumes
<1>10. Netdev(j, d, pi, pc)'
  BY <1>0, <1>1, <1>5 DEF Parts, Netdev, Flex, RunningAt, RingAt, IrqAt, PhyAt
<1>11. Device(j, d, pi, pc)'
  BY <1>0, <1>1, <1>5
    DEF Parts, Alone, Device, DownState, UpState, Between, Enabled, Off, HalfOpen, Quiet,
          Netdev, Flex, RunningAt, RingAt, IrqAt, PhyAt
<1>12. Napi(j, d, wi, pi, pc, yi)'
  BY <1>0, <1>1, <1>5
    DEF Parts, Alone, Napi, Holds, Starts, Off, HalfOpen, Quiet, Netdev, Flex, RunningAt,
          RingAt, IrqAt, PhyAt
<1>13. Others(d, wi, wc, yc)'
  BY <1>0, <1>1, <1>5
    DEF Parts, Alone, Others, Device, DownState, UpState, Between, Enabled, Off, HalfOpen,
          Quiet, Netdev, Flex, RunningAt, RingAt, IrqAt, PhyAt
<1>14. Parts(j, d, wi, wc, pi, pc, yi, yc)'
  BY <1>6, <1>7, <1>8, <1>9, <1>10, <1>11, <1>12, <1>13 DEF Parts
<1> QED
  BY <1>5, <1>14, UserArrives

(* The user's thread ends the shutdown. *)
LEMMA UserShutdown ==
  ASSUME NEW ui, NEW uc, NEW wi, NEW wc, NEW pi, NEW pc, NEW yi, NEW yc,
         Good(ui, uc, wi, wc, pi, pc, yi, yc), Step("user"), At("user", "shutdown")
  PROVE  IInv'
<1>0. Parts(ui, uc, wi, wc, pi, pc, yi, yc) /\ Alone(ui, uc, pi, pc)
  BY MasterAlone DEF Good
<1>1. /\ gone' = "shutdown"
      /\ Then("user")
      /\ UNCHANGED <<rtnl, running, present, carrier, flags, queued, ring, irq, napi, hw,
        phy, rpm, usage, idle, asleep>>
  BY DoesShutdown
<1>2. /\ ui \in Routines /\ uc \in Places /\ Rest(ui, uc) # <<>>
      /\ First(ui, uc) = "shutdown"
  BY UserFrom
<1>3. \/ ui = "none" /\ uc = "shut6" /\ After(ui, uc) = Rest("none", "end")
  BY <1>0, <1>2, AtShutdown DEF Parts, Shape, Ups, Downs, Resets, UserPlaces
<1>4. todo' = [todo EXCEPT !["user"] = After(ui, uc)]
  BY <1>1, UserFrom
<1>5. PICK j, d : /\ todo' = [todo EXCEPT !["user"] = Rest(j, d)]
             /\ \/ ui = "none" /\ uc = "shut6" /\ j = "none" /\ d = "end"
  BY <1>3, <1>4
<1>6. Types'
  BY <1>0, <1>1, <1>5 DEF Parts, Types
<1>7. Shape(j, d, wi, wc, pi, pc, yi, yc)'
  BY <1>0, <1>1, <1>5 DEF Parts, Shape, Ups, Downs, Resets, UpPlaces, DownPlaces, UserPlaces
<1>8. Lock(d, wc, pc)'
  BY <1>0, <1>1, <1>5 DEF Parts, Lock, Locked
<1>9. Power(d, pc)'
  BY <1>0, <1>1, <1>5 DEF Parts, Power, Refs, Ref1, Ref2, UserResumes
<1>10. Netdev(j, d, pi, pc)'
  BY <1>0, <1>1, <1>5 DEF Parts, Netdev, Flex, RunningAt, RingAt, IrqAt, PhyAt
<1>11. Device(j, d, pi, pc)'
  BY <1>0, <1>1, <1>5
    DEF Parts, Device, DownState, UpState, Between, Enabled, Off, HalfOpen, Quiet
<1>12. Napi(j, d, wi, pi, pc, yi)'
  BY <1>0, <1>1, <1>5 DEF Parts, Napi, Holds, Starts, Off, HalfOpen, Quiet
<1>13. Others(d, wi, wc, yc)'
  BY <1>0, <1>1, <1>5
    DEF Parts, Alone, Others, Device, DownState, UpState, Between, Enabled, Off, HalfOpen,
          Quiet, Netdev, Flex, RunningAt, RingAt, IrqAt, PhyAt
<1>14. Parts(j, d, wi, wc, pi, pc, yi, yc)'
  BY <1>6, <1>7, <1>8, <1>9, <1>10, <1>11, <1>12, <1>13 DEF Parts
<1> QED
  BY <1>5, <1>14, UserArrives

(* The user's thread detaches the net device. *)
LEMMA UserDetach ==
  ASSUME NEW ui, NEW uc, NEW wi, NEW wc, NEW pi, NEW pc, NEW yi, NEW yc,
         Good(ui, uc, wi, wc, pi, pc, yi, yc), Step("user"), At("user", "detach")
  PROVE  IInv'
<1>0. Parts(ui, uc, wi, wc, pi, pc, yi, yc) /\ Alone(ui, uc, pi, pc)
  BY MasterAlone DEF Good
<1>1. /\ present' = FALSE
      /\ Then("user")
      /\ UNCHANGED <<rtnl, running, carrier, flags, queued, ring, irq, napi, hw, phy, rpm,
        usage, idle, asleep, gone>>
  BY DoesDetach
<1>2. /\ ui \in Routines /\ uc \in Places /\ Rest(ui, uc) # <<>>
      /\ First(ui, uc) = "detach"
  BY UserFrom
<1>3. \/ ui = "none" /\ uc = "shut3" /\ After(ui, uc) = Rest("none", "shut4")
  BY <1>0, <1>2, AtDetach DEF Parts, Shape, Ups, Downs, Resets, UserPlaces
<1>4. todo' = [todo EXCEPT !["user"] = After(ui, uc)]
  BY <1>1, UserFrom
<1>5. PICK j, d : /\ todo' = [todo EXCEPT !["user"] = Rest(j, d)]
             /\ \/ ui = "none" /\ uc = "shut3" /\ j = "none" /\ d = "shut4"
  BY <1>3, <1>4
<1>6. Types'
  BY <1>0, <1>1, <1>5 DEF Parts, Types
<1>7. Shape(j, d, wi, wc, pi, pc, yi, yc)'
  BY <1>0, <1>1, <1>5 DEF Parts, Shape, Ups, Downs, Resets, UpPlaces, DownPlaces, UserPlaces
<1>8. Lock(d, wc, pc)'
  BY <1>0, <1>1, <1>5 DEF Parts, Lock, Locked
<1>9. Power(d, pc)'
  BY <1>0, <1>1, <1>5 DEF Parts, Power, Refs, Ref1, Ref2, UserResumes
<1>10. Netdev(j, d, pi, pc)'
  BY <1>0, <1>1, <1>5 DEF Parts, Netdev, Flex, RunningAt, RingAt, IrqAt, PhyAt
<1>11. Device(j, d, pi, pc)'
  BY <1>0, <1>1, <1>5
    DEF Parts, Device, DownState, UpState, Between, Enabled, Off, HalfOpen, Quiet
<1>12. Napi(j, d, wi, pi, pc, yi)'
  BY <1>0, <1>1, <1>5 DEF Parts, Napi, Holds, Starts, Off, HalfOpen, Quiet
<1>13. Others(d, wi, wc, yc)'
  BY <1>0, <1>1, <1>5
    DEF Parts, Alone, Others, Device, DownState, UpState, Between, Enabled, Off, HalfOpen,
          Quiet, Netdev, Flex, RunningAt, RingAt, IrqAt, PhyAt
<1>14. Parts(j, d, wi, wc, pi, pc, yi, yc)'
  BY <1>6, <1>7, <1>8, <1>9, <1>10, <1>11, <1>12, <1>13 DEF Parts
<1> QED
  BY <1>5, <1>14, UserArrives

(* The work item enables NAPI. *)
LEMMA WorkerNapiEnable ==
  ASSUME NEW ui, NEW uc, NEW wi, NEW wc, NEW pi, NEW pc, NEW yi, NEW yc,
         Good(ui, uc, wi, wc, pi, pc, yi, yc), Step("worker"), At("worker", "napi_enable")
  PROVE  IInv'
<1>0. Parts(ui, uc, wi, wc, pi, pc, yi, yc) /\ Alone(ui, uc, pi, pc)
  BY MasterAlone DEF Good
<1>1. /\ napi' = TRUE
      /\ Then("worker")
      /\ UNCHANGED <<rtnl, running, present, carrier, flags, queued, ring, irq, hw, phy,
        rpm, usage, idle, asleep, gone>>
  BY DoesNapiEnable
<1>2. /\ wi \in Routines /\ wc \in Places /\ Rest(wi, wc) # <<>>
      /\ First(wi, wc) = "napi_enable"
  BY WorkerFrom
<1>3. \/ wi = "reset3" /\ After(wi, wc) = Rest("reset4", wc)
  BY <1>0, <1>2, AtNapiEnable DEF Parts, Shape, Ups, Downs, Resets, WorkerPlaces
<1>4. todo' = [todo EXCEPT !["worker"] = After(wi, wc)]
  BY <1>1, WorkerFrom
<1>5. PICK j, d : /\ todo' = [todo EXCEPT !["worker"] = Rest(j, d)]
             /\ \/ wi = "reset3" /\ j = "reset4" /\ d = wc
  BY <1>3, <1>4
<1>6. Types'
  BY <1>0, <1>1, <1>5 DEF Parts, Types
<1>7. Shape(ui, uc, j, d, pi, pc, yi, yc)'
  BY <1>0, <1>1, <1>5
    DEF Parts, Shape, Ups, Downs, Resets, UpPlaces, DownPlaces, WorkerPlaces
<1>8. Lock(uc, d, pc)'
  BY <1>0, <1>1, <1>5 DEF Parts, Lock, Locked
<1>9. Power(uc, pc)'
  BY <1>0, <1>1, <1>5 DEF Parts, Power, Refs, Ref1, Ref2, UserResumes
<1>10. Netdev(ui, uc, pi, pc)'
  BY <1>0, <1>1, <1>5 DEF Parts, Netdev, Flex, RunningAt, RingAt, IrqAt, PhyAt
<1>11. Device(ui, uc, pi, pc)'
  BY <1>0, <1>1, <1>5
    DEF Parts, Alone, Device, DownState, UpState, Between, Enabled, Off, HalfOpen, Quiet,
          Netdev, Flex, RunningAt, RingAt, IrqAt, PhyAt, Power, Refs, Ref1, Ref2,
          UserResumes, Shape, Ups, Downs, Resets, UpPlaces, DownPlaces, Others
<1>12. Napi(ui, uc, j, pi, pc, yi)'
  BY <1>0, <1>1, <1>5 DEF Parts, Napi, Holds, Starts, Off, HalfOpen, Quiet
<1>13. Others(uc, j, d, yc)'
  BY <1>0, <1>1, <1>5
    DEF Parts, Alone, Others, Device, DownState, UpState, Between, Enabled, Off, HalfOpen,
          Quiet, Netdev, Flex, RunningAt, RingAt, IrqAt, PhyAt
<1>14. Parts(ui, uc, j, d, pi, pc, yi, yc)'
  BY <1>6, <1>7, <1>8, <1>9, <1>10, <1>11, <1>12, <1>13 DEF Parts
<1> QED
  BY <1>5, <1>14, WorkerArrives

(* The work item disables NAPI. *)
LEMMA WorkerNapiDisable ==
  ASSUME NEW ui, NEW uc, NEW wi, NEW wc, NEW pi, NEW pc, NEW yi, NEW yc,
         Good(ui, uc, wi, wc, pi, pc, yi, yc), Step("worker"), At("worker", "napi_disable")
  PROVE  IInv'
<1>0. Parts(ui, uc, wi, wc, pi, pc, yi, yc) /\ Alone(ui, uc, pi, pc)
  BY MasterAlone DEF Good
<1>1. /\ napi /\ napi' = FALSE
      /\ Then("worker")
      /\ UNCHANGED <<rtnl, running, present, carrier, flags, queued, ring, irq, hw, phy,
        rpm, usage, idle, asleep, gone>>
  BY DoesNapiDisable
<1>2. /\ wi \in Routines /\ wc \in Places /\ Rest(wi, wc) # <<>>
      /\ First(wi, wc) = "napi_disable"
  BY WorkerFrom
<1>3. \/ wi = "reset1" /\ After(wi, wc) = Rest("reset2", wc)
  BY <1>0, <1>2, AtNapiDisable DEF Parts, Shape, Ups, Downs, Resets, WorkerPlaces
<1>4. todo' = [todo EXCEPT !["worker"] = After(wi, wc)]
  BY <1>1, WorkerFrom
<1>5. PICK j, d : /\ todo' = [todo EXCEPT !["worker"] = Rest(j, d)]
             /\ \/ wi = "reset1" /\ j = "reset2" /\ d = wc
  BY <1>3, <1>4
<1>6. Types'
  BY <1>0, <1>1, <1>5 DEF Parts, Types
<1>7. Shape(ui, uc, j, d, pi, pc, yi, yc)'
  BY <1>0, <1>1, <1>5
    DEF Parts, Shape, Ups, Downs, Resets, UpPlaces, DownPlaces, WorkerPlaces
<1>8. Lock(uc, d, pc)'
  BY <1>0, <1>1, <1>5 DEF Parts, Lock, Locked
<1>9. Power(uc, pc)'
  BY <1>0, <1>1, <1>5 DEF Parts, Power, Refs, Ref1, Ref2, UserResumes
<1>10. Netdev(ui, uc, pi, pc)'
  BY <1>0, <1>1, <1>5 DEF Parts, Netdev, Flex, RunningAt, RingAt, IrqAt, PhyAt
<1>11. Device(ui, uc, pi, pc)'
  BY <1>0, <1>1, <1>5
    DEF Parts, Device, DownState, UpState, Between, Enabled, Off, HalfOpen, Quiet
<1>12. Napi(ui, uc, j, pi, pc, yi)'
  BY <1>0, <1>1, <1>5 DEF Parts, Napi, Holds, Starts, Off, HalfOpen, Quiet
<1>13. Others(uc, j, d, yc)'
  BY <1>0, <1>1, <1>5
    DEF Parts, Alone, Others, Device, DownState, UpState, Between, Enabled, Off, HalfOpen,
          Quiet, Netdev, Flex, RunningAt, RingAt, IrqAt, PhyAt
<1>14. Parts(ui, uc, j, d, pi, pc, yi, yc)'
  BY <1>6, <1>7, <1>8, <1>9, <1>10, <1>11, <1>12, <1>13 DEF Parts
<1> QED
  BY <1>5, <1>14, WorkerArrives

(* The work item stops the chip and clears the rings. *)
LEMMA WorkerClear ==
  ASSUME NEW ui, NEW uc, NEW wi, NEW wc, NEW pi, NEW pc, NEW yi, NEW yc,
         Good(ui, uc, wi, wc, pi, pc, yi, yc), Step("worker"), At("worker", "clear")
  PROVE  IInv'
<1>0. Parts(ui, uc, wi, wc, pi, pc, yi, yc) /\ Alone(ui, uc, pi, pc)
  BY MasterAlone DEF Good
<1>1. /\ hw' = FALSE
      /\ Then("worker")
      /\ UNCHANGED <<rtnl, running, present, carrier, flags, queued, ring, irq, napi, phy,
        rpm, usage, idle, asleep, gone>>
  BY DoesClear
<1>2. /\ wi \in Routines /\ wc \in Places /\ Rest(wi, wc) # <<>>
      /\ First(wi, wc) = "clear"
  BY WorkerFrom
<1>3. \/ wi = "reset2" /\ After(wi, wc) = Rest("reset3", wc)
  BY <1>0, <1>2, AtClear DEF Parts, Shape, Ups, Downs, Resets, WorkerPlaces
<1>4. todo' = [todo EXCEPT !["worker"] = After(wi, wc)]
  BY <1>1, WorkerFrom
<1>5. PICK j, d : /\ todo' = [todo EXCEPT !["worker"] = Rest(j, d)]
             /\ \/ wi = "reset2" /\ j = "reset3" /\ d = wc
  BY <1>3, <1>4
<1>6. Types'
  BY <1>0, <1>1, <1>5 DEF Parts, Types
<1>7. Shape(ui, uc, j, d, pi, pc, yi, yc)'
  BY <1>0, <1>1, <1>5
    DEF Parts, Shape, Ups, Downs, Resets, UpPlaces, DownPlaces, WorkerPlaces
<1>8. Lock(uc, d, pc)'
  BY <1>0, <1>1, <1>5 DEF Parts, Lock, Locked
<1>9. Power(uc, pc)'
  BY <1>0, <1>1, <1>5 DEF Parts, Power, Refs, Ref1, Ref2, UserResumes
<1>10. Netdev(ui, uc, pi, pc)'
  BY <1>0, <1>1, <1>5 DEF Parts, Netdev, Flex, RunningAt, RingAt, IrqAt, PhyAt
<1>11. Device(ui, uc, pi, pc)'
  BY <1>0, <1>1, <1>5
    DEF Parts, Device, DownState, UpState, Between, Enabled, Off, HalfOpen, Quiet
<1>12. Napi(ui, uc, j, pi, pc, yi)'
  BY <1>0, <1>1, <1>5 DEF Parts, Napi, Holds, Starts, Off, HalfOpen, Quiet
<1>13. Others(uc, j, d, yc)'
  BY <1>0, <1>1, <1>5
    DEF Parts, Alone, Others, Device, DownState, UpState, Between, Enabled, Off, HalfOpen,
          Quiet, Netdev, Flex, RunningAt, RingAt, IrqAt, PhyAt
<1>14. Parts(ui, uc, j, d, pi, pc, yi, yc)'
  BY <1>6, <1>7, <1>8, <1>9, <1>10, <1>11, <1>12, <1>13 DEF Parts
<1> QED
  BY <1>5, <1>14, WorkerArrives

(* The work item starts the chip. *)
LEMMA WorkerHwStart ==
  ASSUME NEW ui, NEW uc, NEW wi, NEW wc, NEW pi, NEW pc, NEW yi, NEW yc,
         Good(ui, uc, wi, wc, pi, pc, yi, yc), Step("worker"), At("worker", "hw_start")
  PROVE  IInv'
<1>0. Parts(ui, uc, wi, wc, pi, pc, yi, yc) /\ Alone(ui, uc, pi, pc)
  BY MasterAlone DEF Good
<1>1. /\ hw' = TRUE
      /\ Then("worker")
      /\ UNCHANGED <<rtnl, running, present, carrier, flags, queued, ring, irq, napi, phy,
        rpm, usage, idle, asleep, gone>>
  BY DoesHwStart
<1>2. /\ wi \in Routines /\ wc \in Places /\ Rest(wi, wc) # <<>>
      /\ First(wi, wc) = "hw_start"
  BY WorkerFrom
<1>3. \/ wi = "reset4" /\ After(wi, wc) = Rest("none", wc)
  BY <1>0, <1>2, AtHwStart DEF Parts, Shape, Ups, Downs, Resets, WorkerPlaces
<1>4. todo' = [todo EXCEPT !["worker"] = After(wi, wc)]
  BY <1>1, WorkerFrom
<1>5. PICK j, d : /\ todo' = [todo EXCEPT !["worker"] = Rest(j, d)]
             /\ \/ wi = "reset4" /\ j = "none" /\ d = wc
  BY <1>3, <1>4
<1>6. Types'
  BY <1>0, <1>1, <1>5 DEF Parts, Types
<1>7. Shape(ui, uc, j, d, pi, pc, yi, yc)'
  BY <1>0, <1>1, <1>5
    DEF Parts, Shape, Ups, Downs, Resets, UpPlaces, DownPlaces, WorkerPlaces
<1>8. Lock(uc, d, pc)'
  BY <1>0, <1>1, <1>5 DEF Parts, Lock, Locked
<1>9. Power(uc, pc)'
  BY <1>0, <1>1, <1>5 DEF Parts, Power, Refs, Ref1, Ref2, UserResumes
<1>10. Netdev(ui, uc, pi, pc)'
  BY <1>0, <1>1, <1>5 DEF Parts, Netdev, Flex, RunningAt, RingAt, IrqAt, PhyAt
<1>11. Device(ui, uc, pi, pc)'
  BY <1>0, <1>1, <1>5
    DEF Parts, Alone, Device, DownState, UpState, Between, Enabled, Off, HalfOpen, Quiet,
          Netdev, Flex, RunningAt, RingAt, IrqAt, PhyAt, Power, Refs, Ref1, Ref2,
          UserResumes, Shape, Ups, Downs, Resets, UpPlaces, DownPlaces, Others
<1>12. Napi(ui, uc, j, pi, pc, yi)'
  BY <1>0, <1>1, <1>5 DEF Parts, Napi, Holds, Starts, Off, HalfOpen, Quiet
<1>13. Others(uc, j, d, yc)'
  BY <1>0, <1>1, <1>5
    DEF Parts, Alone, Others, Device, DownState, UpState, Between, Enabled, Off, HalfOpen,
          Quiet, Netdev, Flex, RunningAt, RingAt, IrqAt, PhyAt
<1>14. Parts(ui, uc, j, d, pi, pc, yi, yc)'
  BY <1>6, <1>7, <1>8, <1>9, <1>10, <1>11, <1>12, <1>13 DEF Parts
<1> QED
  BY <1>5, <1>14, WorkerArrives

(* The work item gives the rtnl lock back. *)
LEMMA WorkerUnrtnl ==
  ASSUME NEW ui, NEW uc, NEW wi, NEW wc, NEW pi, NEW pc, NEW yi, NEW yc,
         Good(ui, uc, wi, wc, pi, pc, yi, yc), Step("worker"), At("worker", "unrtnl")
  PROVE  IInv'
<1>0. Parts(ui, uc, wi, wc, pi, pc, yi, yc) /\ Alone(ui, uc, pi, pc)
  BY MasterAlone DEF Good
<1>1. /\ rtnl' = "none"
      /\ Then("worker")
      /\ UNCHANGED <<running, present, carrier, flags, queued, ring, irq, napi, hw, phy,
        rpm, usage, idle, asleep, gone>>
  BY DoesUnrtnl
<1>2. /\ wi \in Routines /\ wc \in Places /\ Rest(wi, wc) # <<>>
      /\ First(wi, wc) = "unrtnl"
  BY WorkerFrom
<1>3. \/ wi = "none" /\ wc = "task4" /\ After(wi, wc) = Rest("none", "end")
  BY <1>0, <1>2, AtUnrtnl DEF Parts, Shape, Ups, Downs, Resets, WorkerPlaces
<1>4. todo' = [todo EXCEPT !["worker"] = After(wi, wc)]
  BY <1>1, WorkerFrom
<1>5. PICK j, d : /\ todo' = [todo EXCEPT !["worker"] = Rest(j, d)]
             /\ \/ wi = "none" /\ wc = "task4" /\ j = "none" /\ d = "end"
  BY <1>3, <1>4
<1>6. Types'
  BY <1>0, <1>1, <1>5 DEF Parts, Types
<1>7. Shape(ui, uc, j, d, pi, pc, yi, yc)'
  BY <1>0, <1>1, <1>5
    DEF Parts, Shape, Ups, Downs, Resets, UpPlaces, DownPlaces, WorkerPlaces
<1>8. Lock(uc, d, pc)'
  BY <1>0, <1>1, <1>5 DEF Parts, Lock, Locked
<1>9. Power(uc, pc)'
  BY <1>0, <1>1, <1>5 DEF Parts, Power, Refs, Ref1, Ref2, UserResumes
<1>10. Netdev(ui, uc, pi, pc)'
  BY <1>0, <1>1, <1>5 DEF Parts, Netdev, Flex, RunningAt, RingAt, IrqAt, PhyAt
<1>11. Device(ui, uc, pi, pc)'
  BY <1>0, <1>1, <1>5
    DEF Parts, Device, DownState, UpState, Between, Enabled, Off, HalfOpen, Quiet
<1>12. Napi(ui, uc, j, pi, pc, yi)'
  BY <1>0, <1>1, <1>5 DEF Parts, Napi, Holds, Starts, Off, HalfOpen, Quiet
<1>13. Others(uc, j, d, yc)'
  BY <1>0, <1>1, <1>5 DEF Parts, Others
<1>14. Parts(ui, uc, j, d, pi, pc, yi, yc)'
  BY <1>6, <1>7, <1>8, <1>9, <1>10, <1>11, <1>12, <1>13 DEF Parts
<1> QED
  BY <1>5, <1>14, WorkerArrives

(* The work item takes the rtnl lock. *)
LEMMA WorkerRtnl ==
  ASSUME NEW ui, NEW uc, NEW wi, NEW wc, NEW pi, NEW pc, NEW yi, NEW yc,
         Good(ui, uc, wi, wc, pi, pc, yi, yc), Step("worker"), At("worker", "rtnl")
  PROVE  IInv'
<1>0. Parts(ui, uc, wi, wc, pi, pc, yi, yc) /\ Alone(ui, uc, pi, pc)
  BY MasterAlone DEF Good
<1>1. /\ rtnl = "none" /\ rtnl' = "worker"
      /\ Then("worker")
      /\ UNCHANGED <<running, present, carrier, flags, queued, ring, irq, napi, hw, phy,
        rpm, usage, idle, asleep, gone>>
  BY DoesRtnl
<1>2. /\ wi \in Routines /\ wc \in Places /\ Rest(wi, wc) # <<>>
      /\ First(wi, wc) = "rtnl"
  BY WorkerFrom
<1>3. \/ wi = "none" /\ wc = "task1" /\ After(wi, wc) = Rest("none", "task2")
  BY <1>0, <1>2, AtRtnl DEF Parts, Shape, Ups, Downs, Resets, WorkerPlaces
<1>4. todo' = [todo EXCEPT !["worker"] = After(wi, wc)]
  BY <1>1, WorkerFrom
<1>5. PICK j, d : /\ todo' = [todo EXCEPT !["worker"] = Rest(j, d)]
             /\ \/ wi = "none" /\ wc = "task1" /\ j = "none" /\ d = "task2"
  BY <1>3, <1>4
<1>6. Types'
  BY <1>0, <1>1, <1>5 DEF Parts, Types
<1>7. Shape(ui, uc, j, d, pi, pc, yi, yc)'
  BY <1>0, <1>1, <1>5
    DEF Parts, Shape, Ups, Downs, Resets, UpPlaces, DownPlaces, WorkerPlaces
<1>8. Lock(uc, d, pc)'
  BY <1>0, <1>1, <1>5 DEF Parts, Lock, Locked
<1>9. Power(uc, pc)'
  BY <1>0, <1>1, <1>5 DEF Parts, Power, Refs, Ref1, Ref2, UserResumes
<1>10. Netdev(ui, uc, pi, pc)'
  BY <1>0, <1>1, <1>5 DEF Parts, Netdev, Flex, RunningAt, RingAt, IrqAt, PhyAt
<1>11. Device(ui, uc, pi, pc)'
  BY <1>0, <1>1, <1>5
    DEF Parts, Device, DownState, UpState, Between, Enabled, Off, HalfOpen, Quiet
<1>12. Napi(ui, uc, j, pi, pc, yi)'
  BY <1>0, <1>1, <1>5 DEF Parts, Napi, Holds, Starts, Off, HalfOpen, Quiet
<1>13. Others(uc, j, d, yc)'
  BY <1>0, <1>1, <1>5 DEF Parts, Others
<1>14. Parts(ui, uc, j, d, pi, pc, yi, yc)'
  BY <1>6, <1>7, <1>8, <1>9, <1>10, <1>11, <1>12, <1>13 DEF Parts
<1> QED
  BY <1>5, <1>14, WorkerArrives

(* Power management enables NAPI. *)
LEMMA PmNapiEnable ==
  ASSUME NEW ui, NEW uc, NEW wi, NEW wc, NEW pi, NEW pc, NEW yi, NEW yc,
         Good(ui, uc, wi, wc, pi, pc, yi, yc), Step("pm"), At("pm", "napi_enable")
  PROVE  IInv'
<1>0. Parts(ui, uc, wi, wc, pi, pc, yi, yc) /\ Alone(ui, uc, pi, pc)
  BY MasterAlone DEF Good
<1>1. /\ napi' = TRUE
      /\ Then("pm")
      /\ UNCHANGED <<rtnl, running, present, carrier, flags, queued, ring, irq, hw, phy,
        rpm, usage, idle, asleep, gone>>
  BY DoesNapiEnable
<1>2. /\ pi \in Routines /\ pc \in Places /\ Rest(pi, pc) # <<>>
      /\ First(pi, pc) = "napi_enable"
  BY PmFrom
<1>3. \/ pi = "up1" /\ After(pi, pc) = Rest("up2", pc)
      \/ pi = "up5" /\ After(pi, pc) = Rest("up6", pc)
      \/ pi = "stop3" /\ After(pi, pc) = Rest("stop4", pc)
  BY <1>0, <1>2, AtNapiEnable DEF Parts, Shape, Ups, Downs, Resets, PmPlaces
<1>4. todo' = [todo EXCEPT !["pm"] = After(pi, pc)]
  BY <1>1, PmFrom
<1>5. PICK j, d : /\ todo' = [todo EXCEPT !["pm"] = Rest(j, d)]
             /\ \/ pi = "up1" /\ j = "up2" /\ d = pc
                \/ pi = "up5" /\ j = "up6" /\ d = pc
                \/ pi = "stop3" /\ j = "stop4" /\ d = pc
  BY <1>3, <1>4
<1>6. Types'
  BY <1>0, <1>1, <1>5 DEF Parts, Types
<1>7. Shape(ui, uc, wi, wc, j, d, yi, yc)'
  BY <1>0, <1>1, <1>5 DEF Parts, Shape, Ups, Downs, Resets, UpPlaces, DownPlaces, PmPlaces
<1>8. Lock(uc, wc, d)'
  BY <1>0, <1>1, <1>5 DEF Parts, Lock, Locked
<1>9. Power(uc, d)'
  BY <1>0, <1>1, <1>5 DEF Parts, Power, Refs, Ref1, Ref2, UserResumes
<1>10. Netdev(ui, uc, j, d)'
  BY <1>0, <1>1, <1>5 DEF Parts, Netdev, Flex, RunningAt, RingAt, IrqAt, PhyAt
<1>11. Device(ui, uc, j, d)'
  BY <1>0, <1>1, <1>5
    DEF Parts, Alone, Device, DownState, UpState, Between, Enabled, Off, HalfOpen, Quiet,
          Shape, Ups, Downs, Resets, UpPlaces, DownPlaces
<1>12. Napi(ui, uc, wi, j, d, yi)'
  BY <1>0, <1>1, <1>5 DEF Parts, Napi, Holds, Starts, Off, HalfOpen, Quiet
<1>13. Others(uc, wi, wc, yc)'
  BY <1>0, <1>1, <1>5
    DEF Parts, Alone, Others, Device, DownState, UpState, Between, Enabled, Off, HalfOpen,
          Quiet, Netdev, Flex, RunningAt, RingAt, IrqAt, PhyAt
<1>14. Parts(ui, uc, wi, wc, j, d, yi, yc)'
  BY <1>6, <1>7, <1>8, <1>9, <1>10, <1>11, <1>12, <1>13 DEF Parts
<1> QED
  BY <1>5, <1>14, PmArrives

(* Power management allows the work item. *)
LEMMA PmEnable ==
  ASSUME NEW ui, NEW uc, NEW wi, NEW wc, NEW pi, NEW pc, NEW yi, NEW yc,
         Good(ui, uc, wi, wc, pi, pc, yi, yc), Step("pm"), At("pm", "enable")
  PROVE  IInv'
<1>0. Parts(ui, uc, wi, wc, pi, pc, yi, yc) /\ Alone(ui, uc, pi, pc)
  BY MasterAlone DEF Good
<1>1. /\ flags' = flags \cup {"enabled"}
      /\ Then("pm")
      /\ UNCHANGED <<rtnl, running, present, carrier, queued, ring, irq, napi, hw, phy,
        rpm, usage, idle, asleep, gone>>
  BY DoesEnable
<1>2. /\ pi \in Routines /\ pc \in Places /\ Rest(pi, pc) # <<>>
      /\ First(pi, pc) = "enable"
  BY PmFrom
<1>3. \/ pi = "up2" /\ After(pi, pc) = Rest("up3", pc)
  BY <1>0, <1>2, AtEnable DEF Parts, Shape, Ups, Downs, Resets, PmPlaces
<1>4. todo' = [todo EXCEPT !["pm"] = After(pi, pc)]
  BY <1>1, PmFrom
<1>5. PICK j, d : /\ todo' = [todo EXCEPT !["pm"] = Rest(j, d)]
             /\ \/ pi = "up2" /\ j = "up3" /\ d = pc
  BY <1>3, <1>4
<1>6. Types'
  BY <1>0, <1>1, <1>5 DEF Parts, Types
<1>7. Shape(ui, uc, wi, wc, j, d, yi, yc)'
  BY <1>0, <1>1, <1>5 DEF Parts, Shape, Ups, Downs, Resets, UpPlaces, DownPlaces, PmPlaces
<1>8. Lock(uc, wc, d)'
  BY <1>0, <1>1, <1>5 DEF Parts, Lock, Locked
<1>9. Power(uc, d)'
  BY <1>0, <1>1, <1>5 DEF Parts, Power, Refs, Ref1, Ref2, UserResumes
<1>10. Netdev(ui, uc, j, d)'
  BY <1>0, <1>1, <1>5 DEF Parts, Netdev, Flex, RunningAt, RingAt, IrqAt, PhyAt
<1>11. Device(ui, uc, j, d)'
  BY <1>0, <1>1, <1>5
    DEF Parts, Alone, Device, DownState, UpState, Between, Enabled, Off, HalfOpen, Quiet,
          Shape, Ups, Downs, Resets, UpPlaces, DownPlaces
<1>12. Napi(ui, uc, wi, j, d, yi)'
  BY <1>0, <1>1, <1>5 DEF Parts, Napi, Holds, Starts, Off, HalfOpen, Quiet
<1>13. Others(uc, wi, wc, yc)'
  BY <1>0, <1>1, <1>5
    DEF Parts, Alone, Others, Device, DownState, UpState, Between, Enabled, Off, HalfOpen,
          Quiet, Netdev, Flex, RunningAt, RingAt, IrqAt, PhyAt
<1>14. Parts(ui, uc, wi, wc, j, d, yi, yc)'
  BY <1>6, <1>7, <1>8, <1>9, <1>10, <1>11, <1>12, <1>13 DEF Parts
<1> QED
  BY <1>5, <1>14, PmArrives

(* Power management disables NAPI. *)
LEMMA PmNapiDisable ==
  ASSUME NEW ui, NEW uc, NEW wi, NEW wc, NEW pi, NEW pc, NEW yi, NEW yc,
         Good(ui, uc, wi, wc, pi, pc, yi, yc), Step("pm"), At("pm", "napi_disable")
  PROVE  IInv'
<1>0. Parts(ui, uc, wi, wc, pi, pc, yi, yc) /\ Alone(ui, uc, pi, pc)
  BY MasterAlone DEF Good
<1>1. /\ napi /\ napi' = FALSE
      /\ Then("pm")
      /\ UNCHANGED <<rtnl, running, present, carrier, flags, queued, ring, irq, hw, phy,
        rpm, usage, idle, asleep, gone>>
  BY DoesNapiDisable
<1>2. /\ pi \in Routines /\ pc \in Places /\ Rest(pi, pc) # <<>>
      /\ First(pi, pc) = "napi_disable"
  BY PmFrom
<1>3. \/ pi = "up3" /\ After(pi, pc) = Rest("up4", pc)
      \/ pi = "down3" /\ After(pi, pc) = Rest("down4", pc)
      \/ pi = "stop1" /\ After(pi, pc) = Rest("stop2", pc)
  BY <1>0, <1>2, AtNapiDisable DEF Parts, Shape, Ups, Downs, Resets, PmPlaces
<1>4. todo' = [todo EXCEPT !["pm"] = After(pi, pc)]
  BY <1>1, PmFrom
<1>5. PICK j, d : /\ todo' = [todo EXCEPT !["pm"] = Rest(j, d)]
             /\ \/ pi = "up3" /\ j = "up4" /\ d = pc
                \/ pi = "down3" /\ j = "down4" /\ d = pc
                \/ pi = "stop1" /\ j = "stop2" /\ d = pc
  BY <1>3, <1>4
<1>6. Types'
  BY <1>0, <1>1, <1>5 DEF Parts, Types
<1>7. Shape(ui, uc, wi, wc, j, d, yi, yc)'
  BY <1>0, <1>1, <1>5 DEF Parts, Shape, Ups, Downs, Resets, UpPlaces, DownPlaces, PmPlaces
<1>8. Lock(uc, wc, d)'
  BY <1>0, <1>1, <1>5 DEF Parts, Lock, Locked
<1>9. Power(uc, d)'
  BY <1>0, <1>1, <1>5 DEF Parts, Power, Refs, Ref1, Ref2, UserResumes
<1>10. Netdev(ui, uc, j, d)'
  BY <1>0, <1>1, <1>5 DEF Parts, Netdev, Flex, RunningAt, RingAt, IrqAt, PhyAt
<1>11. Device(ui, uc, j, d)'
  BY <1>0, <1>1, <1>5
    DEF Parts, Alone, Device, DownState, UpState, Between, Enabled, Off, HalfOpen, Quiet,
          Shape, Ups, Downs, Resets, UpPlaces, DownPlaces
<1>12. Napi(ui, uc, wi, j, d, yi)'
  BY <1>0, <1>1, <1>5 DEF Parts, Napi, Holds, Starts, Off, HalfOpen, Quiet
<1>13. Others(uc, wi, wc, yc)'
  BY <1>0, <1>1, <1>5
    DEF Parts, Alone, Others, Device, DownState, UpState, Between, Enabled, Off, HalfOpen,
          Quiet, Netdev, Flex, RunningAt, RingAt, IrqAt, PhyAt
<1>14. Parts(ui, uc, wi, wc, j, d, yi, yc)'
  BY <1>6, <1>7, <1>8, <1>9, <1>10, <1>11, <1>12, <1>13 DEF Parts
<1> QED
  BY <1>5, <1>14, PmArrives

(* Power management stops the chip and clears the rings. *)
LEMMA PmClear ==
  ASSUME NEW ui, NEW uc, NEW wi, NEW wc, NEW pi, NEW pc, NEW yi, NEW yc,
         Good(ui, uc, wi, wc, pi, pc, yi, yc), Step("pm"), At("pm", "clear")
  PROVE  IInv'
<1>0. Parts(ui, uc, wi, wc, pi, pc, yi, yc) /\ Alone(ui, uc, pi, pc)
  BY MasterAlone DEF Good
<1>1. /\ hw' = FALSE
      /\ Then("pm")
      /\ UNCHANGED <<rtnl, running, present, carrier, flags, queued, ring, irq, napi, phy,
        rpm, usage, idle, asleep, gone>>
  BY DoesClear
<1>2. /\ pi \in Routines /\ pc \in Places /\ Rest(pi, pc) # <<>>
      /\ First(pi, pc) = "clear"
  BY PmFrom
<1>3. \/ pi = "up4" /\ After(pi, pc) = Rest("up5", pc)
      \/ pi = "down4" /\ After(pi, pc) = Rest("none", pc)
      \/ pi = "stop2" /\ After(pi, pc) = Rest("stop3", pc)
  BY <1>0, <1>2, AtClear DEF Parts, Shape, Ups, Downs, Resets, PmPlaces
<1>4. todo' = [todo EXCEPT !["pm"] = After(pi, pc)]
  BY <1>1, PmFrom
<1>5. PICK j, d : /\ todo' = [todo EXCEPT !["pm"] = Rest(j, d)]
             /\ \/ pi = "up4" /\ j = "up5" /\ d = pc
                \/ pi = "down4" /\ j = "none" /\ d = pc
                \/ pi = "stop2" /\ j = "stop3" /\ d = pc
  BY <1>3, <1>4
<1>6. Types'
  BY <1>0, <1>1, <1>5 DEF Parts, Types
<1>7. Shape(ui, uc, wi, wc, j, d, yi, yc)'
  BY <1>0, <1>1, <1>5 DEF Parts, Shape, Ups, Downs, Resets, UpPlaces, DownPlaces, PmPlaces
<1>8. Lock(uc, wc, d)'
  BY <1>0, <1>1, <1>5 DEF Parts, Lock, Locked
<1>9. Power(uc, d)'
  BY <1>0, <1>1, <1>5 DEF Parts, Power, Refs, Ref1, Ref2, UserResumes
<1>10. Netdev(ui, uc, j, d)'
  BY <1>0, <1>1, <1>5 DEF Parts, Netdev, Flex, RunningAt, RingAt, IrqAt, PhyAt
<1>11. Device(ui, uc, j, d)'
  <2>1. (j = "none" => Off(uc, d)') /\ ui = "none"
    BY <1>0, <1>1, <1>5
      DEF Parts, Alone, Off, HalfOpen, Quiet, Shape, Ups, Downs, DownPlaces, PmPlaces,
            UserPlaces
  <2> QED
    BY <1>0, <1>1, <1>5, <2>1
      DEF Parts, Device, DownState, UpState, Between, Enabled, Downs, Napi, Holds, Starts
<1>12. Napi(ui, uc, wi, j, d, yi)'
  <2>1. (j = "none" => Off(uc, d)') /\ ui = "none"
    BY <1>0, <1>1, <1>5
      DEF Parts, Alone, Off, HalfOpen, Quiet, Shape, Ups, Downs, DownPlaces, PmPlaces,
            UserPlaces
  <2> QED
    BY <1>0, <1>1, <1>5, <2>1
      DEF Parts, Device, DownState, UpState, Between, Enabled, Downs, Napi, Holds, Starts
<1>13. Others(uc, wi, wc, yc)'
  BY <1>0, <1>1, <1>5
    DEF Parts, Alone, Others, Device, DownState, UpState, Between, Enabled, Off, HalfOpen,
          Quiet, Netdev, Flex, RunningAt, RingAt, IrqAt, PhyAt
<1>14. Parts(ui, uc, wi, wc, j, d, yi, yc)'
  BY <1>6, <1>7, <1>8, <1>9, <1>10, <1>11, <1>12, <1>13 DEF Parts
<1> QED
  BY <1>5, <1>14, PmArrives

(* Power management starts the chip. *)
LEMMA PmHwStart ==
  ASSUME NEW ui, NEW uc, NEW wi, NEW wc, NEW pi, NEW pc, NEW yi, NEW yc,
         Good(ui, uc, wi, wc, pi, pc, yi, yc), Step("pm"), At("pm", "hw_start")
  PROVE  IInv'
<1>0. Parts(ui, uc, wi, wc, pi, pc, yi, yc) /\ Alone(ui, uc, pi, pc)
  BY MasterAlone DEF Good
<1>1. /\ hw' = TRUE
      /\ Then("pm")
      /\ UNCHANGED <<rtnl, running, present, carrier, flags, queued, ring, irq, napi, phy,
        rpm, usage, idle, asleep, gone>>
  BY DoesHwStart
<1>2. /\ pi \in Routines /\ pc \in Places /\ Rest(pi, pc) # <<>>
      /\ First(pi, pc) = "hw_start"
  BY PmFrom
<1>3. \/ pi = "up6" /\ After(pi, pc) = Rest("up7", pc)
      \/ pi = "stop4" /\ After(pi, pc) = Rest("down3", pc)
  BY <1>0, <1>2, AtHwStart DEF Parts, Shape, Ups, Downs, Resets, PmPlaces
<1>4. todo' = [todo EXCEPT !["pm"] = After(pi, pc)]
  BY <1>1, PmFrom
<1>5. PICK j, d : /\ todo' = [todo EXCEPT !["pm"] = Rest(j, d)]
             /\ \/ pi = "up6" /\ j = "up7" /\ d = pc
                \/ pi = "stop4" /\ j = "down3" /\ d = pc
  BY <1>3, <1>4
<1>6. Types'
  BY <1>0, <1>1, <1>5 DEF Parts, Types
<1>7. Shape(ui, uc, wi, wc, j, d, yi, yc)'
  BY <1>0, <1>1, <1>5 DEF Parts, Shape, Ups, Downs, Resets, UpPlaces, DownPlaces, PmPlaces
<1>8. Lock(uc, wc, d)'
  BY <1>0, <1>1, <1>5 DEF Parts, Lock, Locked
<1>9. Power(uc, d)'
  BY <1>0, <1>1, <1>5 DEF Parts, Power, Refs, Ref1, Ref2, UserResumes
<1>10. Netdev(ui, uc, j, d)'
  BY <1>0, <1>1, <1>5 DEF Parts, Netdev, Flex, RunningAt, RingAt, IrqAt, PhyAt
<1>11. Device(ui, uc, j, d)'
  BY <1>0, <1>1, <1>5
    DEF Parts, Alone, Device, DownState, UpState, Between, Enabled, Off, HalfOpen, Quiet,
          Shape, Ups, Downs, Resets, UpPlaces, DownPlaces
<1>12. Napi(ui, uc, wi, j, d, yi)'
  BY <1>0, <1>1, <1>5 DEF Parts, Napi, Holds, Starts, Off, HalfOpen, Quiet
<1>13. Others(uc, wi, wc, yc)'
  BY <1>0, <1>1, <1>5
    DEF Parts, Alone, Others, Device, DownState, UpState, Between, Enabled, Off, HalfOpen,
          Quiet, Netdev, Flex, RunningAt, RingAt, IrqAt, PhyAt
<1>14. Parts(ui, uc, wi, wc, j, d, yi, yc)'
  BY <1>6, <1>7, <1>8, <1>9, <1>10, <1>11, <1>12, <1>13 DEF Parts
<1> QED
  BY <1>5, <1>14, PmArrives

(* Power management starts the phy. *)
LEMMA PmPhyStart ==
  ASSUME NEW ui, NEW uc, NEW wi, NEW wc, NEW pi, NEW pc, NEW yi, NEW yc,
         Good(ui, uc, wi, wc, pi, pc, yi, yc), Step("pm"), At("pm", "phy_start")
  PROVE  IInv'
<1>0. Parts(ui, uc, wi, wc, pi, pc, yi, yc) /\ Alone(ui, uc, pi, pc)
  BY MasterAlone DEF Good
<1>1. /\ phy' = "started"
      /\ Then("pm")
      /\ UNCHANGED <<rtnl, running, present, carrier, flags, queued, ring, irq, napi, hw,
        rpm, usage, idle, asleep, gone>>
  BY DoesPhyStart
<1>2. /\ pi \in Routines /\ pc \in Places /\ Rest(pi, pc) # <<>>
      /\ First(pi, pc) = "phy_start"
  BY PmFrom
<1>3. \/ pi = "up7" /\ After(pi, pc) = Rest("none", pc)
  BY <1>0, <1>2, AtPhyStart DEF Parts, Shape, Ups, Downs, Resets, PmPlaces
<1>4. todo' = [todo EXCEPT !["pm"] = After(pi, pc)]
  BY <1>1, PmFrom
<1>5. PICK j, d : /\ todo' = [todo EXCEPT !["pm"] = Rest(j, d)]
             /\ \/ pi = "up7" /\ j = "none" /\ d = pc
  BY <1>3, <1>4
<1>6. Types'
  BY <1>0, <1>1, <1>5 DEF Parts, Types
<1>7. Shape(ui, uc, wi, wc, j, d, yi, yc)'
  BY <1>0, <1>1, <1>5 DEF Parts, Shape, Ups, Downs, Resets, UpPlaces, DownPlaces, PmPlaces
<1>8. Lock(uc, wc, d)'
  BY <1>0, <1>1, <1>5 DEF Parts, Lock, Locked
<1>9. Power(uc, d)'
  BY <1>0, <1>1, <1>5 DEF Parts, Power, Refs, Ref1, Ref2, UserResumes
<1>10. Netdev(ui, uc, j, d)'
  BY <1>0, <1>1, <1>5
    DEF Parts, Alone, Netdev, Flex, RunningAt, RingAt, IrqAt, PhyAt, Device, DownState,
          UpState, Between, Enabled, Ups, Downs, Shape, UpPlaces
<1>11. Device(ui, uc, j, d)'
  <2>1. ~Off(uc, d)'
    BY <1>0, <1>1, <1>5
      DEF Parts, Alone, Off, HalfOpen, Quiet, Netdev, Power, Ref1, Ref2, UserResumes, Shape,
            Ups, Downs, UpPlaces, PmPlaces
  <2> QED
    BY <1>0, <1>1, <1>5, <2>1
      DEF Parts, Alone, Device, DownState, UpState, Between, Enabled, Downs
<1>12. Napi(ui, uc, wi, j, d, yi)'
  BY <1>0, <1>1, <1>5 DEF Parts, Napi, Holds, Starts, Off, HalfOpen, Quiet
<1>13. Others(uc, wi, wc, yc)'
  BY <1>0, <1>1, <1>5
    DEF Parts, Alone, Others, Device, DownState, UpState, Between, Enabled, Off, HalfOpen,
          Quiet, Netdev, Flex, RunningAt, RingAt, IrqAt, PhyAt
<1>14. Parts(ui, uc, wi, wc, j, d, yi, yc)'
  BY <1>6, <1>7, <1>8, <1>9, <1>10, <1>11, <1>12, <1>13 DEF Parts
<1> QED
  BY <1>5, <1>14, PmArrives

(* Power management clears the flags of the work item. *)
LEMMA PmClearFlags ==
  ASSUME NEW ui, NEW uc, NEW wi, NEW wc, NEW pi, NEW pc, NEW yi, NEW yc,
         Good(ui, uc, wi, wc, pi, pc, yi, yc), Step("pm"), At("pm", "clear_flags")
  PROVE  IInv'
<1>0. Parts(ui, uc, wi, wc, pi, pc, yi, yc) /\ Alone(ui, uc, pi, pc)
  BY MasterAlone DEF Good
<1>1. /\ flags' = {}
      /\ Then("pm")
      /\ UNCHANGED <<rtnl, running, present, carrier, queued, ring, irq, napi, hw, phy,
        rpm, usage, idle, asleep, gone>>
  BY DoesClearFlags
<1>2. /\ pi \in Routines /\ pc \in Places /\ Rest(pi, pc) # <<>>
      /\ First(pi, pc) = "clear_flags"
  BY PmFrom
<1>3. \/ pi = "down1" /\ After(pi, pc) = Rest("down2", pc)
  BY <1>0, <1>2, AtClearFlags DEF Parts, Shape, Ups, Downs, Resets, PmPlaces
<1>4. todo' = [todo EXCEPT !["pm"] = After(pi, pc)]
  BY <1>1, PmFrom
<1>5. PICK j, d : /\ todo' = [todo EXCEPT !["pm"] = Rest(j, d)]
             /\ \/ pi = "down1" /\ j = "down2" /\ d = pc
  BY <1>3, <1>4
<1>6. Types'
  BY <1>0, <1>1, <1>5 DEF Parts, Types
<1>7. Shape(ui, uc, wi, wc, j, d, yi, yc)'
  BY <1>0, <1>1, <1>5 DEF Parts, Shape, Ups, Downs, Resets, UpPlaces, DownPlaces, PmPlaces
<1>8. Lock(uc, wc, d)'
  BY <1>0, <1>1, <1>5 DEF Parts, Lock, Locked
<1>9. Power(uc, d)'
  BY <1>0, <1>1, <1>5 DEF Parts, Power, Refs, Ref1, Ref2, UserResumes
<1>10. Netdev(ui, uc, j, d)'
  BY <1>0, <1>1, <1>5 DEF Parts, Netdev, Flex, RunningAt, RingAt, IrqAt, PhyAt
<1>11. Device(ui, uc, j, d)'
  BY <1>0, <1>1, <1>5
    DEF Parts, Alone, Device, DownState, UpState, Between, Enabled, Off, HalfOpen, Quiet,
          Shape, Ups, Downs, Resets, UpPlaces, DownPlaces
<1>12. Napi(ui, uc, wi, j, d, yi)'
  BY <1>0, <1>1, <1>5 DEF Parts, Napi, Holds, Starts, Off, HalfOpen, Quiet
<1>13. Others(uc, wi, wc, yc)'
  BY <1>0, <1>1, <1>5
    DEF Parts, Alone, Others, Device, DownState, UpState, Between, Enabled, Off, HalfOpen,
          Quiet, Netdev, Flex, RunningAt, RingAt, IrqAt, PhyAt, Lock, Locked, Shape,
          DownPlaces, Ups, Downs
<1>14. Parts(ui, uc, wi, wc, j, d, yi, yc)'
  BY <1>6, <1>7, <1>8, <1>9, <1>10, <1>11, <1>12, <1>13 DEF Parts
<1> QED
  BY <1>5, <1>14, PmArrives

(* Power management gives the rtnl lock back. *)
LEMMA PmUnrtnl ==
  ASSUME NEW ui, NEW uc, NEW wi, NEW wc, NEW pi, NEW pc, NEW yi, NEW yc,
         Good(ui, uc, wi, wc, pi, pc, yi, yc), Step("pm"), At("pm", "unrtnl")
  PROVE  IInv'
<1>0. Parts(ui, uc, wi, wc, pi, pc, yi, yc) /\ Alone(ui, uc, pi, pc)
  BY MasterAlone DEF Good
<1>1. /\ rtnl' = "none"
      /\ Then("pm")
      /\ UNCHANGED <<running, present, carrier, flags, queued, ring, irq, napi, hw, phy,
        rpm, usage, idle, asleep, gone>>
  BY DoesUnrtnl
<1>2. /\ pi \in Routines /\ pc \in Places /\ Rest(pi, pc) # <<>>
      /\ First(pi, pc) = "unrtnl"
  BY PmFrom
<1>3. \/ pi = "none" /\ pc = "rsus4" /\ After(pi, pc) = Rest("none", "rsus5")
      \/ pi = "none" /\ pc = "sys4" /\ After(pi, pc) = Rest("none", "end")
  BY <1>0, <1>2, AtUnrtnl DEF Parts, Shape, Ups, Downs, Resets, PmPlaces
<1>4. todo' = [todo EXCEPT !["pm"] = After(pi, pc)]
  BY <1>1, PmFrom
<1>5. PICK j, d : /\ todo' = [todo EXCEPT !["pm"] = Rest(j, d)]
             /\ \/ pi = "none" /\ pc = "rsus4" /\ j = "none" /\ d = "rsus5"
                \/ pi = "none" /\ pc = "sys4" /\ j = "none" /\ d = "end"
  BY <1>3, <1>4
<1>6. Types'
  BY <1>0, <1>1, <1>5 DEF Parts, Types
<1>7. Shape(ui, uc, wi, wc, j, d, yi, yc)'
  BY <1>0, <1>1, <1>5 DEF Parts, Shape, Ups, Downs, Resets, UpPlaces, DownPlaces, PmPlaces
<1>8. Lock(uc, wc, d)'
  BY <1>0, <1>1, <1>5 DEF Parts, Lock, Locked
<1>9. Power(uc, d)'
  BY <1>0, <1>1, <1>5 DEF Parts, Power, Refs, Ref1, Ref2, UserResumes
<1>10. Netdev(ui, uc, j, d)'
  BY <1>0, <1>1, <1>5 DEF Parts, Netdev, Flex, RunningAt, RingAt, IrqAt, PhyAt
<1>11. Device(ui, uc, j, d)'
  BY <1>0, <1>1, <1>5
    DEF Parts, Alone, Device, DownState, UpState, Between, Enabled, Off, HalfOpen, Quiet,
          Netdev, Flex, RunningAt, RingAt, IrqAt, PhyAt, Power, Refs, Ref1, Ref2,
          UserResumes, Shape, Ups, Downs, Resets, UpPlaces, DownPlaces
<1>12. Napi(ui, uc, wi, j, d, yi)'
  BY <1>0, <1>1, <1>5
    DEF Parts, Alone, Napi, Holds, Starts, Off, HalfOpen, Quiet, Netdev, Flex, RunningAt,
          RingAt, IrqAt, PhyAt, Power, Refs, Ref1, Ref2, UserResumes, Shape, Ups, Downs,
          Resets, UpPlaces, DownPlaces
<1>13. Others(uc, wi, wc, yc)'
  BY <1>0, <1>1, <1>5
    DEF Parts, Alone, Others, Device, DownState, UpState, Between, Enabled, Off, HalfOpen,
          Quiet, Netdev, Flex, RunningAt, RingAt, IrqAt, PhyAt
<1>14. Parts(ui, uc, wi, wc, j, d, yi, yc)'
  BY <1>6, <1>7, <1>8, <1>9, <1>10, <1>11, <1>12, <1>13 DEF Parts
<1> QED
  BY <1>5, <1>14, PmArrives

(* Power management takes the rtnl lock. *)
LEMMA PmRtnl ==
  ASSUME NEW ui, NEW uc, NEW wi, NEW wc, NEW pi, NEW pc, NEW yi, NEW yc,
         Good(ui, uc, wi, wc, pi, pc, yi, yc), Step("pm"), At("pm", "rtnl")
  PROVE  IInv'
<1>0. Parts(ui, uc, wi, wc, pi, pc, yi, yc) /\ Alone(ui, uc, pi, pc)
  BY MasterAlone DEF Good
<1>1. /\ rtnl = "none" /\ rtnl' = "pm"
      /\ Then("pm")
      /\ UNCHANGED <<running, present, carrier, flags, queued, ring, irq, napi, hw, phy,
        rpm, usage, idle, asleep, gone>>
  BY DoesRtnl
<1>2. /\ pi \in Routines /\ pc \in Places /\ Rest(pi, pc) # <<>>
      /\ First(pi, pc) = "rtnl"
  BY PmFrom
<1>3. \/ pi = "none" /\ pc = "rsus1" /\ After(pi, pc) = Rest("none", "rsus2")
      \/ pi = "none" /\ pc = "sys1" /\ After(pi, pc) = Rest("none", "sys2")
  BY <1>0, <1>2, AtRtnl DEF Parts, Shape, Ups, Downs, Resets, PmPlaces
<1>4. todo' = [todo EXCEPT !["pm"] = After(pi, pc)]
  BY <1>1, PmFrom
<1>5. PICK j, d : /\ todo' = [todo EXCEPT !["pm"] = Rest(j, d)]
             /\ \/ pi = "none" /\ pc = "rsus1" /\ j = "none" /\ d = "rsus2"
                \/ pi = "none" /\ pc = "sys1" /\ j = "none" /\ d = "sys2"
  BY <1>3, <1>4
<1>6. Types'
  BY <1>0, <1>1, <1>5 DEF Parts, Types
<1>7. Shape(ui, uc, wi, wc, j, d, yi, yc)'
  BY <1>0, <1>1, <1>5 DEF Parts, Shape, Ups, Downs, Resets, UpPlaces, DownPlaces, PmPlaces
<1>8. Lock(uc, wc, d)'
  BY <1>0, <1>1, <1>5 DEF Parts, Lock, Locked
<1>9. Power(uc, d)'
  BY <1>0, <1>1, <1>5 DEF Parts, Power, Refs, Ref1, Ref2, UserResumes
<1>10. Netdev(ui, uc, j, d)'
  BY <1>0, <1>1, <1>5 DEF Parts, Netdev, Flex, RunningAt, RingAt, IrqAt, PhyAt
<1>11. Device(ui, uc, j, d)'
  BY <1>0, <1>1, <1>5
    DEF Parts, Device, DownState, UpState, Between, Enabled, Off, HalfOpen, Quiet
<1>12. Napi(ui, uc, wi, j, d, yi)'
  BY <1>0, <1>1, <1>5 DEF Parts, Napi, Holds, Starts, Off, HalfOpen, Quiet
<1>13. Others(uc, wi, wc, yc)'
  BY <1>0, <1>1, <1>5
    DEF Parts, Alone, Others, Device, DownState, UpState, Between, Enabled, Off, HalfOpen,
          Quiet, Netdev, Flex, RunningAt, RingAt, IrqAt, PhyAt
<1>14. Parts(ui, uc, wi, wc, j, d, yi, yc)'
  BY <1>6, <1>7, <1>8, <1>9, <1>10, <1>11, <1>12, <1>13 DEF Parts
<1> QED
  BY <1>5, <1>14, PmArrives

(* Power management ends a runtime resume. *)
LEMMA PmActive ==
  ASSUME NEW ui, NEW uc, NEW wi, NEW wc, NEW pi, NEW pc, NEW yi, NEW yc,
         Good(ui, uc, wi, wc, pi, pc, yi, yc), Step("pm"), At("pm", "active")
  PROVE  IInv'
<1>0. Parts(ui, uc, wi, wc, pi, pc, yi, yc) /\ Alone(ui, uc, pi, pc)
  BY MasterAlone DEF Good
<1>1. /\ rpm' = "active"
      /\ Then("pm")
      /\ UNCHANGED <<rtnl, running, present, carrier, flags, queued, ring, irq, napi, hw,
        phy, usage, asleep, gone>>
  BY DoesActive
<1>2. /\ pi \in Routines /\ pc \in Places /\ Rest(pi, pc) # <<>>
      /\ First(pi, pc) = "active"
  BY PmFrom
<1>3. \/ pi = "none" /\ pc = "rres3" /\ After(pi, pc) = Rest("none", "end")
  BY <1>0, <1>2, AtActive DEF Parts, Shape, Ups, Downs, Resets, PmPlaces
<1>4. todo' = [todo EXCEPT !["pm"] = After(pi, pc)]
  BY <1>1, PmFrom
<1>5. PICK j, d : /\ todo' = [todo EXCEPT !["pm"] = Rest(j, d)]
             /\ \/ pi = "none" /\ pc = "rres3" /\ j = "none" /\ d = "end"
  BY <1>3, <1>4
<1>6. Types'
  BY <1>0, <1>1, <1>5 DEF Parts, Types
<1>7. Shape(ui, uc, wi, wc, j, d, yi, yc)'
  BY <1>0, <1>1, <1>5 DEF Parts, Shape, Ups, Downs, Resets, UpPlaces, DownPlaces, PmPlaces
<1>8. Lock(uc, wc, d)'
  BY <1>0, <1>1, <1>5 DEF Parts, Lock, Locked
<1>9. Power(uc, d)'
  BY <1>0, <1>1, <1>5 DEF Parts, Power, Refs, Ref1, Ref2, UserResumes
<1>10. Netdev(ui, uc, j, d)'
  BY <1>0, <1>1, <1>5 DEF Parts, Netdev, Flex, RunningAt, RingAt, IrqAt, PhyAt
<1>11. Device(ui, uc, j, d)'
  BY <1>0, <1>1, <1>5
    DEF Parts, Alone, Device, DownState, UpState, Between, Enabled, Off, HalfOpen, Quiet,
          Netdev, Flex, RunningAt, RingAt, IrqAt, PhyAt, Power, Refs, Ref1, Ref2,
          UserResumes, Shape, Ups, Downs, Resets, UpPlaces, DownPlaces
<1>12. Napi(ui, uc, wi, j, d, yi)'
  BY <1>0, <1>1, <1>5
    DEF Parts, Alone, Napi, Holds, Starts, Off, HalfOpen, Quiet, Netdev, Flex, RunningAt,
          RingAt, IrqAt, PhyAt, Power, Refs, Ref1, Ref2, UserResumes, Shape, Ups, Downs,
          Resets, UpPlaces, DownPlaces
<1>13. Others(uc, wi, wc, yc)'
  BY <1>0, <1>1, <1>5
    DEF Parts, Alone, Others, Device, DownState, UpState, Between, Enabled, Off, HalfOpen,
          Quiet, Netdev, Flex, RunningAt, RingAt, IrqAt, PhyAt
<1>14. Parts(ui, uc, wi, wc, j, d, yi, yc)'
  BY <1>6, <1>7, <1>8, <1>9, <1>10, <1>11, <1>12, <1>13 DEF Parts
<1> QED
  BY <1>5, <1>14, PmArrives

(* Power management attaches the net device. *)
LEMMA PmAttach ==
  ASSUME NEW ui, NEW uc, NEW wi, NEW wc, NEW pi, NEW pc, NEW yi, NEW yc,
         Good(ui, uc, wi, wc, pi, pc, yi, yc), Step("pm"), At("pm", "attach")
  PROVE  IInv'
<1>0. Parts(ui, uc, wi, wc, pi, pc, yi, yc) /\ Alone(ui, uc, pi, pc)
  BY MasterAlone DEF Good
<1>1. /\ present' = TRUE
      /\ Then("pm")
      /\ UNCHANGED <<rtnl, running, carrier, flags, queued, ring, irq, napi, hw, phy, rpm,
        usage, idle, asleep, gone>>
  BY DoesAttach
<1>2. /\ pi \in Routines /\ pc \in Places /\ Rest(pi, pc) # <<>>
      /\ First(pi, pc) = "attach"
  BY PmFrom
<1>3. \/ pi = "none" /\ pc = "rres2" /\ After(pi, pc) = Rest("none", "rres3")
      \/ pi = "none" /\ pc = "wake2" /\ After(pi, pc) = Rest("none", "wake3")
  BY <1>0, <1>2, AtAttach DEF Parts, Shape, Ups, Downs, Resets, PmPlaces
<1>4. todo' = [todo EXCEPT !["pm"] = After(pi, pc)]
  BY <1>1, PmFrom
<1>5. PICK j, d : /\ todo' = [todo EXCEPT !["pm"] = Rest(j, d)]
             /\ \/ pi = "none" /\ pc = "rres2" /\ j = "none" /\ d = "rres3"
                \/ pi = "none" /\ pc = "wake2" /\ j = "none" /\ d = "wake3"
  BY <1>3, <1>4
<1>6. Types'
  BY <1>0, <1>1, <1>5 DEF Parts, Types
<1>7. Shape(ui, uc, wi, wc, j, d, yi, yc)'
  BY <1>0, <1>1, <1>5 DEF Parts, Shape, Ups, Downs, Resets, UpPlaces, DownPlaces, PmPlaces
<1>8. Lock(uc, wc, d)'
  BY <1>0, <1>1, <1>5 DEF Parts, Lock, Locked
<1>9. Power(uc, d)'
  BY <1>0, <1>1, <1>5 DEF Parts, Power, Refs, Ref1, Ref2, UserResumes
<1>10. Netdev(ui, uc, j, d)'
  BY <1>0, <1>1, <1>5 DEF Parts, Netdev, Flex, RunningAt, RingAt, IrqAt, PhyAt
<1>11. Device(ui, uc, j, d)'
  BY <1>0, <1>1, <1>5
    DEF Parts, Device, DownState, UpState, Between, Enabled, Off, HalfOpen, Quiet
<1>12. Napi(ui, uc, wi, j, d, yi)'
  BY <1>0, <1>1, <1>5 DEF Parts, Napi, Holds, Starts, Off, HalfOpen, Quiet
<1>13. Others(uc, wi, wc, yc)'
  BY <1>0, <1>1, <1>5
    DEF Parts, Alone, Others, Device, DownState, UpState, Between, Enabled, Off, HalfOpen,
          Quiet, Netdev, Flex, RunningAt, RingAt, IrqAt, PhyAt
<1>14. Parts(ui, uc, wi, wc, j, d, yi, yc)'
  BY <1>6, <1>7, <1>8, <1>9, <1>10, <1>11, <1>12, <1>13 DEF Parts
<1> QED
  BY <1>5, <1>14, PmArrives

(* Power management detaches the net device. *)
LEMMA PmDetach ==
  ASSUME NEW ui, NEW uc, NEW wi, NEW wc, NEW pi, NEW pc, NEW yi, NEW yc,
         Good(ui, uc, wi, wc, pi, pc, yi, yc), Step("pm"), At("pm", "detach")
  PROVE  IInv'
<1>0. Parts(ui, uc, wi, wc, pi, pc, yi, yc) /\ Alone(ui, uc, pi, pc)
  BY MasterAlone DEF Good
<1>1. /\ present' = FALSE
      /\ Then("pm")
      /\ UNCHANGED <<rtnl, running, carrier, flags, queued, ring, irq, napi, hw, phy, rpm,
        usage, idle, asleep, gone>>
  BY DoesDetach
<1>2. /\ pi \in Routines /\ pc \in Places /\ Rest(pi, pc) # <<>>
      /\ First(pi, pc) = "detach"
  BY PmFrom
<1>3. \/ pi = "none" /\ pc = "rsus2" /\ After(pi, pc) = Rest("none", "rsus3")
      \/ pi = "none" /\ pc = "bsus" /\ After(pi, pc) = Rest("none", "rsus5")
      \/ pi = "none" /\ pc = "sys2" /\ After(pi, pc) = Rest("none", "sys3")
  BY <1>0, <1>2, AtDetach DEF Parts, Shape, Ups, Downs, Resets, PmPlaces
<1>4. todo' = [todo EXCEPT !["pm"] = After(pi, pc)]
  BY <1>1, PmFrom
<1>5. PICK j, d : /\ todo' = [todo EXCEPT !["pm"] = Rest(j, d)]
             /\ \/ pi = "none" /\ pc = "rsus2" /\ j = "none" /\ d = "rsus3"
                \/ pi = "none" /\ pc = "bsus" /\ j = "none" /\ d = "rsus5"
                \/ pi = "none" /\ pc = "sys2" /\ j = "none" /\ d = "sys3"
  BY <1>3, <1>4
<1>6. Types'
  BY <1>0, <1>1, <1>5 DEF Parts, Types
<1>7. Shape(ui, uc, wi, wc, j, d, yi, yc)'
  BY <1>0, <1>1, <1>5 DEF Parts, Shape, Ups, Downs, Resets, UpPlaces, DownPlaces, PmPlaces
<1>8. Lock(uc, wc, d)'
  BY <1>0, <1>1, <1>5 DEF Parts, Lock, Locked
<1>9. Power(uc, d)'
  BY <1>0, <1>1, <1>5 DEF Parts, Power, Refs, Ref1, Ref2, UserResumes
<1>10. Netdev(ui, uc, j, d)'
  BY <1>0, <1>1, <1>5 DEF Parts, Netdev, Flex, RunningAt, RingAt, IrqAt, PhyAt
<1>11. Device(ui, uc, j, d)'
  BY <1>0, <1>1, <1>5
    DEF Parts, Alone, Device, DownState, UpState, Between, Enabled, Off, HalfOpen, Quiet,
          Netdev, Flex, RunningAt, RingAt, IrqAt, PhyAt
<1>12. Napi(ui, uc, wi, j, d, yi)'
  BY <1>0, <1>1, <1>5 DEF Parts, Napi, Holds, Starts, Off, HalfOpen, Quiet
<1>13. Others(uc, wi, wc, yc)'
  BY <1>0, <1>1, <1>5
    DEF Parts, Alone, Others, Device, DownState, UpState, Between, Enabled, Off, HalfOpen,
          Quiet, Netdev, Flex, RunningAt, RingAt, IrqAt, PhyAt
<1>14. Parts(ui, uc, wi, wc, j, d, yi, yc)'
  BY <1>6, <1>7, <1>8, <1>9, <1>10, <1>11, <1>12, <1>13 DEF Parts
<1> QED
  BY <1>5, <1>14, PmArrives

(* Power management ends a runtime suspend. *)
LEMMA PmSuspended ==
  ASSUME NEW ui, NEW uc, NEW wi, NEW wc, NEW pi, NEW pc, NEW yi, NEW yc,
         Good(ui, uc, wi, wc, pi, pc, yi, yc), Step("pm"), At("pm", "suspended")
  PROVE  IInv'
<1>0. Parts(ui, uc, wi, wc, pi, pc, yi, yc) /\ Alone(ui, uc, pi, pc)
  BY MasterAlone DEF Good
<1>1. /\ rpm' = "suspended"
      /\ Then("pm")
      /\ UNCHANGED <<rtnl, running, present, carrier, flags, queued, ring, irq, napi, hw,
        phy, usage, idle, asleep, gone>>
  BY DoesSuspended
<1>2. /\ pi \in Routines /\ pc \in Places /\ Rest(pi, pc) # <<>>
      /\ First(pi, pc) = "suspended"
  BY PmFrom
<1>3. \/ pi = "none" /\ pc = "rsus5" /\ After(pi, pc) = Rest("none", "end")
  BY <1>0, <1>2, AtSuspended DEF Parts, Shape, Ups, Downs, Resets, PmPlaces
<1>4. todo' = [todo EXCEPT !["pm"] = After(pi, pc)]
  BY <1>1, PmFrom
<1>5. PICK j, d : /\ todo' = [todo EXCEPT !["pm"] = Rest(j, d)]
             /\ \/ pi = "none" /\ pc = "rsus5" /\ j = "none" /\ d = "end"
  BY <1>3, <1>4
<1>6. Types'
  BY <1>0, <1>1, <1>5 DEF Parts, Types
<1>7. Shape(ui, uc, wi, wc, j, d, yi, yc)'
  BY <1>0, <1>1, <1>5 DEF Parts, Shape, Ups, Downs, Resets, UpPlaces, DownPlaces, PmPlaces
<1>8. Lock(uc, wc, d)'
  BY <1>0, <1>1, <1>5 DEF Parts, Lock, Locked
<1>9. Power(uc, d)'
  BY <1>0, <1>1, <1>5 DEF Parts, Power, Refs, Ref1, Ref2, UserResumes
<1>10. Netdev(ui, uc, j, d)'
  BY <1>0, <1>1, <1>5 DEF Parts, Netdev, Flex, RunningAt, RingAt, IrqAt, PhyAt
<1>11. Device(ui, uc, j, d)'
  BY <1>0, <1>1, <1>5
    DEF Parts, Device, DownState, UpState, Between, Enabled, Off, HalfOpen, Quiet
<1>12. Napi(ui, uc, wi, j, d, yi)'
  BY <1>0, <1>1, <1>5 DEF Parts, Napi, Holds, Starts, Off, HalfOpen, Quiet
<1>13. Others(uc, wi, wc, yc)'
  BY <1>0, <1>1, <1>5
    DEF Parts, Alone, Others, Device, DownState, UpState, Between, Enabled, Off, HalfOpen,
          Quiet, Netdev, Flex, RunningAt, RingAt, IrqAt, PhyAt
<1>14. Parts(ui, uc, wi, wc, j, d, yi, yc)'
  BY <1>6, <1>7, <1>8, <1>9, <1>10, <1>11, <1>12, <1>13 DEF Parts
<1> QED
  BY <1>5, <1>14, PmArrives

(* Power management ends a system sleep. *)
LEMMA PmAwake ==
  ASSUME NEW ui, NEW uc, NEW wi, NEW wc, NEW pi, NEW pc, NEW yi, NEW yc,
         Good(ui, uc, wi, wc, pi, pc, yi, yc), Step("pm"), At("pm", "awake")
  PROVE  IInv'
<1>0. Parts(ui, uc, wi, wc, pi, pc, yi, yc) /\ Alone(ui, uc, pi, pc)
  BY MasterAlone DEF Good
<1>1. /\ asleep' = FALSE /\ usage' = usage - 1
      /\ Then("pm")
      /\ UNCHANGED <<rtnl, running, present, carrier, flags, queued, ring, irq, napi, hw,
        phy, rpm, idle, gone>>
  BY DoesAwake
<1>2. /\ pi \in Routines /\ pc \in Places /\ Rest(pi, pc) # <<>>
      /\ First(pi, pc) = "awake"
  BY PmFrom
<1>3. \/ pi = "none" /\ pc = "wake3" /\ After(pi, pc) = Rest("none", "end")
  BY <1>0, <1>2, AtAwake DEF Parts, Shape, Ups, Downs, Resets, PmPlaces
<1>4. todo' = [todo EXCEPT !["pm"] = After(pi, pc)]
  BY <1>1, PmFrom
<1>5. PICK j, d : /\ todo' = [todo EXCEPT !["pm"] = Rest(j, d)]
             /\ \/ pi = "none" /\ pc = "wake3" /\ j = "none" /\ d = "end"
  BY <1>3, <1>4
<1>6. Types'
  BY <1>0, <1>1, <1>5 DEF Parts, Types
<1>7. Shape(ui, uc, wi, wc, j, d, yi, yc)'
  BY <1>0, <1>1, <1>5 DEF Parts, Shape, Ups, Downs, Resets, UpPlaces, DownPlaces, PmPlaces
<1>8. Lock(uc, wc, d)'
  BY <1>0, <1>1, <1>5 DEF Parts, Lock, Locked
<1>9. Power(uc, d)'
  <2>1. asleep /\ uc = "end" /\ gone = "no" /\ usage = 1 /\ rpm = "active"
    BY <1>0, <1>5 DEF Parts, Power, Refs, Ref1, Ref2
  <2>2. usage' = 0 /\ asleep' = FALSE /\ gone' = "no" /\ rpm' = "active"
    BY <2>1, <1>1
  <2>3. (usage = Refs(uc) + (IF asleep THEN 1 ELSE 0))'
    BY <2>1, <2>2 DEF Refs, Ref1, Ref2
  <2>4. (rpm = "resuming" <=> uc \in UserResumes \/ d \in {"rres1", "rres2", "rres3"})'
    BY <1>5, <2>1, <2>2 DEF UserResumes
  <2> QED
    BY <1>5, <2>1, <2>2, <2>3, <2>4 DEF Power
<1>10. Netdev(ui, uc, j, d)'
  BY <1>0, <1>1, <1>5 DEF Parts, Netdev, Flex, RunningAt, RingAt, IrqAt, PhyAt
<1>11. Device(ui, uc, j, d)'
  BY <1>0, <1>1, <1>5
    DEF Parts, Device, DownState, UpState, Between, Enabled, Off, HalfOpen, Quiet
<1>12. Napi(ui, uc, wi, j, d, yi)'
  BY <1>0, <1>1, <1>5 DEF Parts, Napi, Holds, Starts, Off, HalfOpen, Quiet
<1>13. Others(uc, wi, wc, yc)'
  BY <1>0, <1>1, <1>5
    DEF Parts, Alone, Others, Device, DownState, UpState, Between, Enabled, Off, HalfOpen,
          Quiet, Netdev, Flex, RunningAt, RingAt, IrqAt, PhyAt
<1>14. Parts(ui, uc, wi, wc, j, d, yi, yc)'
  BY <1>6, <1>7, <1>8, <1>9, <1>10, <1>11, <1>12, <1>13 DEF Parts
<1> QED
  BY <1>5, <1>14, PmArrives

(* The link handler enables NAPI. *)
LEMMA PhyNapiEnable ==
  ASSUME NEW ui, NEW uc, NEW wi, NEW wc, NEW pi, NEW pc, NEW yi, NEW yc,
         Good(ui, uc, wi, wc, pi, pc, yi, yc), Step("phy"), At("phy", "napi_enable")
  PROVE  IInv'
<1>0. Parts(ui, uc, wi, wc, pi, pc, yi, yc) /\ Alone(ui, uc, pi, pc)
  BY MasterAlone DEF Good
<1>1. /\ napi' = TRUE
      /\ Then("phy")
      /\ UNCHANGED <<rtnl, running, present, carrier, flags, queued, ring, irq, hw, phy,
        rpm, usage, idle, asleep, gone>>
  BY DoesNapiEnable
<1>2. /\ yi \in Routines /\ yc \in Places /\ Rest(yi, yc) # <<>>
      /\ First(yi, yc) = "napi_enable"
  BY PhyFrom
<1>3. \/ yi = "reset3" /\ After(yi, yc) = Rest("reset4", yc)
  BY <1>0, <1>2, AtNapiEnable DEF Parts, Shape, Ups, Downs, Resets, PhyPlaces
<1>4. todo' = [todo EXCEPT !["phy"] = After(yi, yc)]
  BY <1>1, PhyFrom
<1>5. PICK j, d : /\ todo' = [todo EXCEPT !["phy"] = Rest(j, d)]
             /\ \/ yi = "reset3" /\ j = "reset4" /\ d = yc
  BY <1>3, <1>4
<1>6. Types'
  BY <1>0, <1>1, <1>5 DEF Parts, Types
<1>7. Shape(ui, uc, wi, wc, pi, pc, j, d)'
  BY <1>0, <1>1, <1>5 DEF Parts, Shape, Ups, Downs, Resets, UpPlaces, DownPlaces, PhyPlaces
<1>8. Lock(uc, wc, pc)'
  BY <1>0, <1>1, <1>5 DEF Parts, Lock, Locked
<1>9. Power(uc, pc)'
  BY <1>0, <1>1, <1>5 DEF Parts, Power, Refs, Ref1, Ref2, UserResumes
<1>10. Netdev(ui, uc, pi, pc)'
  BY <1>0, <1>1, <1>5 DEF Parts, Netdev, Flex, RunningAt, RingAt, IrqAt, PhyAt
<1>11. Device(ui, uc, pi, pc)'
  BY <1>0, <1>1, <1>5
    DEF Parts, Alone, Device, DownState, UpState, Between, Enabled, Off, HalfOpen, Quiet,
          Netdev, Flex, RunningAt, RingAt, IrqAt, PhyAt, Power, Refs, Ref1, Ref2,
          UserResumes, Shape, Ups, Downs, Resets, UpPlaces, DownPlaces, Others
<1>12. Napi(ui, uc, wi, pi, pc, j)'
  BY <1>0, <1>1, <1>5 DEF Parts, Napi, Holds, Starts, Off, HalfOpen, Quiet
<1>13. Others(uc, wi, wc, d)'
  BY <1>0, <1>1, <1>5
    DEF Parts, Alone, Others, Device, DownState, UpState, Between, Enabled, Off, HalfOpen,
          Quiet, Netdev, Flex, RunningAt, RingAt, IrqAt, PhyAt
<1>14. Parts(ui, uc, wi, wc, pi, pc, j, d)'
  BY <1>6, <1>7, <1>8, <1>9, <1>10, <1>11, <1>12, <1>13 DEF Parts
<1> QED
  BY <1>5, <1>14, PhyArrives

(* The link handler disables NAPI. *)
LEMMA PhyNapiDisable ==
  ASSUME NEW ui, NEW uc, NEW wi, NEW wc, NEW pi, NEW pc, NEW yi, NEW yc,
         Good(ui, uc, wi, wc, pi, pc, yi, yc), Step("phy"), At("phy", "napi_disable")
  PROVE  IInv'
<1>0. Parts(ui, uc, wi, wc, pi, pc, yi, yc) /\ Alone(ui, uc, pi, pc)
  BY MasterAlone DEF Good
<1>1. /\ napi /\ napi' = FALSE
      /\ Then("phy")
      /\ UNCHANGED <<rtnl, running, present, carrier, flags, queued, ring, irq, hw, phy,
        rpm, usage, idle, asleep, gone>>
  BY DoesNapiDisable
<1>2. /\ yi \in Routines /\ yc \in Places /\ Rest(yi, yc) # <<>>
      /\ First(yi, yc) = "napi_disable"
  BY PhyFrom
<1>3. \/ yi = "reset1" /\ After(yi, yc) = Rest("reset2", yc)
  BY <1>0, <1>2, AtNapiDisable DEF Parts, Shape, Ups, Downs, Resets, PhyPlaces
<1>4. todo' = [todo EXCEPT !["phy"] = After(yi, yc)]
  BY <1>1, PhyFrom
<1>5. PICK j, d : /\ todo' = [todo EXCEPT !["phy"] = Rest(j, d)]
             /\ \/ yi = "reset1" /\ j = "reset2" /\ d = yc
  BY <1>3, <1>4
<1>6. Types'
  BY <1>0, <1>1, <1>5 DEF Parts, Types
<1>7. Shape(ui, uc, wi, wc, pi, pc, j, d)'
  BY <1>0, <1>1, <1>5 DEF Parts, Shape, Ups, Downs, Resets, UpPlaces, DownPlaces, PhyPlaces
<1>8. Lock(uc, wc, pc)'
  BY <1>0, <1>1, <1>5 DEF Parts, Lock, Locked
<1>9. Power(uc, pc)'
  BY <1>0, <1>1, <1>5 DEF Parts, Power, Refs, Ref1, Ref2, UserResumes
<1>10. Netdev(ui, uc, pi, pc)'
  BY <1>0, <1>1, <1>5 DEF Parts, Netdev, Flex, RunningAt, RingAt, IrqAt, PhyAt
<1>11. Device(ui, uc, pi, pc)'
  BY <1>0, <1>1, <1>5
    DEF Parts, Device, DownState, UpState, Between, Enabled, Off, HalfOpen, Quiet
<1>12. Napi(ui, uc, wi, pi, pc, j)'
  BY <1>0, <1>1, <1>5 DEF Parts, Napi, Holds, Starts, Off, HalfOpen, Quiet
<1>13. Others(uc, wi, wc, d)'
  BY <1>0, <1>1, <1>5
    DEF Parts, Alone, Others, Device, DownState, UpState, Between, Enabled, Off, HalfOpen,
          Quiet, Netdev, Flex, RunningAt, RingAt, IrqAt, PhyAt
<1>14. Parts(ui, uc, wi, wc, pi, pc, j, d)'
  BY <1>6, <1>7, <1>8, <1>9, <1>10, <1>11, <1>12, <1>13 DEF Parts
<1> QED
  BY <1>5, <1>14, PhyArrives

(* The link handler stops the chip and clears the rings. *)
LEMMA PhyClear ==
  ASSUME NEW ui, NEW uc, NEW wi, NEW wc, NEW pi, NEW pc, NEW yi, NEW yc,
         Good(ui, uc, wi, wc, pi, pc, yi, yc), Step("phy"), At("phy", "clear")
  PROVE  IInv'
<1>0. Parts(ui, uc, wi, wc, pi, pc, yi, yc) /\ Alone(ui, uc, pi, pc)
  BY MasterAlone DEF Good
<1>1. /\ hw' = FALSE
      /\ Then("phy")
      /\ UNCHANGED <<rtnl, running, present, carrier, flags, queued, ring, irq, napi, phy,
        rpm, usage, idle, asleep, gone>>
  BY DoesClear
<1>2. /\ yi \in Routines /\ yc \in Places /\ Rest(yi, yc) # <<>>
      /\ First(yi, yc) = "clear"
  BY PhyFrom
<1>3. \/ yi = "reset2" /\ After(yi, yc) = Rest("reset3", yc)
  BY <1>0, <1>2, AtClear DEF Parts, Shape, Ups, Downs, Resets, PhyPlaces
<1>4. todo' = [todo EXCEPT !["phy"] = After(yi, yc)]
  BY <1>1, PhyFrom
<1>5. PICK j, d : /\ todo' = [todo EXCEPT !["phy"] = Rest(j, d)]
             /\ \/ yi = "reset2" /\ j = "reset3" /\ d = yc
  BY <1>3, <1>4
<1>6. Types'
  BY <1>0, <1>1, <1>5 DEF Parts, Types
<1>7. Shape(ui, uc, wi, wc, pi, pc, j, d)'
  BY <1>0, <1>1, <1>5 DEF Parts, Shape, Ups, Downs, Resets, UpPlaces, DownPlaces, PhyPlaces
<1>8. Lock(uc, wc, pc)'
  BY <1>0, <1>1, <1>5 DEF Parts, Lock, Locked
<1>9. Power(uc, pc)'
  BY <1>0, <1>1, <1>5 DEF Parts, Power, Refs, Ref1, Ref2, UserResumes
<1>10. Netdev(ui, uc, pi, pc)'
  BY <1>0, <1>1, <1>5 DEF Parts, Netdev, Flex, RunningAt, RingAt, IrqAt, PhyAt
<1>11. Device(ui, uc, pi, pc)'
  BY <1>0, <1>1, <1>5
    DEF Parts, Device, DownState, UpState, Between, Enabled, Off, HalfOpen, Quiet
<1>12. Napi(ui, uc, wi, pi, pc, j)'
  BY <1>0, <1>1, <1>5 DEF Parts, Napi, Holds, Starts, Off, HalfOpen, Quiet
<1>13. Others(uc, wi, wc, d)'
  BY <1>0, <1>1, <1>5
    DEF Parts, Alone, Others, Device, DownState, UpState, Between, Enabled, Off, HalfOpen,
          Quiet, Netdev, Flex, RunningAt, RingAt, IrqAt, PhyAt
<1>14. Parts(ui, uc, wi, wc, pi, pc, j, d)'
  BY <1>6, <1>7, <1>8, <1>9, <1>10, <1>11, <1>12, <1>13 DEF Parts
<1> QED
  BY <1>5, <1>14, PhyArrives

(* The link handler starts the chip. *)
LEMMA PhyHwStart ==
  ASSUME NEW ui, NEW uc, NEW wi, NEW wc, NEW pi, NEW pc, NEW yi, NEW yc,
         Good(ui, uc, wi, wc, pi, pc, yi, yc), Step("phy"), At("phy", "hw_start")
  PROVE  IInv'
<1>0. Parts(ui, uc, wi, wc, pi, pc, yi, yc) /\ Alone(ui, uc, pi, pc)
  BY MasterAlone DEF Good
<1>1. /\ hw' = TRUE
      /\ Then("phy")
      /\ UNCHANGED <<rtnl, running, present, carrier, flags, queued, ring, irq, napi, phy,
        rpm, usage, idle, asleep, gone>>
  BY DoesHwStart
<1>2. /\ yi \in Routines /\ yc \in Places /\ Rest(yi, yc) # <<>>
      /\ First(yi, yc) = "hw_start"
  BY PhyFrom
<1>3. \/ yi = "reset4" /\ After(yi, yc) = Rest("none", yc)
  BY <1>0, <1>2, AtHwStart DEF Parts, Shape, Ups, Downs, Resets, PhyPlaces
<1>4. todo' = [todo EXCEPT !["phy"] = After(yi, yc)]
  BY <1>1, PhyFrom
<1>5. PICK j, d : /\ todo' = [todo EXCEPT !["phy"] = Rest(j, d)]
             /\ \/ yi = "reset4" /\ j = "none" /\ d = yc
  BY <1>3, <1>4
<1>6. Types'
  BY <1>0, <1>1, <1>5 DEF Parts, Types
<1>7. Shape(ui, uc, wi, wc, pi, pc, j, d)'
  BY <1>0, <1>1, <1>5 DEF Parts, Shape, Ups, Downs, Resets, UpPlaces, DownPlaces, PhyPlaces
<1>8. Lock(uc, wc, pc)'
  BY <1>0, <1>1, <1>5 DEF Parts, Lock, Locked
<1>9. Power(uc, pc)'
  BY <1>0, <1>1, <1>5 DEF Parts, Power, Refs, Ref1, Ref2, UserResumes
<1>10. Netdev(ui, uc, pi, pc)'
  BY <1>0, <1>1, <1>5 DEF Parts, Netdev, Flex, RunningAt, RingAt, IrqAt, PhyAt
<1>11. Device(ui, uc, pi, pc)'
  BY <1>0, <1>1, <1>5
    DEF Parts, Alone, Device, DownState, UpState, Between, Enabled, Off, HalfOpen, Quiet,
          Netdev, Flex, RunningAt, RingAt, IrqAt, PhyAt, Power, Refs, Ref1, Ref2,
          UserResumes, Shape, Ups, Downs, Resets, UpPlaces, DownPlaces, Others
<1>12. Napi(ui, uc, wi, pi, pc, j)'
  BY <1>0, <1>1, <1>5 DEF Parts, Napi, Holds, Starts, Off, HalfOpen, Quiet
<1>13. Others(uc, wi, wc, d)'
  BY <1>0, <1>1, <1>5
    DEF Parts, Alone, Others, Device, DownState, UpState, Between, Enabled, Off, HalfOpen,
          Quiet, Netdev, Flex, RunningAt, RingAt, IrqAt, PhyAt
<1>14. Parts(ui, uc, wi, wc, pi, pc, j, d)'
  BY <1>6, <1>7, <1>8, <1>9, <1>10, <1>11, <1>12, <1>13 DEF Parts
<1> QED
  BY <1>5, <1>14, PhyArrives

(* The link handler asks for a runtime suspend. *)
LEMMA PhyPmIdle ==
  ASSUME NEW ui, NEW uc, NEW wi, NEW wc, NEW pi, NEW pc, NEW yi, NEW yc,
         Good(ui, uc, wi, wc, pi, pc, yi, yc), Step("phy"), At("phy", "pm_idle")
  PROVE  IInv'
<1>0. Parts(ui, uc, wi, wc, pi, pc, yi, yc) /\ Alone(ui, uc, pi, pc)
  BY MasterAlone DEF Good
<1>1. /\ Then("phy")
      /\ UNCHANGED <<rtnl, running, present, carrier, flags, queued, ring, irq, napi, hw,
        phy, rpm, usage, asleep, gone>>
  BY DoesPmIdle
<1>2. /\ yi \in Routines /\ yc \in Places /\ Rest(yi, yc) # <<>>
      /\ First(yi, yc) = "pm_idle"
  BY PhyFrom
<1>3. \/ yi = "none" /\ yc = "linkdown" /\ After(yi, yc) = Rest("none", "end")
  BY <1>0, <1>2, AtPmIdle DEF Parts, Shape, Ups, Downs, Resets, PhyPlaces
<1>4. todo' = [todo EXCEPT !["phy"] = After(yi, yc)]
  BY <1>1, PhyFrom
<1>5. PICK j, d : /\ todo' = [todo EXCEPT !["phy"] = Rest(j, d)]
             /\ \/ yi = "none" /\ yc = "linkdown" /\ j = "none" /\ d = "end"
  BY <1>3, <1>4
<1>6. Types'
  BY <1>0, <1>1, <1>5 DEF Parts, Types
<1>7. Shape(ui, uc, wi, wc, pi, pc, j, d)'
  BY <1>0, <1>1, <1>5 DEF Parts, Shape, Ups, Downs, Resets, UpPlaces, DownPlaces, PhyPlaces
<1>8. Lock(uc, wc, pc)'
  BY <1>0, <1>1, <1>5 DEF Parts, Lock, Locked
<1>9. Power(uc, pc)'
  BY <1>0, <1>1, <1>5 DEF Parts, Power, Refs, Ref1, Ref2, UserResumes
<1>10. Netdev(ui, uc, pi, pc)'
  BY <1>0, <1>1, <1>5 DEF Parts, Netdev, Flex, RunningAt, RingAt, IrqAt, PhyAt
<1>11. Device(ui, uc, pi, pc)'
  BY <1>0, <1>1, <1>5
    DEF Parts, Device, DownState, UpState, Between, Enabled, Off, HalfOpen, Quiet
<1>12. Napi(ui, uc, wi, pi, pc, j)'
  BY <1>0, <1>1, <1>5 DEF Parts, Napi, Holds, Starts, Off, HalfOpen, Quiet
<1>13. Others(uc, wi, wc, d)'
  BY <1>0, <1>1, <1>5
    DEF Parts, Alone, Others, Device, DownState, UpState, Between, Enabled, Off, HalfOpen,
          Quiet, Netdev, Flex, RunningAt, RingAt, IrqAt, PhyAt
<1>14. Parts(ui, uc, wi, wc, pi, pc, j, d)'
  BY <1>6, <1>7, <1>8, <1>9, <1>10, <1>11, <1>12, <1>13 DEF Parts
<1> QED
  BY <1>5, <1>14, PhyArrives

(* The link handler takes the request for one back. *)
LEMMA PhyPmResume ==
  ASSUME NEW ui, NEW uc, NEW wi, NEW wc, NEW pi, NEW pc, NEW yi, NEW yc,
         Good(ui, uc, wi, wc, pi, pc, yi, yc), Step("phy"), At("phy", "pm_resume")
  PROVE  IInv'
<1>0. Parts(ui, uc, wi, wc, pi, pc, yi, yc) /\ Alone(ui, uc, pi, pc)
  BY MasterAlone DEF Good
<1>1. /\ Then("phy")
      /\ UNCHANGED <<rtnl, running, present, carrier, flags, queued, ring, irq, napi, hw,
        phy, rpm, usage, asleep, gone>>
  BY DoesPmResume
<1>2. /\ yi \in Routines /\ yc \in Places /\ Rest(yi, yc) # <<>>
      /\ First(yi, yc) = "pm_resume"
  BY PhyFrom
<1>3. \/ yi = "none" /\ yc = "linkup" /\ After(yi, yc) = Rest("none", "end")
  BY <1>0, <1>2, AtPmResume DEF Parts, Shape, Ups, Downs, Resets, PhyPlaces
<1>4. todo' = [todo EXCEPT !["phy"] = After(yi, yc)]
  BY <1>1, PhyFrom
<1>5. PICK j, d : /\ todo' = [todo EXCEPT !["phy"] = Rest(j, d)]
             /\ \/ yi = "none" /\ yc = "linkup" /\ j = "none" /\ d = "end"
  BY <1>3, <1>4
<1>6. Types'
  BY <1>0, <1>1, <1>5 DEF Parts, Types
<1>7. Shape(ui, uc, wi, wc, pi, pc, j, d)'
  BY <1>0, <1>1, <1>5 DEF Parts, Shape, Ups, Downs, Resets, UpPlaces, DownPlaces, PhyPlaces
<1>8. Lock(uc, wc, pc)'
  BY <1>0, <1>1, <1>5 DEF Parts, Lock, Locked
<1>9. Power(uc, pc)'
  BY <1>0, <1>1, <1>5 DEF Parts, Power, Refs, Ref1, Ref2, UserResumes
<1>10. Netdev(ui, uc, pi, pc)'
  BY <1>0, <1>1, <1>5 DEF Parts, Netdev, Flex, RunningAt, RingAt, IrqAt, PhyAt
<1>11. Device(ui, uc, pi, pc)'
  BY <1>0, <1>1, <1>5
    DEF Parts, Device, DownState, UpState, Between, Enabled, Off, HalfOpen, Quiet
<1>12. Napi(ui, uc, wi, pi, pc, j)'
  BY <1>0, <1>1, <1>5 DEF Parts, Napi, Holds, Starts, Off, HalfOpen, Quiet
<1>13. Others(uc, wi, wc, d)'
  BY <1>0, <1>1, <1>5
    DEF Parts, Alone, Others, Device, DownState, UpState, Between, Enabled, Off, HalfOpen,
          Quiet, Netdev, Flex, RunningAt, RingAt, IrqAt, PhyAt
<1>14. Parts(ui, uc, wi, wc, pi, pc, j, d)'
  BY <1>6, <1>7, <1>8, <1>9, <1>10, <1>11, <1>12, <1>13 DEF Parts
<1> QED
  BY <1>5, <1>14, PhyArrives

-----------------------------------------------------------------------------
(* The steps that call, test or jump.                                          *)

(* The user's thread takes a reference to runtime power. *)
LEMMA UserGet ==
  ASSUME NEW ui, NEW uc, NEW wi, NEW wc, NEW pi, NEW pc, NEW yi, NEW yc,
         Good(ui, uc, wi, wc, pi, pc, yi, yc), Step("user"), At("user", "get")
  PROVE  IInv'
<1>0. Parts(ui, uc, wi, wc, pi, pc, yi, yc) /\ Alone(ui, uc, pi, pc)
  BY MasterAlone DEF Good
<1>1. /\ \/ rpm = "active" /\ usage' = usage + 1 /\ Then("user") /\ rpm' = rpm
         \/ rpm = "suspended" /\ rpm' = "resuming" /\ Jump("user", RuntimeResume \o todo["user"]) /\ usage' = usage
      /\ UNCHANGED <<rtnl, running, present, carrier, flags, queued, ring, irq, napi, hw,
        phy, asleep, gone>>
  BY DoesGet
<1>2. /\ ui \in Routines /\ uc \in Places /\ Rest(ui, uc) # <<>>
      /\ First(ui, uc) = "get" /\ todo["user"] = Rest(ui, uc)
  BY UserFrom
<1>3. ui = "none"
  BY <1>2, AtGet
<1>a. CASE rpm = "active"
  <2>1. \/ uc = "open4" /\ After(ui, uc) = Rest("none", "open5")
        \/ uc = "close3" /\ After(ui, uc) = Rest("down1", "close4")
        \/ uc = "leave3" /\ After(ui, uc) = Rest("down1", "leave4")
        \/ uc = "leave0" /\ After(ui, uc) = Rest("none", "leave1")
        \/ uc = "bare" /\ After(ui, uc) = Rest("none", "removed")
        \/ uc = "shut1" /\ After(ui, uc) = Rest("none", "shut2")
    BY <1>0, <1>2, AtGet DEF Parts, Shape, Ups, Downs, Resets, UserPlaces
  <2>2. todo' = [todo EXCEPT !["user"] = After(ui, uc)] /\ usage' = usage + 1 /\ rpm' = rpm
    BY <1>1, <1>a, UserFrom
  <2>3. PICK j, d :
          /\ todo' = [todo EXCEPT !["user"] = Rest(j, d)]
          /\ \/ uc = "open4" /\ j = "none" /\ d = "open5"
             \/ uc = "close3" /\ j = "down1" /\ d = "close4"
             \/ uc = "leave3" /\ j = "down1" /\ d = "leave4"
             \/ uc = "leave0" /\ j = "none" /\ d = "leave1"
             \/ uc = "bare" /\ j = "none" /\ d = "removed"
             \/ uc = "shut1" /\ j = "none" /\ d = "shut2"
    BY <2>1, <2>2
  <2>4. Types'
    BY <1>0, <1>1, <1>3, <1>a, <2>2, <2>3 DEF Parts, Types
  <2>5. Shape(j, d, wi, wc, pi, pc, yi, yc)'
    BY <1>0, <1>1, <1>3, <1>a, <2>2, <2>3
      DEF Parts, Shape, Ups, Downs, Resets, UpPlaces, DownPlaces, UserPlaces
  <2>6. Lock(d, wc, pc)'
    BY <1>0, <1>1, <1>3, <1>a, <2>2, <2>3 DEF Parts, Lock, Locked
  <2>7. Power(d, pc)'
    BY <1>0, <1>1, <1>3, <1>a, <2>2, <2>3 DEF Parts, Power, Refs, Ref1, Ref2, UserResumes
  <2>8. Netdev(j, d, pi, pc)'
    BY <1>0, <1>1, <1>3, <1>a, <2>2, <2>3
      DEF Parts, Netdev, Flex, RunningAt, RingAt, IrqAt, PhyAt
  <2>9. Device(j, d, pi, pc)'
    <3>1. pc = "end" /\ pi = "none" /\ ~asleep /\ gone = "no"
      BY <1>0, <1>a, <2>3 DEF Parts, Shape, Power, PmPlaces, UpPlaces, DownPlaces
    <3>2. uc \in {"close3", "leave3"} => ~Off(uc, pc)
      BY <1>0, <1>a, <3>1 DEF Parts, Off, HalfOpen, Quiet, Netdev, Flex, RingAt, PhyAt
    <3>3. uc \notin {"close3", "leave3"} => j = "none" /\ (Off(d, pc)' <=> Off(uc, pc))
      BY <1>0, <1>1, <1>a, <2>2, <2>3, <3>1 DEF Off, HalfOpen, Quiet
    <3> QED
      BY <1>0, <1>1, <1>3, <2>3, <3>1, <3>2, <3>3
        DEF Parts, Device, DownState, UpState, Between, Enabled, Ups, Downs
  <2>10. Napi(j, d, wi, pi, pc, yi)'
    BY <1>0, <1>1, <1>3, <1>a, <2>2, <2>3
      DEF Parts, Alone, Napi, Holds, Starts, Off, HalfOpen, Quiet, Netdev, Flex, RunningAt,
            RingAt, IrqAt, PhyAt, Power, Refs, Ref1, Ref2, UserResumes, Shape, Ups, Downs,
            Resets, UpPlaces, DownPlaces
  <2>11. Others(d, wi, wc, yc)'
    BY <1>0, <1>1, <1>3, <1>a, <2>2, <2>3
      DEF Parts, Alone, Others, Device, DownState, UpState, Between, Enabled, Off, HalfOpen,
            Quiet, Netdev, Flex, RunningAt, RingAt, IrqAt, PhyAt
  <2>12. Parts(j, d, wi, wc, pi, pc, yi, yc)'
    BY <2>4, <2>5, <2>6, <2>7, <2>8, <2>9, <2>10, <2>11 DEF Parts
  <2> QED
    BY <1>0, <1>1, <1>3, <1>a, <2>2, <2>3, <2>12, UserArrives
<1>b. CASE rpm = "suspended"
  <2>1. uc \in {"open4", "close3", "leave0", "bare", "shut1"}
    BY <1>0, <1>2, <1>b, AtGet DEF Parts, Shape, Ups, Downs, Resets, UserPlaces, Power, Ref1
  <2>2. /\ todo' = [todo EXCEPT !["user"] = RuntimeResume \o Rest("none", uc)]
        /\ usage' = usage /\ rpm' = "resuming"
    BY <1>1, <1>3, <1>b, UserFrom DEF Jump
  <2>3. PICK j, d :
          /\ todo' = [todo EXCEPT !["user"] = Rest(j, d)]
          /\ j = "none"
          /\ \/ uc = "open4" /\ d = "oget1"
             \/ uc = "close3" /\ d = "cget1"
             \/ uc = "leave0" /\ d = "lget1"
             \/ uc = "bare" /\ d = "bget1"
             \/ uc = "shut1" /\ d = "sget1"
    BY <2>1, <2>2, Begun
  <2>4. Types'
    BY <1>0, <1>1, <1>3, <1>b, <2>1, <2>2, <2>3 DEF Parts, Types
  <2>5. Shape(j, d, wi, wc, pi, pc, yi, yc)'
    BY <1>0, <1>1, <1>3, <1>b, <2>1, <2>2, <2>3
      DEF Parts, Shape, Ups, Downs, Resets, UpPlaces, DownPlaces, UserPlaces
  <2>6. Lock(d, wc, pc)'
    BY <1>0, <1>1, <1>3, <1>b, <2>1, <2>2, <2>3 DEF Parts, Lock, Locked
  <2>7. Power(d, pc)'
    BY <1>0, <1>1, <1>3, <1>b, <2>1, <2>2, <2>3
      DEF Parts, Power, Refs, Ref1, Ref2, UserResumes
  <2>8. Netdev(j, d, pi, pc)'
    BY <1>0, <1>1, <1>3, <1>b, <2>1, <2>2, <2>3
      DEF Parts, Netdev, Flex, RunningAt, RingAt, IrqAt, PhyAt
  <2>9. Device(j, d, pi, pc)'
    BY <1>0, <1>1, <1>3, <1>b, <2>1, <2>2, <2>3
      DEF Parts, Alone, Device, DownState, UpState, Between, Enabled, Off, HalfOpen, Quiet,
            Netdev, Flex, RunningAt, RingAt, IrqAt, PhyAt
  <2>10. Napi(j, d, wi, pi, pc, yi)'
    BY <1>0, <1>1, <1>3, <1>b, <2>1, <2>2, <2>3
      DEF Parts, Alone, Napi, Holds, Starts, Off, HalfOpen, Quiet, Netdev, Flex, RunningAt,
            RingAt, IrqAt, PhyAt
  <2>11. Others(d, wi, wc, yc)'
    BY <1>0, <1>1, <1>3, <1>b, <2>1, <2>2, <2>3
      DEF Parts, Alone, Others, Device, DownState, UpState, Between, Enabled, Off, HalfOpen,
            Quiet, Netdev, Flex, RunningAt, RingAt, IrqAt, PhyAt
  <2>12. Parts(j, d, wi, wc, pi, pc, yi, yc)'
    BY <2>4, <2>5, <2>6, <2>7, <2>8, <2>9, <2>10, <2>11 DEF Parts
  <2> QED
    BY <1>0, <1>1, <1>3, <1>b, <2>1, <2>2, <2>3, <2>12, UserArrives
<1> QED
  BY <1>1, <1>a, <1>b

(* The user's thread resumes a device that is not present. *)
LEMMA UserResumeParent ==
  ASSUME NEW ui, NEW uc, NEW wi, NEW wc, NEW pi, NEW pc, NEW yi, NEW yc,
         Good(ui, uc, wi, wc, pi, pc, yi, yc), Step("user"), At("user", "resume_parent")
  PROVE  IInv'
<1>0. Parts(ui, uc, wi, wc, pi, pc, yi, yc) /\ Alone(ui, uc, pi, pc)
  BY MasterAlone DEF Good
<1>1. /\ \/ ~present /\ rpm = "suspended" /\ rpm' = "resuming" /\ Jump("user", RuntimeResume \o todo["user"])
         \/ ~present /\ rpm = "active" /\ rpm' = rpm /\ Jump("user", <<"unrtnl">>)
         \/ present /\ Then("user") /\ rpm' = rpm
      /\ UNCHANGED <<rtnl, running, present, carrier, flags, queued, ring, irq, napi, hw,
        phy, usage, idle, asleep, gone>>
  BY DoesResumeParent
<1>2. /\ ui \in Routines /\ uc \in Places /\ Rest(ui, uc) # <<>>
      /\ First(ui, uc) = "resume_parent" /\ todo["user"] = Rest(ui, uc)
  BY UserFrom
<1>3. ui = "none" /\ uc = "open2" /\ After(ui, uc) = Rest("none", "open3")
  BY <1>2, AtResumeParent
<1>4. PICK j, d :
        /\ todo' = [todo EXCEPT !["user"] = Rest(j, d)] /\ j = "none"
        /\ \/ rpm = "suspended" /\ rpm' = "resuming" /\ d = "parent1"
           \/ rpm' = rpm /\ d \in {"open3", "open9"}
  <2>1. CASE ~present /\ rpm = "suspended" /\ rpm' = "resuming" /\ Jump("user", RuntimeResume \o todo["user"])
    BY <1>2, <1>3, <2>1, Begun DEF Jump
  <2>2. CASE ~present /\ rpm = "active" /\ rpm' = rpm /\ Jump("user", <<"unrtnl">>)
    BY <2>2, Begun DEF Jump
  <2>3. CASE present /\ Then("user") /\ rpm' = rpm
    BY <1>3, <2>3, UserFrom
  <2> QED
    BY <1>1, <2>1, <2>2, <2>3
<1>5. Types'
  BY <1>0, <1>1, <1>3, <1>4 DEF Parts, Types
<1>6. Shape(j, d, wi, wc, pi, pc, yi, yc)'
  BY <1>0, <1>1, <1>3, <1>4
    DEF Parts, Shape, Ups, Downs, Resets, UpPlaces, DownPlaces, UserPlaces
<1>7. Lock(d, wc, pc)'
  BY <1>0, <1>1, <1>3, <1>4 DEF Parts, Lock, Locked
<1>8. Power(d, pc)'
  BY <1>0, <1>1, <1>3, <1>4 DEF Parts, Power, Refs, Ref1, Ref2, UserResumes
<1>9. Netdev(j, d, pi, pc)'
  BY <1>0, <1>1, <1>3, <1>4 DEF Parts, Netdev, Flex, RunningAt, RingAt, IrqAt, PhyAt
<1>10. Device(j, d, pi, pc)'
  BY <1>0, <1>1, <1>3, <1>4
    DEF Parts, Alone, Device, DownState, UpState, Between, Enabled, Off, HalfOpen, Quiet,
          Netdev, Flex, RunningAt, RingAt, IrqAt, PhyAt
<1>11. Napi(j, d, wi, pi, pc, yi)'
  BY <1>0, <1>1, <1>3, <1>4
    DEF Parts, Alone, Napi, Holds, Starts, Off, HalfOpen, Quiet, Netdev, Flex, RunningAt,
          RingAt, IrqAt, PhyAt
<1>12. Others(d, wi, wc, yc)'
  BY <1>0, <1>1, <1>3, <1>4
    DEF Parts, Alone, Others, Device, DownState, UpState, Between, Enabled, Off, HalfOpen,
          Quiet, Netdev, Flex, RunningAt, RingAt, IrqAt, PhyAt
<1>13. Parts(j, d, wi, wc, pi, pc, yi, yc)'
  BY <1>5, <1>6, <1>7, <1>8, <1>9, <1>10, <1>11, <1>12 DEF Parts
<1> QED
  BY <1>0, <1>1, <1>3, <1>4, <1>13, UserArrives

(* The user's thread calls rtl8169_up if the rings are there. *)
LEMMA UserUp ==
  ASSUME NEW ui, NEW uc, NEW wi, NEW wc, NEW pi, NEW pc, NEW yi, NEW yc,
         Good(ui, uc, wi, wc, pi, pc, yi, yc), Step("user"), At("user", "up")
  PROVE  IInv'
<1>0. Parts(ui, uc, wi, wc, pi, pc, yi, yc) /\ Alone(ui, uc, pi, pc)
  BY MasterAlone DEF Good
<1>1. /\ ThenCall("user", IF ring THEN Up ELSE <<>>)
      /\ UNCHANGED <<rtnl, running, present, carrier, flags, queued, ring, irq, napi, hw,
        phy, rpm, usage, idle, asleep, gone>>
  BY DoesUp
<1>2. /\ ui \in Routines /\ uc \in Places /\ Rest(ui, uc) # <<>>
      /\ First(ui, uc) = "up" /\ todo["user"] = Rest(ui, uc)
  BY UserFrom
<1>3. /\ ui = "none"
      /\ \/ uc = "parent1" /\ After(ui, uc) = Rest("none", "parent2")
         \/ uc = "oget1" /\ After(ui, uc) = Rest("none", "oget2")
         \/ uc = "cget1" /\ After(ui, uc) = Rest("none", "cget2")
         \/ uc = "lget1" /\ After(ui, uc) = Rest("none", "lget2")
         \/ uc = "bget1" /\ After(ui, uc) = Rest("none", "bget2")
         \/ uc = "sget1" /\ After(ui, uc) = Rest("none", "sget2")
  BY <1>0, <1>2, AtUp DEF Parts, Shape, Ups, Downs, Resets, UserPlaces
<1>4. PICK j, d :
        /\ todo' = [todo EXCEPT !["user"] = Rest(j, d)]
        /\ j = IF ring THEN "up1" ELSE "none"
        /\ \/ uc = "parent1" /\ d = "parent2"
           \/ uc = "oget1" /\ d = "oget2"
           \/ uc = "cget1" /\ d = "cget2"
           \/ uc = "lget1" /\ d = "lget2"
           \/ uc = "bget1" /\ d = "bget2"
           \/ uc = "sget1" /\ d = "sget2"
  <2>1. PICK d : /\ d \in Places /\ After(ui, uc) = Rest("none", d)
                 /\ \/ uc = "parent1" /\ d = "parent2"
                    \/ uc = "oget1" /\ d = "oget2"
                    \/ uc = "cget1" /\ d = "cget2"
                    \/ uc = "lget1" /\ d = "lget2"
                    \/ uc = "bget1" /\ d = "bget2"
                    \/ uc = "sget1" /\ d = "sget2"
    BY <1>3 DEF Places, UserPlaces, PmPlaces
  <2>2. todo' = [todo EXCEPT !["user"] = (IF ring THEN Up ELSE <<>>) \o Rest("none", d)]
    BY <1>1, <1>2, <2>1 DEF ThenCall, After
  <2>3. Up \o Rest("none", d) = Rest("up1", d) /\ <<>> \o Rest("none", d) = Rest("none", d)
    BY <2>1, Called DEF Routines
  <2>4. CASE ring
    BY <2>1, <2>2, <2>3, <2>4
  <2>5. CASE ~ring
    BY <2>1, <2>2, <2>3, <2>5
  <2> QED
    BY <2>4, <2>5
<1>x. Off(uc, pc)
  BY <1>0, <1>3
    DEF Parts, Alone, Shape, Off, HalfOpen, Quiet, Netdev, Flex, RunningAt, RingAt, PhyAt,
          Lock, Locked, Power, Ref1, Ref2, UserResumes, PmPlaces
<1>y. ~ring \/ d \in UpPlaces
  BY <1>0, <1>3, <1>4
    DEF UpPlaces, Parts, Alone, Shape, Off, HalfOpen, Quiet, Netdev, Flex, RunningAt,
          RingAt, PhyAt, Lock, Locked, Power, Ref1, Ref2, UserResumes, PmPlaces
<1>z. ~ring => Off(uc, pc) /\ Off(d, pc)'
  BY <1>1 DEF Off
<1>v. ui = "none" /\ pi = "none" /\ (ring => phy # "none")
  BY <1>0, <1>3
    DEF Parts, Alone, Shape, Off, HalfOpen, Quiet, Netdev, Flex, RunningAt, RingAt, PhyAt,
          Lock, Locked, Power, Ref1, Ref2, UserResumes, PmPlaces
<1>5. Types'
  BY <1>0, <1>1, <1>3, <1>4, <1>v, <1>x, <1>y, <1>z DEF Parts, Types
<1>6. Shape(j, d, wi, wc, pi, pc, yi, yc)'
  BY <1>0, <1>1, <1>3, <1>4, <1>v, <1>x, <1>y, <1>z
    DEF Parts, Shape, Ups, Downs, Resets, UpPlaces, DownPlaces, UserPlaces
<1>7. Lock(d, wc, pc)'
  BY <1>0, <1>1, <1>3, <1>4, <1>v, <1>x, <1>y, <1>z DEF Parts, Lock, Locked
<1>8. Power(d, pc)'
  BY <1>0, <1>1, <1>3, <1>4, <1>v, <1>x, <1>y, <1>z
    DEF Parts, Power, Refs, Ref1, Ref2, UserResumes
<1>9. Netdev(j, d, pi, pc)'
  BY <1>0, <1>1, <1>3, <1>4, <1>v, <1>x, <1>y, <1>z
    DEF Parts, Netdev, Flex, RunningAt, RingAt, IrqAt, PhyAt
<1>10. Device(j, d, pi, pc)'
  BY <1>0, <1>1, <1>3, <1>4, <1>v, <1>x, <1>y, <1>z
    DEF Parts, Types, Device, DownState, UpState, Between, Enabled, Ups, Downs
<1>11. Napi(j, d, wi, pi, pc, yi)'
  BY <1>0, <1>1, <1>3, <1>4, <1>v, <1>x, <1>y, <1>z
    DEF Parts, Others, Shape, Resets, Ups, Downs, Napi, Holds, Starts, Device, DownState,
          UpState, Between, Enabled
<1>12. Others(d, wi, wc, yc)'
  BY <1>0, <1>1, <1>3, <1>4, <1>v, <1>x, <1>y, <1>z
    DEF Parts, Alone, Others, Device, DownState, UpState, Between, Enabled, Off, HalfOpen,
          Quiet, Netdev, Flex, RunningAt, RingAt, IrqAt, PhyAt
<1>13. Parts(j, d, wi, wc, pi, pc, yi, yc)'
  BY <1>5, <1>6, <1>7, <1>8, <1>9, <1>10, <1>11, <1>12 DEF Parts
<1> QED
  BY <1>0, <1>1, <1>3, <1>4, <1>v, <1>x, <1>y, <1>z, <1>13, UserArrives

(* The user's thread calls rtl8169_down if the device runs. *)
LEMMA UserDown ==
  ASSUME NEW ui, NEW uc, NEW wi, NEW wc, NEW pi, NEW pc, NEW yi, NEW yc,
         Good(ui, uc, wi, wc, pi, pc, yi, yc), Step("user"), At("user", "down")
  PROVE  IInv'
<1>0. Parts(ui, uc, wi, wc, pi, pc, yi, yc) /\ Alone(ui, uc, pi, pc)
  BY MasterAlone DEF Good
<1>1. /\ ThenCall("user", IF running THEN Down ELSE <<>>)
      /\ UNCHANGED <<rtnl, running, present, carrier, flags, queued, ring, irq, napi, hw,
        phy, rpm, usage, idle, asleep, gone>>
  BY DoesDown
<1>2. /\ ui \in Routines /\ uc \in Places /\ Rest(ui, uc) # <<>>
      /\ First(ui, uc) = "down" /\ todo["user"] = Rest(ui, uc)
  BY UserFrom
<1>3. /\ ui = "none"
      /\ \/ uc = "shut4" /\ After(ui, uc) = Rest("none", "shut5")
  BY <1>0, <1>2, AtDown DEF Parts, Shape, Ups, Downs, Resets, UserPlaces
<1>4. PICK j, d :
        /\ todo' = [todo EXCEPT !["user"] = Rest(j, d)]
        /\ j = IF running THEN "down1" ELSE "none"
        /\ \/ uc = "shut4" /\ d = "shut5"
  <2>1. PICK d : /\ d \in Places /\ After(ui, uc) = Rest("none", d)
                 /\ \/ uc = "shut4" /\ d = "shut5"
    BY <1>3 DEF Places, UserPlaces, PmPlaces
  <2>2. todo' = [todo EXCEPT !["user"] = (IF running THEN Down ELSE <<>>) \o Rest("none", d)]
    BY <1>1, <1>2, <2>1 DEF ThenCall, After
  <2>3. Down \o Rest("none", d) = Rest("down1", d) /\ <<>> \o Rest("none", d) = Rest("none", d)
    BY <2>1, Called DEF Routines
  <2>4. CASE running
    BY <2>1, <2>2, <2>3, <2>4
  <2>5. CASE ~running
    BY <2>1, <2>2, <2>3, <2>5
  <2> QED
    BY <2>4, <2>5
<1>x. running <=> ring
  BY <1>0, <1>3
    DEF Parts, Alone, Shape, Off, HalfOpen, Quiet, Netdev, Flex, RunningAt, RingAt, PhyAt,
          Lock, Locked, Power, Ref1, Ref2, UserResumes, PmPlaces
<1>y. ring => ~Off(uc, pc)
  BY <1>0, <1>3
    DEF Parts, Alone, Shape, Off, HalfOpen, Quiet, Netdev, Flex, RunningAt, RingAt, PhyAt,
          Lock, Locked, Power, Ref1, Ref2, UserResumes, PmPlaces
<1>z. ~ring => Off(uc, pc) /\ Off(d, pc)'
  BY <1>1 DEF Off
<1>v. ui = "none" /\ pi = "none" /\ (ring => phy # "none")
  BY <1>0, <1>3
    DEF Parts, Alone, Shape, Off, HalfOpen, Quiet, Netdev, Flex, RunningAt, RingAt, PhyAt,
          Lock, Locked, Power, Ref1, Ref2, UserResumes, PmPlaces
<1>5. Types'
  BY <1>0, <1>1, <1>3, <1>4, <1>v, <1>x, <1>y, <1>z DEF Parts, Types
<1>6. Shape(j, d, wi, wc, pi, pc, yi, yc)'
  BY <1>0, <1>1, <1>3, <1>4, <1>v, <1>x, <1>y, <1>z
    DEF Parts, Shape, Ups, Downs, Resets, UpPlaces, DownPlaces, UserPlaces
<1>7. Lock(d, wc, pc)'
  BY <1>0, <1>1, <1>3, <1>4, <1>v, <1>x, <1>y, <1>z DEF Parts, Lock, Locked
<1>8. Power(d, pc)'
  BY <1>0, <1>1, <1>3, <1>4, <1>v, <1>x, <1>y, <1>z
    DEF Parts, Power, Refs, Ref1, Ref2, UserResumes
<1>9. Netdev(j, d, pi, pc)'
  BY <1>0, <1>1, <1>3, <1>4, <1>v, <1>x, <1>y, <1>z
    DEF Parts, Netdev, Flex, RunningAt, RingAt, IrqAt, PhyAt
<1>10. Device(j, d, pi, pc)'
  BY <1>0, <1>1, <1>3, <1>4, <1>v, <1>x, <1>y, <1>z
    DEF Parts, Device, DownState, UpState, Between, Enabled
<1>11. Napi(j, d, wi, pi, pc, yi)'
  BY <1>0, <1>1, <1>3, <1>4, <1>v, <1>x, <1>y, <1>z DEF Parts, Napi, Holds, Starts
<1>12. Others(d, wi, wc, yc)'
  BY <1>0, <1>1, <1>3, <1>4, <1>v, <1>x, <1>y, <1>z
    DEF Parts, Alone, Others, Device, DownState, UpState, Between, Enabled, Off, HalfOpen,
          Quiet, Netdev, Flex, RunningAt, RingAt, IrqAt, PhyAt
<1>13. Parts(j, d, wi, wc, pi, pc, yi, yc)'
  BY <1>5, <1>6, <1>7, <1>8, <1>9, <1>10, <1>11, <1>12 DEF Parts
<1> QED
  BY <1>0, <1>1, <1>3, <1>4, <1>v, <1>x, <1>y, <1>z, <1>13, UserArrives

(* Power management calls rtl8169_up if the rings are there. *)
LEMMA PmUp ==
  ASSUME NEW ui, NEW uc, NEW wi, NEW wc, NEW pi, NEW pc, NEW yi, NEW yc,
         Good(ui, uc, wi, wc, pi, pc, yi, yc), Step("pm"), At("pm", "up")
  PROVE  IInv'
<1>0. Parts(ui, uc, wi, wc, pi, pc, yi, yc) /\ Alone(ui, uc, pi, pc)
  BY MasterAlone DEF Good
<1>1. /\ ThenCall("pm", IF ring THEN Up ELSE <<>>)
      /\ UNCHANGED <<rtnl, running, present, carrier, flags, queued, ring, irq, napi, hw,
        phy, rpm, usage, idle, asleep, gone>>
  BY DoesUp
<1>2. /\ pi \in Routines /\ pc \in Places /\ Rest(pi, pc) # <<>>
      /\ First(pi, pc) = "up" /\ todo["pm"] = Rest(pi, pc)
  BY PmFrom
<1>3. /\ pi = "none"
      /\ \/ pc = "rres1" /\ After(pi, pc) = Rest("none", "rres2")
         \/ pc = "wake1" /\ After(pi, pc) = Rest("none", "wake2")
  BY <1>0, <1>2, AtUp DEF Parts, Shape, Ups, Downs, Resets, PmPlaces
<1>4. PICK j, d :
        /\ todo' = [todo EXCEPT !["pm"] = Rest(j, d)]
        /\ j = IF ring THEN "up1" ELSE "none"
        /\ \/ pc = "rres1" /\ d = "rres2"
           \/ pc = "wake1" /\ d = "wake2"
  <2>1. PICK d : /\ d \in Places /\ After(pi, pc) = Rest("none", d)
                 /\ \/ pc = "rres1" /\ d = "rres2"
                    \/ pc = "wake1" /\ d = "wake2"
    BY <1>3 DEF Places, UserPlaces, PmPlaces
  <2>2. todo' = [todo EXCEPT !["pm"] = (IF ring THEN Up ELSE <<>>) \o Rest("none", d)]
    BY <1>1, <1>2, <2>1 DEF ThenCall, After
  <2>3. Up \o Rest("none", d) = Rest("up1", d) /\ <<>> \o Rest("none", d) = Rest("none", d)
    BY <2>1, Called DEF Routines
  <2>4. CASE ring
    BY <2>1, <2>2, <2>3, <2>4
  <2>5. CASE ~ring
    BY <2>1, <2>2, <2>3, <2>5
  <2> QED
    BY <2>4, <2>5
<1>x. Off(uc, pc)
  BY <1>0, <1>3
    DEF Parts, Alone, Shape, Off, HalfOpen, Quiet, Netdev, Flex, RunningAt, RingAt, PhyAt,
          Lock, Locked, Power, Ref1, Ref2, UserResumes, PmPlaces
<1>y. ~ring \/ d \in UpPlaces
  BY <1>0, <1>3, <1>4
    DEF UpPlaces, Parts, Alone, Shape, Off, HalfOpen, Quiet, Netdev, Flex, RunningAt,
          RingAt, PhyAt, Lock, Locked, Power, Ref1, Ref2, UserResumes, PmPlaces
<1>z. ~ring => Off(uc, pc) /\ Off(uc, d)'
  BY <1>1 DEF Off
<1>v. ui = "none" /\ pi = "none" /\ (ring => phy # "none")
  BY <1>0, <1>3
    DEF Parts, Alone, Shape, Off, HalfOpen, Quiet, Netdev, Flex, RunningAt, RingAt, PhyAt,
          Lock, Locked, Power, Ref1, Ref2, UserResumes, PmPlaces
<1>5. Types'
  BY <1>0, <1>1, <1>3, <1>4, <1>v, <1>x, <1>y, <1>z DEF Parts, Types
<1>6. Shape(ui, uc, wi, wc, j, d, yi, yc)'
  BY <1>0, <1>1, <1>3, <1>4, <1>v, <1>x, <1>y, <1>z
    DEF Parts, Shape, Ups, Downs, Resets, UpPlaces, DownPlaces, PmPlaces
<1>7. Lock(uc, wc, d)'
  BY <1>0, <1>1, <1>3, <1>4, <1>v, <1>x, <1>y, <1>z DEF Parts, Lock, Locked
<1>8. Power(uc, d)'
  BY <1>0, <1>1, <1>3, <1>4, <1>v, <1>x, <1>y, <1>z
    DEF Parts, Power, Refs, Ref1, Ref2, UserResumes
<1>9. Netdev(ui, uc, j, d)'
  BY <1>0, <1>1, <1>3, <1>4, <1>v, <1>x, <1>y, <1>z
    DEF Parts, Netdev, Flex, RunningAt, RingAt, IrqAt, PhyAt
<1>10. Device(ui, uc, j, d)'
  BY <1>0, <1>1, <1>3, <1>4, <1>v, <1>x, <1>y, <1>z
    DEF Parts, Types, Device, DownState, UpState, Between, Enabled, Ups, Downs
<1>11. Napi(ui, uc, wi, j, d, yi)'
  BY <1>0, <1>1, <1>3, <1>4, <1>v, <1>x, <1>y, <1>z
    DEF Parts, Others, Shape, Resets, Ups, Downs, Napi, Holds, Starts, Device, DownState,
          UpState, Between, Enabled
<1>12. Others(uc, wi, wc, yc)'
  BY <1>0, <1>1, <1>3, <1>4, <1>v, <1>x, <1>y, <1>z
    DEF Parts, Alone, Others, Device, DownState, UpState, Between, Enabled, Off, HalfOpen,
          Quiet, Netdev, Flex, RunningAt, RingAt, IrqAt, PhyAt
<1>13. Parts(ui, uc, wi, wc, j, d, yi, yc)'
  BY <1>5, <1>6, <1>7, <1>8, <1>9, <1>10, <1>11, <1>12 DEF Parts
<1> QED
  BY <1>0, <1>1, <1>3, <1>4, <1>v, <1>x, <1>y, <1>z, <1>13, PmArrives

(* Power management calls rtl8169_down if the device runs. *)
LEMMA PmDown ==
  ASSUME NEW ui, NEW uc, NEW wi, NEW wc, NEW pi, NEW pc, NEW yi, NEW yc,
         Good(ui, uc, wi, wc, pi, pc, yi, yc), Step("pm"), At("pm", "down")
  PROVE  IInv'
<1>0. Parts(ui, uc, wi, wc, pi, pc, yi, yc) /\ Alone(ui, uc, pi, pc)
  BY MasterAlone DEF Good
<1>1. /\ ThenCall("pm", IF running THEN Down ELSE <<>>)
      /\ UNCHANGED <<rtnl, running, present, carrier, flags, queued, ring, irq, napi, hw,
        phy, rpm, usage, idle, asleep, gone>>
  BY DoesDown
<1>2. /\ pi \in Routines /\ pc \in Places /\ Rest(pi, pc) # <<>>
      /\ First(pi, pc) = "down" /\ todo["pm"] = Rest(pi, pc)
  BY PmFrom
<1>3. /\ pi = "none"
      /\ \/ pc = "rsus3" /\ After(pi, pc) = Rest("none", "rsus4")
         \/ pc = "sys3" /\ After(pi, pc) = Rest("none", "sys4")
  BY <1>0, <1>2, AtDown DEF Parts, Shape, Ups, Downs, Resets, PmPlaces
<1>4. PICK j, d :
        /\ todo' = [todo EXCEPT !["pm"] = Rest(j, d)]
        /\ j = IF running THEN "down1" ELSE "none"
        /\ \/ pc = "rsus3" /\ d = "rsus4"
           \/ pc = "sys3" /\ d = "sys4"
  <2>1. PICK d : /\ d \in Places /\ After(pi, pc) = Rest("none", d)
                 /\ \/ pc = "rsus3" /\ d = "rsus4"
                    \/ pc = "sys3" /\ d = "sys4"
    BY <1>3 DEF Places, UserPlaces, PmPlaces
  <2>2. todo' = [todo EXCEPT !["pm"] = (IF running THEN Down ELSE <<>>) \o Rest("none", d)]
    BY <1>1, <1>2, <2>1 DEF ThenCall, After
  <2>3. Down \o Rest("none", d) = Rest("down1", d) /\ <<>> \o Rest("none", d) = Rest("none", d)
    BY <2>1, Called DEF Routines
  <2>4. CASE running
    BY <2>1, <2>2, <2>3, <2>4
  <2>5. CASE ~running
    BY <2>1, <2>2, <2>3, <2>5
  <2> QED
    BY <2>4, <2>5
<1>x. running <=> ring
  BY <1>0, <1>3
    DEF Parts, Alone, Shape, Off, HalfOpen, Quiet, Netdev, Flex, RunningAt, RingAt, PhyAt,
          Lock, Locked, Power, Ref1, Ref2, UserResumes, PmPlaces
<1>y. ring => ~Off(uc, pc)
  BY <1>0, <1>3
    DEF Parts, Alone, Shape, Off, HalfOpen, Quiet, Netdev, Flex, RunningAt, RingAt, PhyAt,
          Lock, Locked, Power, Ref1, Ref2, UserResumes, PmPlaces
<1>z. ~ring => Off(uc, pc) /\ Off(uc, d)'
  BY <1>1 DEF Off
<1>v. ui = "none" /\ pi = "none" /\ (ring => phy # "none")
  BY <1>0, <1>3
    DEF Parts, Alone, Shape, Off, HalfOpen, Quiet, Netdev, Flex, RunningAt, RingAt, PhyAt,
          Lock, Locked, Power, Ref1, Ref2, UserResumes, PmPlaces
<1>5. Types'
  BY <1>0, <1>1, <1>3, <1>4, <1>v, <1>x, <1>y, <1>z DEF Parts, Types
<1>6. Shape(ui, uc, wi, wc, j, d, yi, yc)'
  BY <1>0, <1>1, <1>3, <1>4, <1>v, <1>x, <1>y, <1>z
    DEF Parts, Shape, Ups, Downs, Resets, UpPlaces, DownPlaces, PmPlaces
<1>7. Lock(uc, wc, d)'
  BY <1>0, <1>1, <1>3, <1>4, <1>v, <1>x, <1>y, <1>z DEF Parts, Lock, Locked
<1>8. Power(uc, d)'
  BY <1>0, <1>1, <1>3, <1>4, <1>v, <1>x, <1>y, <1>z
    DEF Parts, Power, Refs, Ref1, Ref2, UserResumes
<1>9. Netdev(ui, uc, j, d)'
  BY <1>0, <1>1, <1>3, <1>4, <1>v, <1>x, <1>y, <1>z
    DEF Parts, Netdev, Flex, RunningAt, RingAt, IrqAt, PhyAt
<1>10. Device(ui, uc, j, d)'
  BY <1>0, <1>1, <1>3, <1>4, <1>v, <1>x, <1>y, <1>z
    DEF Parts, Device, DownState, UpState, Between, Enabled
<1>11. Napi(ui, uc, wi, j, d, yi)'
  BY <1>0, <1>1, <1>3, <1>4, <1>v, <1>x, <1>y, <1>z DEF Parts, Napi, Holds, Starts
<1>12. Others(uc, wi, wc, yc)'
  BY <1>0, <1>1, <1>3, <1>4, <1>v, <1>x, <1>y, <1>z
    DEF Parts, Alone, Others, Device, DownState, UpState, Between, Enabled, Off, HalfOpen,
          Quiet, Netdev, Flex, RunningAt, RingAt, IrqAt, PhyAt
<1>13. Parts(ui, uc, wi, wc, j, d, yi, yc)'
  BY <1>5, <1>6, <1>7, <1>8, <1>9, <1>10, <1>11, <1>12 DEF Parts
<1> QED
  BY <1>0, <1>1, <1>3, <1>4, <1>v, <1>x, <1>y, <1>z, <1>13, PmArrives

(* The work item tests whether rtl_task may run. *)
LEMMA WorkerTestEnabled ==
  ASSUME NEW ui, NEW uc, NEW wi, NEW wc, NEW pi, NEW pc, NEW yi, NEW yc,
         Good(ui, uc, wi, wc, pi, pc, yi, yc), Step("worker"), At("worker", "test_enabled")
  PROVE  IInv'
<1>0. Parts(ui, uc, wi, wc, pi, pc, yi, yc) /\ Alone(ui, uc, pi, pc)
  BY MasterAlone DEF Good
<1>1. /\ IF running /\ "enabled" \in flags THEN Then("worker") ELSE Jump("worker", <<"unrtnl">>)
      /\ UNCHANGED <<rtnl, running, present, carrier, flags, queued, ring, irq, napi, hw,
        phy, rpm, usage, idle, asleep, gone>>
  BY DoesTestEnabled
<1>2. /\ wi \in Routines /\ wc \in Places /\ Rest(wi, wc) # <<>>
      /\ First(wi, wc) = "test_enabled" /\ todo["worker"] = Rest(wi, wc)
  BY WorkerFrom
<1>3. wi = "none" /\ wc = "task2" /\ After(wi, wc) = Rest("none", "task3")
  BY <1>2, AtTestEnabled
<1>4. PICK j, d :
        /\ todo' = [todo EXCEPT !["worker"] = Rest(j, d)] /\ j = "none"
        /\ \/ d = "task3" /\ Enabled
           \/ d = "task4"
  <2>1. CASE running /\ "enabled" \in flags
    BY <1>1, <1>3, <2>1, WorkerFrom DEF Enabled
  <2>2. CASE ~(running /\ "enabled" \in flags)
    BY <1>1, <2>2, Begun DEF Jump
  <2> QED
    BY <2>1, <2>2
<1>5. Types'
  BY <1>0, <1>1, <1>3, <1>4 DEF Parts, Types
<1>6. Shape(ui, uc, j, d, pi, pc, yi, yc)'
  BY <1>0, <1>1, <1>3, <1>4
    DEF Parts, Shape, Ups, Downs, Resets, UpPlaces, DownPlaces, WorkerPlaces
<1>7. Lock(uc, d, pc)'
  BY <1>0, <1>1, <1>3, <1>4 DEF Parts, Lock, Locked
<1>8. Power(uc, pc)'
  BY <1>0, <1>1, <1>3, <1>4 DEF Parts, Power, Refs, Ref1, Ref2, UserResumes
<1>9. Netdev(ui, uc, pi, pc)'
  BY <1>0, <1>1, <1>3, <1>4 DEF Parts, Netdev, Flex, RunningAt, RingAt, IrqAt, PhyAt
<1>10. Device(ui, uc, pi, pc)'
  BY <1>0, <1>1, <1>3, <1>4
    DEF Parts, Device, DownState, UpState, Between, Enabled, Off, HalfOpen, Quiet
<1>11. Napi(ui, uc, j, pi, pc, yi)'
  BY <1>0, <1>1, <1>3, <1>4 DEF Parts, Napi, Holds, Starts, Off, HalfOpen, Quiet
<1>12. Others(uc, j, d, yc)'
  BY <1>0, <1>1, <1>3, <1>4
    DEF Parts, Alone, Others, Device, DownState, UpState, Between, Enabled, Off, HalfOpen,
          Quiet, Netdev, Flex, RunningAt, RingAt, IrqAt, PhyAt
<1>13. Parts(ui, uc, j, d, pi, pc, yi, yc)'
  BY <1>5, <1>6, <1>7, <1>8, <1>9, <1>10, <1>11, <1>12 DEF Parts
<1> QED
  BY <1>0, <1>1, <1>3, <1>4, <1>13, WorkerArrives

(* The work item tests what rtl_task has to do. *)
LEMMA WorkerTestFlags ==
  ASSUME NEW ui, NEW uc, NEW wi, NEW wc, NEW pi, NEW pc, NEW yi, NEW yc,
         Good(ui, uc, wi, wc, pi, pc, yi, yc), Step("worker"), At("worker", "test_flags")
  PROVE  IInv'
<1>0. Parts(ui, uc, wi, wc, pi, pc, yi, yc) /\ Alone(ui, uc, pi, pc)
  BY MasterAlone DEF Good
<1>1. /\ ("enabled" \in flags' <=> "enabled" \in flags) /\ (Then("worker") \/ ThenCall("worker", ResetWork))
      /\ UNCHANGED <<rtnl, running, carrier, queued, ring, irq, napi, hw, phy, rpm, usage,
        idle, asleep, gone>>
  BY DoesTestFlags
<1>2. /\ wi \in Routines /\ wc \in Places /\ Rest(wi, wc) # <<>>
      /\ First(wi, wc) = "test_flags" /\ todo["worker"] = Rest(wi, wc)
  BY WorkerFrom
<1>3. wi = "none" /\ wc = "task3" /\ After(wi, wc) = Rest("none", "task4")
  BY <1>2, AtTestFlags
<1>4. PICK j, d :
        /\ todo' = [todo EXCEPT !["worker"] = Rest(j, d)]
        /\ j \in {"none", "reset1"} /\ d = "task4"
  <2>1. CASE Then("worker")
    BY <1>3, <2>1, WorkerFrom
  <2>2. CASE ThenCall("worker", ResetWork)
    <3>1. ResetWork \o Rest("none", "task4") = Rest("reset1", "task4")
      BY Called DEF Places, WorkerPlaces
    <3> QED
      BY <1>2, <1>3, <2>2, <3>1 DEF ThenCall, After
  <2> QED
    BY <1>1, <2>1, <2>2
<1>5. Types'
  BY <1>0, <1>1, <1>3, <1>4 DEF Parts, Types
<1>6. Shape(ui, uc, j, d, pi, pc, yi, yc)'
  BY <1>0, <1>1, <1>3, <1>4
    DEF Parts, Shape, Ups, Downs, Resets, UpPlaces, DownPlaces, WorkerPlaces
<1>7. Lock(uc, d, pc)'
  BY <1>0, <1>1, <1>3, <1>4 DEF Parts, Lock, Locked
<1>8. Power(uc, pc)'
  BY <1>0, <1>1, <1>3, <1>4 DEF Parts, Power, Refs, Ref1, Ref2, UserResumes
<1>9. Netdev(ui, uc, pi, pc)'
  BY <1>0, <1>1, <1>3, <1>4 DEF Parts, Netdev, Flex, RunningAt, RingAt, IrqAt, PhyAt
<1>10. Device(ui, uc, pi, pc)'
  BY <1>0, <1>1, <1>3, <1>4
    DEF Parts, Device, DownState, UpState, Between, Enabled, Off, HalfOpen, Quiet
<1>11. Napi(ui, uc, j, pi, pc, yi)'
  BY <1>0, <1>1, <1>3, <1>4 DEF Parts, Napi, Holds, Starts, Off, HalfOpen, Quiet
<1>12. Others(uc, j, d, yc)'
  BY <1>0, <1>1, <1>3, <1>4
    DEF Parts, Alone, Others, Device, DownState, UpState, Between, Enabled, Off, HalfOpen,
          Quiet, Netdev, Flex, RunningAt, RingAt, IrqAt, PhyAt
<1>13. Parts(ui, uc, j, d, pi, pc, yi, yc)'
  BY <1>5, <1>6, <1>7, <1>8, <1>9, <1>10, <1>11, <1>12 DEF Parts
<1> QED
  BY <1>0, <1>1, <1>3, <1>4, <1>13, WorkerArrives

(* The user's thread stops the phy. *)
LEMMA UserPhyStop ==
  ASSUME NEW ui, NEW uc, NEW wi, NEW wc, NEW pi, NEW pc, NEW yi, NEW yc,
         Good(ui, uc, wi, wc, pi, pc, yi, yc), Step("user"), At("user", "phy_stop")
  PROVE  IInv'
<1>0. Parts(ui, uc, wi, wc, pi, pc, yi, yc) /\ Alone(ui, uc, pi, pc)
  BY MasterAlone DEF Good
<1>1. /\ Idle("phy") /\ phy' = "stopped" /\ carrier' = FALSE
  /\ ThenCall("user", IF carrier /\ Is8125 THEN ResetWork ELSE <<>>)
      /\ UNCHANGED <<rtnl, running, present, flags, queued, ring, irq, napi, hw, rpm,
        usage, idle, asleep, gone>>
  BY DoesPhyStop
<1>2. /\ ui \in Routines /\ uc \in Places /\ Rest(ui, uc) # <<>>
      /\ First(ui, uc) = "phy_stop" /\ todo["user"] = Rest(ui, uc)
  BY UserFrom
<1>3. ui = "down2" /\ After(ui, uc) = Rest("down3", uc)
  BY <1>0, <1>2, AtPhyStop DEF Parts, Shape, Ups, Downs
<1>4. PICK j, d :
        /\ todo' = [todo EXCEPT !["user"] = Rest(j, d)]
        /\ j \in {"stop1", "down3"} /\ d = uc
  <2>1. ResetWork \o Rest("down3", uc) = Rest("stop1", uc) /\ <<>> \o Rest("down3", uc) = Rest("down3", uc)
    BY <1>2, Called DEF Routines
  <2>2. todo' = [todo EXCEPT !["user"] = (IF carrier /\ Is8125 THEN ResetWork ELSE <<>>) \o Rest("down3", uc)]
    BY <1>1, <1>2, <1>3 DEF ThenCall, After
  <2>3. CASE carrier /\ Is8125
    BY <2>1, <2>2, <2>3
  <2>4. CASE ~(carrier /\ Is8125)
    BY <2>1, <2>2, <2>4
  <2> QED
    BY <2>3, <2>4
<1>w. yi = "none" /\ yc = "end"
  <2>1. yi \in Routines /\ yc \in Places /\ Rest(yi, yc) = <<>>
    BY <1>1, PhyFrom DEF Idle
  <2> QED
    BY <2>1, EmptyAt
<1>5. Types'
  BY <1>0, <1>1, <1>w, <1>3, <1>4 DEF Parts, Types
<1>6. Shape(j, d, wi, wc, pi, pc, yi, yc)'
  BY <1>0, <1>1, <1>w, <1>3, <1>4
    DEF Parts, Shape, Ups, Downs, Resets, UpPlaces, DownPlaces, UserPlaces
<1>7. Lock(d, wc, pc)'
  BY <1>0, <1>1, <1>w, <1>3, <1>4 DEF Parts, Lock, Locked
<1>8. Power(d, pc)'
  BY <1>0, <1>1, <1>w, <1>3, <1>4 DEF Parts, Power, Refs, Ref1, Ref2, UserResumes
<1>9. Netdev(j, d, pi, pc)'
  BY <1>0, <1>1, <1>w, <1>3, <1>4
    DEF Parts, Alone, Netdev, Flex, RunningAt, RingAt, IrqAt, PhyAt, Device, DownState,
          UpState, Between, Enabled, Downs
<1>10. Device(j, d, pi, pc)'
  BY <1>0, <1>1, <1>w, <1>3, <1>4
    DEF Parts, Alone, Device, DownState, UpState, Between, Enabled, Off, HalfOpen, Quiet,
          Shape, Ups, Downs, Resets, UpPlaces, DownPlaces
<1>11. Napi(j, d, wi, pi, pc, yi)'
  BY <1>0, <1>1, <1>w, <1>3, <1>4 DEF Parts, Napi, Holds, Starts, Off, HalfOpen, Quiet
<1>12. Others(d, wi, wc, yc)'
  BY <1>0, <1>1, <1>w, <1>3, <1>4
    DEF Parts, Alone, Others, Device, DownState, UpState, Between, Enabled, Off, HalfOpen,
          Quiet, Netdev, Flex, RunningAt, RingAt, IrqAt, PhyAt
<1>13. Parts(j, d, wi, wc, pi, pc, yi, yc)'
  BY <1>5, <1>6, <1>7, <1>8, <1>9, <1>10, <1>11, <1>12 DEF Parts
<1> QED
  BY <1>0, <1>1, <1>w, <1>3, <1>4, <1>13, UserArrives

(* Power management stops the phy. *)
LEMMA PmPhyStop ==
  ASSUME NEW ui, NEW uc, NEW wi, NEW wc, NEW pi, NEW pc, NEW yi, NEW yc,
         Good(ui, uc, wi, wc, pi, pc, yi, yc), Step("pm"), At("pm", "phy_stop")
  PROVE  IInv'
<1>0. Parts(ui, uc, wi, wc, pi, pc, yi, yc) /\ Alone(ui, uc, pi, pc)
  BY MasterAlone DEF Good
<1>1. /\ Idle("phy") /\ phy' = "stopped" /\ carrier' = FALSE
  /\ ThenCall("pm", IF carrier /\ Is8125 THEN ResetWork ELSE <<>>)
      /\ UNCHANGED <<rtnl, running, present, flags, queued, ring, irq, napi, hw, rpm,
        usage, idle, asleep, gone>>
  BY DoesPhyStop
<1>2. /\ pi \in Routines /\ pc \in Places /\ Rest(pi, pc) # <<>>
      /\ First(pi, pc) = "phy_stop" /\ todo["pm"] = Rest(pi, pc)
  BY PmFrom
<1>3. pi = "down2" /\ After(pi, pc) = Rest("down3", pc)
  BY <1>0, <1>2, AtPhyStop DEF Parts, Shape, Ups, Downs
<1>4. PICK j, d :
        /\ todo' = [todo EXCEPT !["pm"] = Rest(j, d)]
        /\ j \in {"stop1", "down3"} /\ d = pc
  <2>1. ResetWork \o Rest("down3", pc) = Rest("stop1", pc) /\ <<>> \o Rest("down3", pc) = Rest("down3", pc)
    BY <1>2, Called DEF Routines
  <2>2. todo' = [todo EXCEPT !["pm"] = (IF carrier /\ Is8125 THEN ResetWork ELSE <<>>) \o Rest("down3", pc)]
    BY <1>1, <1>2, <1>3 DEF ThenCall, After
  <2>3. CASE carrier /\ Is8125
    BY <2>1, <2>2, <2>3
  <2>4. CASE ~(carrier /\ Is8125)
    BY <2>1, <2>2, <2>4
  <2> QED
    BY <2>3, <2>4
<1>w. yi = "none" /\ yc = "end"
  <2>1. yi \in Routines /\ yc \in Places /\ Rest(yi, yc) = <<>>
    BY <1>1, PhyFrom DEF Idle
  <2> QED
    BY <2>1, EmptyAt
<1>5. Types'
  BY <1>0, <1>1, <1>w, <1>3, <1>4 DEF Parts, Types
<1>6. Shape(ui, uc, wi, wc, j, d, yi, yc)'
  BY <1>0, <1>1, <1>w, <1>3, <1>4
    DEF Parts, Shape, Ups, Downs, Resets, UpPlaces, DownPlaces, PmPlaces
<1>7. Lock(uc, wc, d)'
  BY <1>0, <1>1, <1>w, <1>3, <1>4 DEF Parts, Lock, Locked
<1>8. Power(uc, d)'
  BY <1>0, <1>1, <1>w, <1>3, <1>4 DEF Parts, Power, Refs, Ref1, Ref2, UserResumes
<1>9. Netdev(ui, uc, j, d)'
  BY <1>0, <1>1, <1>w, <1>3, <1>4
    DEF Parts, Alone, Netdev, Flex, RunningAt, RingAt, IrqAt, PhyAt, Device, DownState,
          UpState, Between, Enabled, Downs
<1>10. Device(ui, uc, j, d)'
  BY <1>0, <1>1, <1>w, <1>3, <1>4
    DEF Parts, Alone, Device, DownState, UpState, Between, Enabled, Off, HalfOpen, Quiet,
          Shape, Ups, Downs, Resets, UpPlaces, DownPlaces
<1>11. Napi(ui, uc, wi, j, d, yi)'
  BY <1>0, <1>1, <1>w, <1>3, <1>4 DEF Parts, Napi, Holds, Starts, Off, HalfOpen, Quiet
<1>12. Others(uc, wi, wc, yc)'
  BY <1>0, <1>1, <1>w, <1>3, <1>4
    DEF Parts, Alone, Others, Device, DownState, UpState, Between, Enabled, Off, HalfOpen,
          Quiet, Netdev, Flex, RunningAt, RingAt, IrqAt, PhyAt
<1>13. Parts(ui, uc, wi, wc, j, d, yi, yc)'
  BY <1>5, <1>6, <1>7, <1>8, <1>9, <1>10, <1>11, <1>12 DEF Parts
<1> QED
  BY <1>0, <1>1, <1>w, <1>3, <1>4, <1>13, PmArrives

-----------------------------------------------------------------------------
(* The actions that begin a thread, and those that touch none.                 *)

(* rtl_open begins. *)
LEMMA UserOpensKept ==
  ASSUME NEW ui, NEW uc, NEW wi, NEW wc, NEW pi, NEW pc, NEW yi, NEW yc,
         Good(ui, uc, wi, wc, pi, pc, yi, yc), UserOpens
  PROVE  IInv'
<1>0. Parts(ui, uc, wi, wc, pi, pc, yi, yc) /\ Alone(ui, uc, pi, pc)
  BY MasterAlone DEF Good
<1>1. ui = "none" /\ uc = "end" /\ Idle("user")
  <2>1. ui \in Routines /\ uc \in Places /\ Rest(ui, uc) = <<>> /\ Idle("user")
    <3>1. Idle("user")
      BY DEF UserOpens, Begin
    <3> QED
      BY <3>1, UserFrom DEF Idle
  <2> QED
    BY <2>1, EmptyAt
<1>2. PICK j, d : /\ todo' = [todo EXCEPT !["user"] = Rest(j, d)]
                  /\ j = "none" /\ d = "open1"
                  /\ ~running /\ ~asleep
                  /\ gone = "no"
  BY Begun DEF UserOpens, Begin
<1>3. UNCHANGED <<rtnl, running, present, carrier, flags, queued, ring, irq, napi, hw,
        phy, rpm, usage, idle, asleep, gone>>
  BY DEF UserOpens, net, wk, dev, power
<1>4. Off(d, pc)' <=> Off(uc, pc)
  BY <1>0, <1>1, <1>2, <1>3
    DEF Parts, Alone, Shape, Off, HalfOpen, Quiet, Power, Refs, Ref1, Ref2, UserResumes,
          Ups, Downs, Netdev, Flex, RingAt, PhyAt
<1>5. Types'
  BY <1>0, <1>1, <1>2, <1>3, <1>4 DEF Parts, Types
<1>6. Shape(j, d, wi, wc, pi, pc, yi, yc)'
  BY <1>0, <1>1, <1>2, <1>3, <1>4
    DEF Parts, Shape, Ups, Downs, Resets, UpPlaces, DownPlaces, UserPlaces
<1>7. Lock(d, wc, pc)'
  BY <1>0, <1>1, <1>2, <1>3, <1>4 DEF Parts, Lock, Locked
<1>8. Power(d, pc)'
  BY <1>0, <1>1, <1>2, <1>3, <1>4 DEF Parts, Power, Refs, Ref1, Ref2, UserResumes
<1>9. Netdev(j, d, pi, pc)'
  BY <1>0, <1>1, <1>2, <1>3, <1>4 DEF Parts, Netdev, Flex, RunningAt, RingAt, IrqAt, PhyAt
<1>10. Device(j, d, pi, pc)'
  BY <1>0, <1>1, <1>2, <1>3, <1>4 DEF Parts, Device, DownState, UpState, Between, Enabled
<1>11. Napi(j, d, wi, pi, pc, yi)'
  BY <1>0, <1>1, <1>2, <1>3, <1>4 DEF Parts, Napi, Holds, Starts
<1>12. Others(d, wi, wc, yc)'
  BY <1>0, <1>1, <1>2, <1>3, <1>4
    DEF Parts, Alone, Others, Device, DownState, UpState, Between, Enabled, Off, HalfOpen,
          Quiet, Netdev, Flex, RunningAt, RingAt, IrqAt, PhyAt
<1>13. Parts(j, d, wi, wc, pi, pc, yi, yc)'
  BY <1>5, <1>6, <1>7, <1>8, <1>9, <1>10, <1>11, <1>12 DEF Parts
<1> QED
  BY <1>0, <1>1, <1>2, <1>3, <1>4, <1>13, UserArrives

(* rtl8169_close begins. *)
LEMMA UserClosesKept ==
  ASSUME NEW ui, NEW uc, NEW wi, NEW wc, NEW pi, NEW pc, NEW yi, NEW yc,
         Good(ui, uc, wi, wc, pi, pc, yi, yc), UserCloses
  PROVE  IInv'
<1>0. Parts(ui, uc, wi, wc, pi, pc, yi, yc) /\ Alone(ui, uc, pi, pc)
  BY MasterAlone DEF Good
<1>1. ui = "none" /\ uc = "end" /\ Idle("user")
  <2>1. ui \in Routines /\ uc \in Places /\ Rest(ui, uc) = <<>> /\ Idle("user")
    <3>1. Idle("user")
      BY DEF UserCloses, Begin
    <3> QED
      BY <3>1, UserFrom DEF Idle
  <2> QED
    BY <2>1, EmptyAt
<1>2. PICK j, d : /\ todo' = [todo EXCEPT !["user"] = Rest(j, d)]
                  /\ j = "none" /\ d = "close1"
                  /\ running /\ ~asleep
                  /\ gone = "no"
  BY Begun DEF UserCloses, Begin
<1>3. UNCHANGED <<rtnl, running, present, carrier, flags, queued, ring, irq, napi, hw,
        phy, rpm, usage, idle, asleep, gone>>
  BY DEF UserCloses, net, wk, dev, power
<1>4. Off(d, pc)' <=> Off(uc, pc)
  BY <1>0, <1>1, <1>2, <1>3
    DEF Parts, Alone, Shape, Off, HalfOpen, Quiet, Power, Refs, Ref1, Ref2, UserResumes,
          Ups, Downs, Netdev, Flex, RingAt, PhyAt
<1>5. Types'
  BY <1>0, <1>1, <1>2, <1>3, <1>4 DEF Parts, Types
<1>6. Shape(j, d, wi, wc, pi, pc, yi, yc)'
  BY <1>0, <1>1, <1>2, <1>3, <1>4
    DEF Parts, Shape, Ups, Downs, Resets, UpPlaces, DownPlaces, UserPlaces
<1>7. Lock(d, wc, pc)'
  BY <1>0, <1>1, <1>2, <1>3, <1>4 DEF Parts, Lock, Locked
<1>8. Power(d, pc)'
  BY <1>0, <1>1, <1>2, <1>3, <1>4 DEF Parts, Power, Refs, Ref1, Ref2, UserResumes
<1>9. Netdev(j, d, pi, pc)'
  BY <1>0, <1>1, <1>2, <1>3, <1>4 DEF Parts, Netdev, Flex, RunningAt, RingAt, IrqAt, PhyAt
<1>10. Device(j, d, pi, pc)'
  BY <1>0, <1>1, <1>2, <1>3, <1>4 DEF Parts, Device, DownState, UpState, Between, Enabled
<1>11. Napi(j, d, wi, pi, pc, yi)'
  BY <1>0, <1>1, <1>2, <1>3, <1>4 DEF Parts, Napi, Holds, Starts
<1>12. Others(d, wi, wc, yc)'
  BY <1>0, <1>1, <1>2, <1>3, <1>4
    DEF Parts, Alone, Others, Device, DownState, UpState, Between, Enabled, Off, HalfOpen,
          Quiet, Netdev, Flex, RunningAt, RingAt, IrqAt, PhyAt
<1>13. Parts(j, d, wi, wc, pi, pc, yi, yc)'
  BY <1>5, <1>6, <1>7, <1>8, <1>9, <1>10, <1>11, <1>12 DEF Parts
<1> QED
  BY <1>0, <1>1, <1>2, <1>3, <1>4, <1>13, UserArrives

(* rtl_remove_one begins. *)
LEMMA RemovalKept ==
  ASSUME NEW ui, NEW uc, NEW wi, NEW wc, NEW pi, NEW pc, NEW yi, NEW yc,
         Good(ui, uc, wi, wc, pi, pc, yi, yc), DeviceGoes(Remove)
  PROVE  IInv'
<1>0. Parts(ui, uc, wi, wc, pi, pc, yi, yc) /\ Alone(ui, uc, pi, pc)
  BY MasterAlone DEF Good
<1>1. ui = "none" /\ uc = "end" /\ Idle("user")
  <2>1. ui \in Routines /\ uc \in Places /\ Rest(ui, uc) = <<>> /\ Idle("user")
    <3>1. Idle("user")
      BY DEF DeviceGoes, Begin
    <3> QED
      BY <3>1, UserFrom DEF Idle
  <2> QED
    BY <2>1, EmptyAt
<1>2. PICK j, d : /\ todo' = [todo EXCEPT !["user"] = Rest(j, d)]
                  /\ j = "none" /\ ((running /\ d = "leave0") \/ (~running /\ d = "bare"))
                  /\ ~asleep
                  /\ gone = "no"
  <2>1. CASE running
    <3>1. /\ todo' = [todo EXCEPT !["user"] = <<"get">> \o Close \o <<"removed">>]
          /\ ~asleep /\ gone = "no"
      BY <2>1 DEF DeviceGoes, Remove, Begin
    <3> QED
      BY <2>1, <3>1, Begun
  <2>2. CASE ~running
    <3>1. /\ todo' = [todo EXCEPT !["user"] = <<"get">> \o <<>> \o <<"removed">>]
          /\ ~asleep /\ gone = "no"
      BY <2>2 DEF DeviceGoes, Remove, Begin
    <3> QED
      BY <2>2, <3>1, Begun
  <2> QED
    BY <2>1, <2>2
<1>3. UNCHANGED <<rtnl, running, present, carrier, flags, queued, ring, irq, napi, hw,
        phy, rpm, usage, idle, asleep, gone>>
  BY DEF DeviceGoes, net, wk, dev, power
<1>4. Off(d, pc)' <=> Off(uc, pc)
  BY <1>0, <1>1, <1>2, <1>3
    DEF Parts, Alone, Shape, Off, HalfOpen, Quiet, Power, Refs, Ref1, Ref2, UserResumes,
          Ups, Downs, Netdev, Flex, RingAt, PhyAt
<1>5. Types'
  BY <1>0, <1>1, <1>2, <1>3, <1>4 DEF Parts, Types
<1>6. Shape(j, d, wi, wc, pi, pc, yi, yc)'
  BY <1>0, <1>1, <1>2, <1>3, <1>4
    DEF Parts, Shape, Ups, Downs, Resets, UpPlaces, DownPlaces, UserPlaces
<1>7. Lock(d, wc, pc)'
  BY <1>0, <1>1, <1>2, <1>3, <1>4 DEF Parts, Lock, Locked
<1>8. Power(d, pc)'
  BY <1>0, <1>1, <1>2, <1>3, <1>4 DEF Parts, Power, Refs, Ref1, Ref2, UserResumes
<1>9. Netdev(j, d, pi, pc)'
  BY <1>0, <1>1, <1>2, <1>3, <1>4 DEF Parts, Netdev, Flex, RunningAt, RingAt, IrqAt, PhyAt
<1>10. Device(j, d, pi, pc)'
  BY <1>0, <1>1, <1>2, <1>3, <1>4 DEF Parts, Device, DownState, UpState, Between, Enabled
<1>11. Napi(j, d, wi, pi, pc, yi)'
  BY <1>0, <1>1, <1>2, <1>3, <1>4 DEF Parts, Napi, Holds, Starts
<1>12. Others(d, wi, wc, yc)'
  BY <1>0, <1>1, <1>2, <1>3, <1>4
    DEF Parts, Alone, Others, Device, DownState, UpState, Between, Enabled, Off, HalfOpen,
          Quiet, Netdev, Flex, RunningAt, RingAt, IrqAt, PhyAt
<1>13. Parts(j, d, wi, wc, pi, pc, yi, yc)'
  BY <1>5, <1>6, <1>7, <1>8, <1>9, <1>10, <1>11, <1>12 DEF Parts
<1> QED
  BY <1>0, <1>1, <1>2, <1>3, <1>4, <1>13, UserArrives

(* rtl_shutdown begins. *)
LEMMA ShuttingKept ==
  ASSUME NEW ui, NEW uc, NEW wi, NEW wc, NEW pi, NEW pc, NEW yi, NEW yc,
         Good(ui, uc, wi, wc, pi, pc, yi, yc), DeviceGoes(Shutdown)
  PROVE  IInv'
<1>0. Parts(ui, uc, wi, wc, pi, pc, yi, yc) /\ Alone(ui, uc, pi, pc)
  BY MasterAlone DEF Good
<1>1. ui = "none" /\ uc = "end" /\ Idle("user")
  <2>1. ui \in Routines /\ uc \in Places /\ Rest(ui, uc) = <<>> /\ Idle("user")
    <3>1. Idle("user")
      BY DEF DeviceGoes, Begin
    <3> QED
      BY <3>1, UserFrom DEF Idle
  <2> QED
    BY <2>1, EmptyAt
<1>2. PICK j, d : /\ todo' = [todo EXCEPT !["user"] = Rest(j, d)]
                  /\ j = "none" /\ d = "shut1"
                  /\ ~asleep
                  /\ gone = "no"
  BY Begun DEF DeviceGoes, Begin
<1>3. UNCHANGED <<rtnl, running, present, carrier, flags, queued, ring, irq, napi, hw,
        phy, rpm, usage, idle, asleep, gone>>
  BY DEF DeviceGoes, net, wk, dev, power
<1>4. Off(d, pc)' <=> Off(uc, pc)
  BY <1>0, <1>1, <1>2, <1>3
    DEF Parts, Alone, Shape, Off, HalfOpen, Quiet, Power, Refs, Ref1, Ref2, UserResumes,
          Ups, Downs, Netdev, Flex, RingAt, PhyAt
<1>5. Types'
  BY <1>0, <1>1, <1>2, <1>3, <1>4 DEF Parts, Types
<1>6. Shape(j, d, wi, wc, pi, pc, yi, yc)'
  BY <1>0, <1>1, <1>2, <1>3, <1>4
    DEF Parts, Shape, Ups, Downs, Resets, UpPlaces, DownPlaces, UserPlaces
<1>7. Lock(d, wc, pc)'
  BY <1>0, <1>1, <1>2, <1>3, <1>4 DEF Parts, Lock, Locked
<1>8. Power(d, pc)'
  BY <1>0, <1>1, <1>2, <1>3, <1>4 DEF Parts, Power, Refs, Ref1, Ref2, UserResumes
<1>9. Netdev(j, d, pi, pc)'
  BY <1>0, <1>1, <1>2, <1>3, <1>4 DEF Parts, Netdev, Flex, RunningAt, RingAt, IrqAt, PhyAt
<1>10. Device(j, d, pi, pc)'
  BY <1>0, <1>1, <1>2, <1>3, <1>4 DEF Parts, Device, DownState, UpState, Between, Enabled
<1>11. Napi(j, d, wi, pi, pc, yi)'
  BY <1>0, <1>1, <1>2, <1>3, <1>4 DEF Parts, Napi, Holds, Starts
<1>12. Others(d, wi, wc, yc)'
  BY <1>0, <1>1, <1>2, <1>3, <1>4
    DEF Parts, Alone, Others, Device, DownState, UpState, Between, Enabled, Off, HalfOpen,
          Quiet, Netdev, Flex, RunningAt, RingAt, IrqAt, PhyAt
<1>13. Parts(j, d, wi, wc, pi, pc, yi, yc)'
  BY <1>5, <1>6, <1>7, <1>8, <1>9, <1>10, <1>11, <1>12 DEF Parts
<1> QED
  BY <1>0, <1>1, <1>2, <1>3, <1>4, <1>13, UserArrives

(* rtl_task begins. *)
LEMMA WorkerRunsKept ==
  ASSUME NEW ui, NEW uc, NEW wi, NEW wc, NEW pi, NEW pc, NEW yi, NEW yc,
         Good(ui, uc, wi, wc, pi, pc, yi, yc), WorkerRuns
  PROVE  IInv'
<1>0. Parts(ui, uc, wi, wc, pi, pc, yi, yc) /\ Alone(ui, uc, pi, pc)
  BY MasterAlone DEF Good
<1>1. wi = "none" /\ wc = "end" /\ Idle("worker")
  <2>1. wi \in Routines /\ wc \in Places /\ Rest(wi, wc) = <<>> /\ Idle("worker")
    <3>1. Idle("worker")
      BY DEF WorkerRuns, Begin
    <3> QED
      BY <3>1, WorkerFrom DEF Idle
  <2> QED
    BY <2>1, EmptyAt
<1>2. PICK j, d : /\ todo' = [todo EXCEPT !["worker"] = Rest(j, d)]
                  /\ j = "none" /\ d = "task1"
                  /\ queued /\ queued' = FALSE
  BY Begun DEF WorkerRuns, Begin
<1>3. UNCHANGED <<rtnl, running, present, carrier, flags, ring, irq, napi, hw, phy, rpm,
        usage, idle, asleep, gone>>
  BY DEF WorkerRuns, net, wk, dev, power
<1>4. ring /\ uc \notin Quiet
  BY <1>0, <1>2 DEF Parts, Others
<1>5. Types'
  BY <1>0, <1>1, <1>2, <1>3, <1>4 DEF Parts, Types
<1>6. Shape(ui, uc, j, d, pi, pc, yi, yc)'
  BY <1>0, <1>1, <1>2, <1>3, <1>4
    DEF Parts, Shape, Ups, Downs, Resets, UpPlaces, DownPlaces, WorkerPlaces
<1>7. Lock(uc, d, pc)'
  BY <1>0, <1>1, <1>2, <1>3, <1>4 DEF Parts, Lock, Locked
<1>8. Power(uc, pc)'
  BY <1>0, <1>1, <1>2, <1>3, <1>4 DEF Parts, Power, Refs, Ref1, Ref2, UserResumes
<1>9. Netdev(ui, uc, pi, pc)'
  BY <1>0, <1>1, <1>2, <1>3, <1>4 DEF Parts, Netdev, Flex, RunningAt, RingAt, IrqAt, PhyAt
<1>10. Device(ui, uc, pi, pc)'
  BY <1>0, <1>1, <1>2, <1>3, <1>4
    DEF Parts, Device, DownState, UpState, Between, Enabled, Off, HalfOpen, Quiet
<1>11. Napi(ui, uc, j, pi, pc, yi)'
  BY <1>0, <1>1, <1>2, <1>3, <1>4 DEF Parts, Napi, Holds, Starts, Off, HalfOpen, Quiet
<1>12. Others(uc, j, d, yc)'
  BY <1>0, <1>1, <1>2, <1>3, <1>4 DEF Parts, Others
<1>13. Parts(ui, uc, j, d, pi, pc, yi, yc)'
  BY <1>5, <1>6, <1>7, <1>8, <1>9, <1>10, <1>11, <1>12 DEF Parts
<1> QED
  BY <1>0, <1>1, <1>2, <1>3, <1>4, <1>13, WorkerArrives

(* r8169_phylink_handler is called. *)
LEMMA LinkChangesKept ==
  ASSUME NEW ui, NEW uc, NEW wi, NEW wc, NEW pi, NEW pc, NEW yi, NEW yc,
         Good(ui, uc, wi, wc, pi, pc, yi, yc), LinkChanges
  PROVE  IInv'
<1>0. Parts(ui, uc, wi, wc, pi, pc, yi, yc) /\ Alone(ui, uc, pi, pc)
  BY MasterAlone DEF Good
<1>1. yi = "none" /\ yc = "end" /\ Idle("phy")
  <2>1. yi \in Routines /\ yc \in Places /\ Rest(yi, yc) = <<>> /\ Idle("phy")
    <3>1. Idle("phy")
      BY DEF LinkChanges, Begin
    <3> QED
      BY <3>1, PhyFrom DEF Idle
  <2> QED
    BY <2>1, EmptyAt
<1>2. PICK j, d : /\ todo' = [todo EXCEPT !["phy"] = Rest(j, d)]
                  /\ j \in {"none", "reset1"} /\ d \in {"linkdown", "linkup"}
                  /\ j = "reset1" => d = "linkdown" /\ Is8125
                  /\ phy = "started" /\ carrier' \in BOOLEAN
  <2>0. phy = "started" /\ carrier' \in BOOLEAN
    BY DEF LinkChanges
  <2>1. CASE carrier /\ Is8125
    <3>1. todo' = [todo EXCEPT !["phy"] = ResetWork \o <<"pm_idle">>]
      BY <2>1 DEF LinkChanges, Begin
    <3> QED
      BY <2>0, <2>1, <3>1, Begun
  <2>2. CASE carrier /\ ~Is8125
    <3>1. todo' = [todo EXCEPT !["phy"] = <<>> \o <<"pm_idle">>]
      BY <2>2 DEF LinkChanges, Begin
    <3> QED
      BY <2>0, <2>2, <3>1, Begun
  <2>3. CASE ~carrier
    <3>1. todo' = [todo EXCEPT !["phy"] = <<"pm_resume">>]
      BY <2>3 DEF LinkChanges, Begin
    <3> QED
      BY <2>0, <2>3, <3>1, Begun
  <2> QED
    BY <2>1, <2>2, <2>3
<1>3. UNCHANGED <<rtnl, running, present, flags, queued, ring, irq, napi, hw, phy, rpm,
        usage, idle, asleep, gone>>
  BY DEF LinkChanges, net, wk, dev, power
<1>4. TRUE
  OBVIOUS
<1>5. Types'
  BY <1>0, <1>1, <1>2, <1>3, <1>4 DEF Parts, Types
<1>6. Shape(ui, uc, wi, wc, pi, pc, j, d)'
  BY <1>0, <1>1, <1>2, <1>3, <1>4
    DEF Parts, Shape, Ups, Downs, Resets, UpPlaces, DownPlaces, PhyPlaces
<1>7. Lock(uc, wc, pc)'
  BY <1>0, <1>1, <1>2, <1>3, <1>4 DEF Parts, Lock, Locked
<1>8. Power(uc, pc)'
  BY <1>0, <1>1, <1>2, <1>3, <1>4 DEF Parts, Power, Refs, Ref1, Ref2, UserResumes
<1>9. Netdev(ui, uc, pi, pc)'
  BY <1>0, <1>1, <1>2, <1>3, <1>4 DEF Parts, Netdev, Flex, RunningAt, RingAt, IrqAt, PhyAt
<1>10. Device(ui, uc, pi, pc)'
  BY <1>0, <1>1, <1>2, <1>3, <1>4
    DEF Parts, Device, DownState, UpState, Between, Enabled, Off, HalfOpen, Quiet
<1>11. Napi(ui, uc, wi, pi, pc, j)'
  BY <1>0, <1>1, <1>2, <1>3, <1>4 DEF Parts, Napi, Holds, Starts, Off, HalfOpen, Quiet
<1>12. Others(uc, wi, wc, d)'
  BY <1>0, <1>1, <1>2, <1>3, <1>4
    DEF Parts, Alone, Others, Device, DownState, UpState, Between, Enabled, Off, HalfOpen,
          Quiet, Netdev, Flex, RunningAt, RingAt, IrqAt, PhyAt
<1>13. Parts(ui, uc, wi, wc, pi, pc, j, d)'
  BY <1>5, <1>6, <1>7, <1>8, <1>9, <1>10, <1>11, <1>12 DEF Parts
<1> QED
  BY <1>0, <1>1, <1>2, <1>3, <1>4, <1>13, PhyArrives

(* A runtime suspend begins. *)
LEMMA RuntimeSuspendsKept ==
  ASSUME NEW ui, NEW uc, NEW wi, NEW wc, NEW pi, NEW pc, NEW yi, NEW yc,
         Good(ui, uc, wi, wc, pi, pc, yi, yc), RuntimeSuspends
  PROVE  IInv'
<1>0. Parts(ui, uc, wi, wc, pi, pc, yi, yc) /\ Alone(ui, uc, pi, pc)
  BY MasterAlone DEF Good
<1>1. pi = "none" /\ pc = "end" /\ Idle("pm")
  <2>1. pi \in Routines /\ pc \in Places /\ Rest(pi, pc) = <<>> /\ Idle("pm")
    <3>1. Idle("pm")
      BY DEF RuntimeSuspends, Begin
    <3> QED
      BY <3>1, PmFrom DEF Idle
  <2> QED
    BY <2>1, EmptyAt
<1>2. PICK j, d : /\ todo' = [todo EXCEPT !["pm"] = Rest(j, d)]
                  /\ j = "none" /\ ((ring /\ d = "rsus1") \/ (~ring /\ d = "bsus"))
                  /\ rpm = "active" /\ usage = 0 /\ ~asleep /\ rpm' = "suspending"
  <2>1. CASE ring
    <3>1. /\ todo' = [todo EXCEPT !["pm"] = <<"rtnl", "detach", "down", "unrtnl", "suspended">>]
          /\ rpm = "active" /\ usage = 0 /\ ~asleep /\ rpm' = "suspending"
      BY <2>1 DEF RuntimeSuspends, RuntimeSuspend, Begin
    <3> QED
      BY <2>1, <3>1, Begun
  <2>2. CASE ~ring
    <3>1. /\ todo' = [todo EXCEPT !["pm"] = <<"detach", "suspended">>]
          /\ rpm = "active" /\ usage = 0 /\ ~asleep /\ rpm' = "suspending"
      BY <2>2 DEF RuntimeSuspends, RuntimeSuspend, Begin
    <3> QED
      BY <2>2, <3>1, Begun
  <2> QED
    BY <2>1, <2>2
<1>3. UNCHANGED <<rtnl, running, present, carrier, flags, queued, ring, irq, napi, hw,
        phy, usage, idle, asleep, gone>>
  BY DEF RuntimeSuspends, net, wk, dev, power
<1>4. Off(uc, d)' <=> Off(uc, pc)
  BY <1>0, <1>1, <1>2, <1>3
    DEF Parts, Alone, Shape, Off, HalfOpen, Quiet, Power, Refs, Ref1, Ref2, UserResumes,
          Ups, Downs, Netdev, Flex, RingAt, PhyAt
<1>5. Types'
  BY <1>0, <1>1, <1>2, <1>3, <1>4 DEF Parts, Types
<1>6. Shape(ui, uc, wi, wc, j, d, yi, yc)'
  BY <1>0, <1>1, <1>2, <1>3, <1>4
    DEF Parts, Shape, Ups, Downs, Resets, UpPlaces, DownPlaces, PmPlaces
<1>7. Lock(uc, wc, d)'
  BY <1>0, <1>1, <1>2, <1>3, <1>4 DEF Parts, Lock, Locked
<1>8. Power(uc, d)'
  BY <1>0, <1>1, <1>2, <1>3, <1>4 DEF Parts, Power, Refs, Ref1, Ref2, UserResumes
<1>9. Netdev(ui, uc, j, d)'
  BY <1>0, <1>1, <1>2, <1>3, <1>4 DEF Parts, Netdev, Flex, RunningAt, RingAt, IrqAt, PhyAt
<1>10. Device(ui, uc, j, d)'
  BY <1>0, <1>1, <1>2, <1>3, <1>4 DEF Parts, Device, DownState, UpState, Between, Enabled
<1>11. Napi(ui, uc, wi, j, d, yi)'
  BY <1>0, <1>1, <1>2, <1>3, <1>4 DEF Parts, Napi, Holds, Starts
<1>12. Others(uc, wi, wc, yc)'
  BY <1>0, <1>1, <1>2, <1>3, <1>4
    DEF Parts, Alone, Others, Device, DownState, UpState, Between, Enabled, Off, HalfOpen,
          Quiet, Netdev, Flex, RunningAt, RingAt, IrqAt, PhyAt
<1>13. Parts(ui, uc, wi, wc, j, d, yi, yc)'
  BY <1>5, <1>6, <1>7, <1>8, <1>9, <1>10, <1>11, <1>12 DEF Parts
<1> QED
  BY <1>0, <1>1, <1>2, <1>3, <1>4, <1>13, PmArrives

(* A runtime resume begins. *)
LEMMA RuntimeResumesKept ==
  ASSUME NEW ui, NEW uc, NEW wi, NEW wc, NEW pi, NEW pc, NEW yi, NEW yc,
         Good(ui, uc, wi, wc, pi, pc, yi, yc), RuntimeResumes
  PROVE  IInv'
<1>0. Parts(ui, uc, wi, wc, pi, pc, yi, yc) /\ Alone(ui, uc, pi, pc)
  BY MasterAlone DEF Good
<1>1. pi = "none" /\ pc = "end" /\ Idle("pm")
  <2>1. pi \in Routines /\ pc \in Places /\ Rest(pi, pc) = <<>> /\ Idle("pm")
    <3>1. Idle("pm")
      BY DEF RuntimeResumes, Begin
    <3> QED
      BY <3>1, PmFrom DEF Idle
  <2> QED
    BY <2>1, EmptyAt
<1>2. PICK j, d : /\ todo' = [todo EXCEPT !["pm"] = Rest(j, d)]
                  /\ j = "none" /\ d = "rres1"
                  /\ rpm = "suspended" /\ rpm' = "resuming"
  BY Begun DEF RuntimeResumes, Begin
<1>3. UNCHANGED <<rtnl, running, present, carrier, flags, queued, ring, irq, napi, hw,
        phy, usage, idle, asleep, gone>>
  BY DEF RuntimeResumes, net, wk, dev, power
<1>4. Off(uc, d)' <=> Off(uc, pc)
  BY <1>0, <1>1, <1>2, <1>3
    DEF Parts, Alone, Shape, Off, HalfOpen, Quiet, Power, Refs, Ref1, Ref2, UserResumes,
          Ups, Downs, Netdev, Flex, RingAt, PhyAt
<1>5. Types'
  BY <1>0, <1>1, <1>2, <1>3, <1>4 DEF Parts, Types
<1>6. Shape(ui, uc, wi, wc, j, d, yi, yc)'
  BY <1>0, <1>1, <1>2, <1>3, <1>4
    DEF Parts, Shape, Ups, Downs, Resets, UpPlaces, DownPlaces, PmPlaces
<1>7. Lock(uc, wc, d)'
  BY <1>0, <1>1, <1>2, <1>3, <1>4 DEF Parts, Lock, Locked
<1>8. Power(uc, d)'
  BY <1>0, <1>1, <1>2, <1>3, <1>4 DEF Parts, Power, Refs, Ref1, Ref2, UserResumes
<1>9. Netdev(ui, uc, j, d)'
  BY <1>0, <1>1, <1>2, <1>3, <1>4 DEF Parts, Netdev, Flex, RunningAt, RingAt, IrqAt, PhyAt
<1>10. Device(ui, uc, j, d)'
  BY <1>0, <1>1, <1>2, <1>3, <1>4 DEF Parts, Device, DownState, UpState, Between, Enabled
<1>11. Napi(ui, uc, wi, j, d, yi)'
  BY <1>0, <1>1, <1>2, <1>3, <1>4 DEF Parts, Napi, Holds, Starts
<1>12. Others(uc, wi, wc, yc)'
  BY <1>0, <1>1, <1>2, <1>3, <1>4
    DEF Parts, Alone, Others, Device, DownState, UpState, Between, Enabled, Off, HalfOpen,
          Quiet, Netdev, Flex, RunningAt, RingAt, IrqAt, PhyAt
<1>13. Parts(ui, uc, wi, wc, j, d, yi, yc)'
  BY <1>5, <1>6, <1>7, <1>8, <1>9, <1>10, <1>11, <1>12 DEF Parts
<1> QED
  BY <1>0, <1>1, <1>2, <1>3, <1>4, <1>13, PmArrives

(* A system sleep begins. *)
LEMMA SystemSleepsKept ==
  ASSUME NEW ui, NEW uc, NEW wi, NEW wc, NEW pi, NEW pc, NEW yi, NEW yc,
         Good(ui, uc, wi, wc, pi, pc, yi, yc), SystemSleeps
  PROVE  IInv'
<1>0. Parts(ui, uc, wi, wc, pi, pc, yi, yc) /\ Alone(ui, uc, pi, pc)
  BY MasterAlone DEF Good
<1>1. pi = "none" /\ pc = "end" /\ Idle("pm")
  <2>1. pi \in Routines /\ pc \in Places /\ Rest(pi, pc) = <<>> /\ Idle("pm")
    <3>1. Idle("pm")
      BY DEF SystemSleeps, Begin
    <3> QED
      BY <3>1, PmFrom DEF Idle
  <2> QED
    BY <2>1, EmptyAt
<1>2. PICK j, d : /\ todo' = [todo EXCEPT !["pm"] = Rest(j, d)]
                  /\ j = "none" /\ d = "sys1" /\ uc = "end"
                  /\ rpm = "active" /\ ~asleep /\ asleep' = TRUE /\ usage' = usage + 1
                  /\ gone = "no"
  <2>1. uc = "end"
    BY UserFrom, EmptyAt DEF SystemSleeps, Idle
  <2> QED
    BY <2>1, Begun DEF SystemSleeps, Begin
<1>3. UNCHANGED <<rtnl, running, present, carrier, flags, queued, ring, irq, napi, hw,
        phy, rpm, idle, gone>>
  BY DEF SystemSleeps, net, wk, dev, power
<1>4. Off(uc, d)' <=> Off(uc, pc)
  BY <1>0, <1>1, <1>2, <1>3
    DEF Parts, Alone, Shape, Off, HalfOpen, Quiet, Power, Refs, Ref1, Ref2, UserResumes,
          Ups, Downs, Netdev, Flex, RingAt, PhyAt
<1>5. Types'
  BY <1>0, <1>1, <1>2, <1>3, <1>4 DEF Parts, Types
<1>6. Shape(ui, uc, wi, wc, j, d, yi, yc)'
  BY <1>0, <1>1, <1>2, <1>3, <1>4
    DEF Parts, Shape, Ups, Downs, Resets, UpPlaces, DownPlaces, PmPlaces
<1>7. Lock(uc, wc, d)'
  BY <1>0, <1>1, <1>2, <1>3, <1>4 DEF Parts, Lock, Locked
<1>8. Power(uc, d)'
  BY <1>0, <1>1, <1>2, <1>3, <1>4 DEF Parts, Power, Refs, Ref1, Ref2, UserResumes
<1>9. Netdev(ui, uc, j, d)'
  BY <1>0, <1>1, <1>2, <1>3, <1>4 DEF Parts, Netdev, Flex, RunningAt, RingAt, IrqAt, PhyAt
<1>10. Device(ui, uc, j, d)'
  BY <1>0, <1>1, <1>2, <1>3, <1>4 DEF Parts, Device, DownState, UpState, Between, Enabled
<1>11. Napi(ui, uc, wi, j, d, yi)'
  BY <1>0, <1>1, <1>2, <1>3, <1>4 DEF Parts, Napi, Holds, Starts
<1>12. Others(uc, wi, wc, yc)'
  BY <1>0, <1>1, <1>2, <1>3, <1>4
    DEF Parts, Alone, Others, Device, DownState, UpState, Between, Enabled, Off, HalfOpen,
          Quiet, Netdev, Flex, RunningAt, RingAt, IrqAt, PhyAt
<1>13. Parts(ui, uc, wi, wc, j, d, yi, yc)'
  BY <1>5, <1>6, <1>7, <1>8, <1>9, <1>10, <1>11, <1>12 DEF Parts
<1> QED
  BY <1>0, <1>1, <1>2, <1>3, <1>4, <1>13, PmArrives

(* The system wakes. *)
LEMMA SystemWakesKept ==
  ASSUME NEW ui, NEW uc, NEW wi, NEW wc, NEW pi, NEW pc, NEW yi, NEW yc,
         Good(ui, uc, wi, wc, pi, pc, yi, yc), SystemWakes
  PROVE  IInv'
<1>0. Parts(ui, uc, wi, wc, pi, pc, yi, yc) /\ Alone(ui, uc, pi, pc)
  BY MasterAlone DEF Good
<1>1. pi = "none" /\ pc = "end" /\ Idle("pm")
  <2>1. pi \in Routines /\ pc \in Places /\ Rest(pi, pc) = <<>> /\ Idle("pm")
    <3>1. Idle("pm")
      BY DEF SystemWakes, Begin
    <3> QED
      BY <3>1, PmFrom DEF Idle
  <2> QED
    BY <2>1, EmptyAt
<1>2. PICK j, d : /\ todo' = [todo EXCEPT !["pm"] = Rest(j, d)]
                  /\ j = "none" /\ d = "wake1" /\ asleep
  BY Begun DEF SystemWakes, Begin
<1>3. UNCHANGED <<rtnl, running, present, carrier, flags, queued, ring, irq, napi, hw,
        phy, rpm, usage, idle, asleep, gone>>
  BY DEF SystemWakes, net, wk, dev, power
<1>4. Off(uc, d)' <=> Off(uc, pc)
  BY <1>0, <1>1, <1>2, <1>3
    DEF Parts, Alone, Shape, Off, HalfOpen, Quiet, Power, Refs, Ref1, Ref2, UserResumes,
          Ups, Downs, Netdev, Flex, RingAt, PhyAt
<1>5. Types'
  BY <1>0, <1>1, <1>2, <1>3, <1>4 DEF Parts, Types
<1>6. Shape(ui, uc, wi, wc, j, d, yi, yc)'
  BY <1>0, <1>1, <1>2, <1>3, <1>4
    DEF Parts, Shape, Ups, Downs, Resets, UpPlaces, DownPlaces, PmPlaces
<1>7. Lock(uc, wc, d)'
  BY <1>0, <1>1, <1>2, <1>3, <1>4 DEF Parts, Lock, Locked
<1>8. Power(uc, d)'
  BY <1>0, <1>1, <1>2, <1>3, <1>4 DEF Parts, Power, Refs, Ref1, Ref2, UserResumes
<1>9. Netdev(ui, uc, j, d)'
  BY <1>0, <1>1, <1>2, <1>3, <1>4 DEF Parts, Netdev, Flex, RunningAt, RingAt, IrqAt, PhyAt
<1>10. Device(ui, uc, j, d)'
  BY <1>0, <1>1, <1>2, <1>3, <1>4 DEF Parts, Device, DownState, UpState, Between, Enabled
<1>11. Napi(ui, uc, wi, j, d, yi)'
  BY <1>0, <1>1, <1>2, <1>3, <1>4 DEF Parts, Napi, Holds, Starts
<1>12. Others(uc, wi, wc, yc)'
  BY <1>0, <1>1, <1>2, <1>3, <1>4
    DEF Parts, Alone, Others, Device, DownState, UpState, Between, Enabled, Off, HalfOpen,
          Quiet, Netdev, Flex, RunningAt, RingAt, IrqAt, PhyAt
<1>13. Parts(ui, uc, wi, wc, j, d, yi, yc)'
  BY <1>5, <1>6, <1>7, <1>8, <1>9, <1>10, <1>11, <1>12 DEF Parts
<1> QED
  BY <1>0, <1>1, <1>2, <1>3, <1>4, <1>13, PmArrives

(* An action that moves no thread and touches neither the lock nor the *)
(* device keeps the invariant.                                         *)
LEMMA StillGood ==
  ASSUME NEW ui, NEW uc, NEW wi, NEW wc, NEW pi, NEW pc, NEW yi, NEW yc,
         Good(ui, uc, wi, wc, pi, pc, yi, yc),
         UNCHANGED <<todo, rtnl, running, carrier, ring, irq, napi, hw, phy, rpm, usage, asleep, gone>>,
         Enabled' <=> Enabled, (queued' <=> queued) \/ (ring /\ uc \notin Quiet)
  PROVE  IInv'
<1>0. Parts(ui, uc, wi, wc, pi, pc, yi, yc)
  BY DEF Good
<1>1. Types'
  BY <1>0 DEF Parts, Types
<1>2. Shape(ui, uc, wi, wc, pi, pc, yi, yc)'
  BY <1>0 DEF Parts, Shape
<1>3. Lock(uc, wc, pc)'
  BY <1>0 DEF Parts, Lock
<1>4. Power(uc, pc)'
  BY <1>0 DEF Parts, Power, Refs
<1>5. Netdev(ui, uc, pi, pc)'
  BY <1>0 DEF Parts, Netdev
<1>6. Device(ui, uc, pi, pc)'
  BY <1>0 DEF Parts, Device, DownState, UpState, Between, Off
<1>7. Napi(ui, uc, wi, pi, pc, yi)'
  BY <1>0 DEF Parts, Napi, Off
<1>8. Others(uc, wi, wc, yc)'
  BY <1>0 DEF Parts, Others
<1>9. Good(ui, uc, wi, wc, pi, pc, yi, yc)'
  BY <1>1, <1>2, <1>3, <1>4, <1>5, <1>6, <1>7, <1>8 DEF Good, Parts
<1> QED
  BY <1>9 DEF IInv

(* rtl_schedule_task keeps the invariant. *)
LEMMA TaskKept ==
  ASSUME NEW ui, NEW uc, NEW wi, NEW wc, NEW pi, NEW pc, NEW yi, NEW yc,
         Good(ui, uc, wi, wc, pi, pc, yi, yc), NEW flag \in {"reset", "timeout"},
         ScheduleTask(flag)
  PROVE  IInv'
<1>0. Parts(ui, uc, wi, wc, pi, pc, yi, yc) /\ Alone(ui, uc, pi, pc)
  BY MasterAlone DEF Good
<1>1. hw \/ phy = "started"
  BY <1>0 DEF Parts, Others, ScheduleTask
<1>2. ui # "none" \/ pi # "none" \/ ~Off(uc, pc)
  BY <1>0, <1>1 DEF Parts, Device, DownState
<1>3. ring /\ uc \notin Quiet
  <2>1. CASE ui # "none"
    BY <1>0, <2>1 DEF Parts, Netdev, Shape, Ups, Downs, UpPlaces, DownPlaces, Quiet
  <2>2. CASE pi # "none"
    BY <1>0, <2>2 DEF Parts, Netdev, Alone, Shape, Quiet, Ref1, Ref2, UpPlaces, DownPlaces
  <2>3. CASE ~Off(uc, pc)
    BY <2>3 DEF Off, HalfOpen
  <2> QED
    BY <1>2, <2>1, <2>2, <2>3
<1>4. UNCHANGED <<todo, rtnl, running, carrier, ring, irq, napi, hw, phy, rpm, usage, asleep, gone>>
  BY DEF ScheduleTask, net, dev, power
<1>5. Enabled' <=> Enabled
  BY DEF ScheduleTask, Enabled
<1> QED
  BY <1>3, <1>4, <1>5, StillGood

(* So does a call of rtl_open that fails. *)
LEMMA FailureKept ==
  ASSUME NEW ui, NEW uc, NEW wi, NEW wc, NEW pi, NEW pc, NEW yi, NEW yc,
         Good(ui, uc, wi, wc, pi, pc, yi, yc),
         NEW step \in {"alloc", "request_irq", "phy_connect"}, Fails("user", step)
  PROVE  IInv'
<1>0. Parts(ui, uc, wi, wc, pi, pc, yi, yc) /\ Alone(ui, uc, pi, pc)
  BY MasterAlone DEF Good
<1>1. ui \in Routines /\ uc \in Places /\ Rest(ui, uc) # <<>> /\ First(ui, uc) = step
  BY UserFrom DEF Fails
<1>2. /\ ui = "none"
      /\ \/ step = "alloc" /\ uc = "open5"
         \/ step = "request_irq" /\ uc = "open6"
         \/ step = "phy_connect" /\ uc = "open7"
  BY <1>1, AtAlloc, AtRequestIrq, AtPhyConnect
<1>3. UNCHANGED <<rtnl, running, present, carrier, flags, queued, ring, irq, napi, hw,
        phy, rpm, usage, idle, asleep, gone>>
  BY DEF Fails, net, wk, dev, power
<1>4. PICK j, d : /\ todo' = [todo EXCEPT !["user"] = Rest(j, d)]
                  /\ j = "none"
                  /\ \/ uc = "open5" /\ d = "unwind3"
                     \/ uc = "open6" /\ d = "unwind2"
                     \/ uc = "open7" /\ d = "unwind1"
  BY <1>2, Begun DEF Fails, Jump
<1>5. Types'
  BY <1>0, <1>2, <1>3, <1>4 DEF Parts, Types
<1>6. Shape(j, d, wi, wc, pi, pc, yi, yc)'
  BY <1>0, <1>2, <1>3, <1>4
    DEF Parts, Shape, Ups, Downs, Resets, UpPlaces, DownPlaces, UserPlaces
<1>7. Lock(d, wc, pc)'
  BY <1>0, <1>2, <1>3, <1>4 DEF Parts, Lock, Locked
<1>8. Power(d, pc)'
  BY <1>0, <1>2, <1>3, <1>4 DEF Parts, Power, Refs, Ref1, Ref2, UserResumes
<1>9. Netdev(j, d, pi, pc)'
  BY <1>0, <1>2, <1>3, <1>4 DEF Parts, Netdev, Flex, RunningAt, RingAt, IrqAt, PhyAt
<1>10. Device(j, d, pi, pc)'
  BY <1>0, <1>2, <1>3, <1>4
    DEF Parts, Device, DownState, UpState, Between, Enabled, Off, HalfOpen, Quiet
<1>11. Napi(j, d, wi, pi, pc, yi)'
  BY <1>0, <1>2, <1>3, <1>4 DEF Parts, Napi, Holds, Starts, Off, HalfOpen, Quiet
<1>12. Others(d, wi, wc, yc)'
  BY <1>0, <1>2, <1>3, <1>4
    DEF Parts, Alone, Others, Device, DownState, UpState, Between, Enabled, Off, HalfOpen,
          Quiet, Netdev, Flex, RunningAt, RingAt, IrqAt, PhyAt
<1>13. Parts(j, d, wi, wc, pi, pc, yi, yc)'
  BY <1>5, <1>6, <1>7, <1>8, <1>9, <1>10, <1>11, <1>12 DEF Parts
<1> QED
  BY <1>0, <1>2, <1>3, <1>4, <1>13, UserArrives

-----------------------------------------------------------------------------
(* Every step keeps the invariant.                                             *)

(* The user's thread takes any step. *)
LEMMA UserSteps ==
  ASSUME NEW ui, NEW uc, NEW wi, NEW wc, NEW pi, NEW pc, NEW yi, NEW yc,
         Good(ui, uc, wi, wc, pi, pc, yi, yc), Step("user")
  PROVE  IInv'
<1>0. Parts(ui, uc, wi, wc, pi, pc, yi, yc) /\ todo["user"] = Rest(ui, uc)
      /\ ui \in Routines /\ uc \in Places
  BY UserFrom
<1>1. \/ At("user", "napi_enable")
      \/ At("user", "enable")
      \/ At("user", "napi_disable")
      \/ At("user", "clear")
      \/ At("user", "hw_start")
      \/ At("user", "phy_start")
      \/ At("user", "clear_flags")
      \/ At("user", "phy_stop")
      \/ At("user", "unrtnl")
      \/ At("user", "put")
      \/ At("user", "phy_connect")
      \/ At("user", "request_irq")
      \/ At("user", "alloc")
      \/ At("user", "get")
      \/ At("user", "start")
      \/ At("user", "resume_parent")
      \/ At("user", "rtnl")
      \/ At("user", "active")
      \/ At("user", "attach")
      \/ At("user", "up")
      \/ At("user", "stop")
      \/ At("user", "free")
      \/ At("user", "free_irq")
      \/ At("user", "phy_disconnect")
      \/ At("user", "cancel_work")
      \/ At("user", "removed")
      \/ At("user", "shutdown")
      \/ At("user", "down")
      \/ At("user", "detach")
      \/ At("user", "test_flags")
      \/ At("user", "test_enabled")
      \/ At("user", "suspended")
      \/ At("user", "awake")
      \/ At("user", "pm_idle")
      \/ At("user", "pm_resume")
  BY DEF Step, LockStep, PowerStep, GoneStep, NetStep, WorkStep, DevStep, PhyStop
<1>2. /\ ~At("user", "test_flags")
      /\ ~At("user", "test_enabled")
      /\ ~At("user", "suspended")
      /\ ~At("user", "awake")
      /\ ~At("user", "pm_idle")
      /\ ~At("user", "pm_resume")
  <2>1. ~At("user", "test_flags")
    BY <1>0, UserFrom, AtTestFlags DEF Parts, Shape, Ups, Downs, Resets, UserPlaces
  <2>2. ~At("user", "test_enabled")
    BY <1>0, UserFrom, AtTestEnabled DEF Parts, Shape, Ups, Downs, Resets, UserPlaces
  <2>3. ~At("user", "suspended")
    BY <1>0, UserFrom, AtSuspended DEF Parts, Shape, Ups, Downs, Resets, UserPlaces
  <2>4. ~At("user", "awake")
    BY <1>0, UserFrom, AtAwake DEF Parts, Shape, Ups, Downs, Resets, UserPlaces
  <2>5. ~At("user", "pm_idle")
    BY <1>0, UserFrom, AtPmIdle DEF Parts, Shape, Ups, Downs, Resets, UserPlaces
  <2>6. ~At("user", "pm_resume")
    BY <1>0, UserFrom, AtPmResume DEF Parts, Shape, Ups, Downs, Resets, UserPlaces
  <2> QED
    BY <2>1, <2>2, <2>3, <2>4, <2>5, <2>6
<1> QED
  BY <1>1, <1>2, UserNapiEnable, UserEnable, UserNapiDisable, UserClear, UserHwStart,
     UserPhyStart, UserClearFlags, UserPhyStop, UserUnrtnl, UserPut,
     UserPhyConnect, UserRequestIrq, UserAlloc, UserGet, UserStart,
     UserResumeParent, UserRtnl, UserActive, UserAttach, UserUp, UserStop,
     UserFree, UserFreeIrq, UserPhyDisconnect, UserCancelWork, UserRemoved,
     UserShutdown, UserDown, UserDetach

(* The work item takes any step. *)
LEMMA WorkerSteps ==
  ASSUME NEW ui, NEW uc, NEW wi, NEW wc, NEW pi, NEW pc, NEW yi, NEW yc,
         Good(ui, uc, wi, wc, pi, pc, yi, yc), Step("worker")
  PROVE  IInv'
<1>0. Parts(ui, uc, wi, wc, pi, pc, yi, yc) /\ todo["worker"] = Rest(wi, wc)
      /\ wi \in Routines /\ wc \in Places
  BY WorkerFrom
<1>1. \/ At("worker", "napi_enable")
      \/ At("worker", "enable")
      \/ At("worker", "napi_disable")
      \/ At("worker", "clear")
      \/ At("worker", "hw_start")
      \/ At("worker", "phy_start")
      \/ At("worker", "clear_flags")
      \/ At("worker", "phy_stop")
      \/ At("worker", "unrtnl")
      \/ At("worker", "put")
      \/ At("worker", "phy_connect")
      \/ At("worker", "request_irq")
      \/ At("worker", "alloc")
      \/ At("worker", "get")
      \/ At("worker", "start")
      \/ At("worker", "resume_parent")
      \/ At("worker", "rtnl")
      \/ At("worker", "active")
      \/ At("worker", "attach")
      \/ At("worker", "up")
      \/ At("worker", "stop")
      \/ At("worker", "free")
      \/ At("worker", "free_irq")
      \/ At("worker", "phy_disconnect")
      \/ At("worker", "cancel_work")
      \/ At("worker", "removed")
      \/ At("worker", "shutdown")
      \/ At("worker", "down")
      \/ At("worker", "detach")
      \/ At("worker", "test_flags")
      \/ At("worker", "test_enabled")
      \/ At("worker", "suspended")
      \/ At("worker", "awake")
      \/ At("worker", "pm_idle")
      \/ At("worker", "pm_resume")
  BY DEF Step, LockStep, PowerStep, GoneStep, NetStep, WorkStep, DevStep, PhyStop
<1>2. /\ ~At("worker", "enable")
      /\ ~At("worker", "phy_start")
      /\ ~At("worker", "clear_flags")
      /\ ~At("worker", "phy_stop")
      /\ ~At("worker", "put")
      /\ ~At("worker", "phy_connect")
      /\ ~At("worker", "request_irq")
      /\ ~At("worker", "alloc")
      /\ ~At("worker", "get")
      /\ ~At("worker", "start")
      /\ ~At("worker", "resume_parent")
      /\ ~At("worker", "active")
      /\ ~At("worker", "attach")
      /\ ~At("worker", "up")
      /\ ~At("worker", "stop")
      /\ ~At("worker", "free")
      /\ ~At("worker", "free_irq")
      /\ ~At("worker", "phy_disconnect")
      /\ ~At("worker", "cancel_work")
      /\ ~At("worker", "removed")
      /\ ~At("worker", "shutdown")
      /\ ~At("worker", "down")
      /\ ~At("worker", "detach")
      /\ ~At("worker", "suspended")
      /\ ~At("worker", "awake")
      /\ ~At("worker", "pm_idle")
      /\ ~At("worker", "pm_resume")
  <2>1. ~At("worker", "enable")
    BY <1>0, WorkerFrom, AtEnable DEF Parts, Shape, Ups, Downs, Resets, WorkerPlaces
  <2>2. ~At("worker", "phy_start")
    BY <1>0, WorkerFrom, AtPhyStart DEF Parts, Shape, Ups, Downs, Resets, WorkerPlaces
  <2>3. ~At("worker", "clear_flags")
    BY <1>0, WorkerFrom, AtClearFlags DEF Parts, Shape, Ups, Downs, Resets, WorkerPlaces
  <2>4. ~At("worker", "phy_stop")
    BY <1>0, WorkerFrom, AtPhyStop DEF Parts, Shape, Ups, Downs, Resets, WorkerPlaces
  <2>5. ~At("worker", "put")
    BY <1>0, WorkerFrom, AtPut DEF Parts, Shape, Ups, Downs, Resets, WorkerPlaces
  <2>6. ~At("worker", "phy_connect")
    BY <1>0, WorkerFrom, AtPhyConnect DEF Parts, Shape, Ups, Downs, Resets, WorkerPlaces
  <2>7. ~At("worker", "request_irq")
    BY <1>0, WorkerFrom, AtRequestIrq DEF Parts, Shape, Ups, Downs, Resets, WorkerPlaces
  <2>8. ~At("worker", "alloc")
    BY <1>0, WorkerFrom, AtAlloc DEF Parts, Shape, Ups, Downs, Resets, WorkerPlaces
  <2>9. ~At("worker", "get")
    BY <1>0, WorkerFrom, AtGet DEF Parts, Shape, Ups, Downs, Resets, WorkerPlaces
  <2>10. ~At("worker", "start")
    BY <1>0, WorkerFrom, AtStart DEF Parts, Shape, Ups, Downs, Resets, WorkerPlaces
  <2>11. ~At("worker", "resume_parent")
    BY <1>0, WorkerFrom, AtResumeParent DEF Parts, Shape, Ups, Downs, Resets, WorkerPlaces
  <2>12. ~At("worker", "active")
    BY <1>0, WorkerFrom, AtActive DEF Parts, Shape, Ups, Downs, Resets, WorkerPlaces
  <2>13. ~At("worker", "attach")
    BY <1>0, WorkerFrom, AtAttach DEF Parts, Shape, Ups, Downs, Resets, WorkerPlaces
  <2>14. ~At("worker", "up")
    BY <1>0, WorkerFrom, AtUp DEF Parts, Shape, Ups, Downs, Resets, WorkerPlaces
  <2>15. ~At("worker", "stop")
    BY <1>0, WorkerFrom, AtStop DEF Parts, Shape, Ups, Downs, Resets, WorkerPlaces
  <2>16. ~At("worker", "free")
    BY <1>0, WorkerFrom, AtFree DEF Parts, Shape, Ups, Downs, Resets, WorkerPlaces
  <2>17. ~At("worker", "free_irq")
    BY <1>0, WorkerFrom, AtFreeIrq DEF Parts, Shape, Ups, Downs, Resets, WorkerPlaces
  <2>18. ~At("worker", "phy_disconnect")
    BY <1>0, WorkerFrom, AtPhyDisconnect DEF Parts, Shape, Ups, Downs, Resets, WorkerPlaces
  <2>19. ~At("worker", "cancel_work")
    BY <1>0, WorkerFrom, AtCancelWork DEF Parts, Shape, Ups, Downs, Resets, WorkerPlaces
  <2>20. ~At("worker", "removed")
    BY <1>0, WorkerFrom, AtRemoved DEF Parts, Shape, Ups, Downs, Resets, WorkerPlaces
  <2>21. ~At("worker", "shutdown")
    BY <1>0, WorkerFrom, AtShutdown DEF Parts, Shape, Ups, Downs, Resets, WorkerPlaces
  <2>22. ~At("worker", "down")
    BY <1>0, WorkerFrom, AtDown DEF Parts, Shape, Ups, Downs, Resets, WorkerPlaces
  <2>23. ~At("worker", "detach")
    BY <1>0, WorkerFrom, AtDetach DEF Parts, Shape, Ups, Downs, Resets, WorkerPlaces
  <2>24. ~At("worker", "suspended")
    BY <1>0, WorkerFrom, AtSuspended DEF Parts, Shape, Ups, Downs, Resets, WorkerPlaces
  <2>25. ~At("worker", "awake")
    BY <1>0, WorkerFrom, AtAwake DEF Parts, Shape, Ups, Downs, Resets, WorkerPlaces
  <2>26. ~At("worker", "pm_idle")
    BY <1>0, WorkerFrom, AtPmIdle DEF Parts, Shape, Ups, Downs, Resets, WorkerPlaces
  <2>27. ~At("worker", "pm_resume")
    BY <1>0, WorkerFrom, AtPmResume DEF Parts, Shape, Ups, Downs, Resets, WorkerPlaces
  <2> QED
    BY <2>1, <2>2, <2>3, <2>4, <2>5, <2>6, <2>7, <2>8, <2>9, <2>10, <2>11, <2>12, <2>13,
       <2>14, <2>15, <2>16, <2>17, <2>18, <2>19, <2>20, <2>21, <2>22, <2>23, <2>24, <2>25,
       <2>26, <2>27
<1> QED
  BY <1>1, <1>2, WorkerNapiEnable, WorkerNapiDisable, WorkerClear, WorkerHwStart,
     WorkerUnrtnl, WorkerRtnl, WorkerTestFlags, WorkerTestEnabled

(* Power management takes any step. *)
LEMMA PmSteps ==
  ASSUME NEW ui, NEW uc, NEW wi, NEW wc, NEW pi, NEW pc, NEW yi, NEW yc,
         Good(ui, uc, wi, wc, pi, pc, yi, yc), Step("pm")
  PROVE  IInv'
<1>0. Parts(ui, uc, wi, wc, pi, pc, yi, yc) /\ todo["pm"] = Rest(pi, pc)
      /\ pi \in Routines /\ pc \in Places
  BY PmFrom
<1>1. \/ At("pm", "napi_enable")
      \/ At("pm", "enable")
      \/ At("pm", "napi_disable")
      \/ At("pm", "clear")
      \/ At("pm", "hw_start")
      \/ At("pm", "phy_start")
      \/ At("pm", "clear_flags")
      \/ At("pm", "phy_stop")
      \/ At("pm", "unrtnl")
      \/ At("pm", "put")
      \/ At("pm", "phy_connect")
      \/ At("pm", "request_irq")
      \/ At("pm", "alloc")
      \/ At("pm", "get")
      \/ At("pm", "start")
      \/ At("pm", "resume_parent")
      \/ At("pm", "rtnl")
      \/ At("pm", "active")
      \/ At("pm", "attach")
      \/ At("pm", "up")
      \/ At("pm", "stop")
      \/ At("pm", "free")
      \/ At("pm", "free_irq")
      \/ At("pm", "phy_disconnect")
      \/ At("pm", "cancel_work")
      \/ At("pm", "removed")
      \/ At("pm", "shutdown")
      \/ At("pm", "down")
      \/ At("pm", "detach")
      \/ At("pm", "test_flags")
      \/ At("pm", "test_enabled")
      \/ At("pm", "suspended")
      \/ At("pm", "awake")
      \/ At("pm", "pm_idle")
      \/ At("pm", "pm_resume")
  BY DEF Step, LockStep, PowerStep, GoneStep, NetStep, WorkStep, DevStep, PhyStop
<1>2. /\ ~At("pm", "put")
      /\ ~At("pm", "phy_connect")
      /\ ~At("pm", "request_irq")
      /\ ~At("pm", "alloc")
      /\ ~At("pm", "get")
      /\ ~At("pm", "start")
      /\ ~At("pm", "resume_parent")
      /\ ~At("pm", "stop")
      /\ ~At("pm", "free")
      /\ ~At("pm", "free_irq")
      /\ ~At("pm", "phy_disconnect")
      /\ ~At("pm", "cancel_work")
      /\ ~At("pm", "removed")
      /\ ~At("pm", "shutdown")
      /\ ~At("pm", "test_flags")
      /\ ~At("pm", "test_enabled")
      /\ ~At("pm", "pm_idle")
      /\ ~At("pm", "pm_resume")
  <2>1. ~At("pm", "put")
    BY <1>0, PmFrom, AtPut DEF Parts, Shape, Ups, Downs, Resets, PmPlaces
  <2>2. ~At("pm", "phy_connect")
    BY <1>0, PmFrom, AtPhyConnect DEF Parts, Shape, Ups, Downs, Resets, PmPlaces
  <2>3. ~At("pm", "request_irq")
    BY <1>0, PmFrom, AtRequestIrq DEF Parts, Shape, Ups, Downs, Resets, PmPlaces
  <2>4. ~At("pm", "alloc")
    BY <1>0, PmFrom, AtAlloc DEF Parts, Shape, Ups, Downs, Resets, PmPlaces
  <2>5. ~At("pm", "get")
    BY <1>0, PmFrom, AtGet DEF Parts, Shape, Ups, Downs, Resets, PmPlaces
  <2>6. ~At("pm", "start")
    BY <1>0, PmFrom, AtStart DEF Parts, Shape, Ups, Downs, Resets, PmPlaces
  <2>7. ~At("pm", "resume_parent")
    BY <1>0, PmFrom, AtResumeParent DEF Parts, Shape, Ups, Downs, Resets, PmPlaces
  <2>8. ~At("pm", "stop")
    BY <1>0, PmFrom, AtStop DEF Parts, Shape, Ups, Downs, Resets, PmPlaces
  <2>9. ~At("pm", "free")
    BY <1>0, PmFrom, AtFree DEF Parts, Shape, Ups, Downs, Resets, PmPlaces
  <2>10. ~At("pm", "free_irq")
    BY <1>0, PmFrom, AtFreeIrq DEF Parts, Shape, Ups, Downs, Resets, PmPlaces
  <2>11. ~At("pm", "phy_disconnect")
    BY <1>0, PmFrom, AtPhyDisconnect DEF Parts, Shape, Ups, Downs, Resets, PmPlaces
  <2>12. ~At("pm", "cancel_work")
    BY <1>0, PmFrom, AtCancelWork DEF Parts, Shape, Ups, Downs, Resets, PmPlaces
  <2>13. ~At("pm", "removed")
    BY <1>0, PmFrom, AtRemoved DEF Parts, Shape, Ups, Downs, Resets, PmPlaces
  <2>14. ~At("pm", "shutdown")
    BY <1>0, PmFrom, AtShutdown DEF Parts, Shape, Ups, Downs, Resets, PmPlaces
  <2>15. ~At("pm", "test_flags")
    BY <1>0, PmFrom, AtTestFlags DEF Parts, Shape, Ups, Downs, Resets, PmPlaces
  <2>16. ~At("pm", "test_enabled")
    BY <1>0, PmFrom, AtTestEnabled DEF Parts, Shape, Ups, Downs, Resets, PmPlaces
  <2>17. ~At("pm", "pm_idle")
    BY <1>0, PmFrom, AtPmIdle DEF Parts, Shape, Ups, Downs, Resets, PmPlaces
  <2>18. ~At("pm", "pm_resume")
    BY <1>0, PmFrom, AtPmResume DEF Parts, Shape, Ups, Downs, Resets, PmPlaces
  <2> QED
    BY <2>1, <2>2, <2>3, <2>4, <2>5, <2>6, <2>7, <2>8, <2>9, <2>10, <2>11, <2>12, <2>13,
       <2>14, <2>15, <2>16, <2>17, <2>18
<1> QED
  BY <1>1, <1>2, PmNapiEnable, PmEnable, PmNapiDisable, PmClear, PmHwStart, PmPhyStart,
     PmClearFlags, PmPhyStop, PmUnrtnl, PmRtnl, PmActive, PmAttach, PmUp,
     PmDown, PmDetach, PmSuspended, PmAwake

(* The link handler takes any step. *)
LEMMA PhySteps ==
  ASSUME NEW ui, NEW uc, NEW wi, NEW wc, NEW pi, NEW pc, NEW yi, NEW yc,
         Good(ui, uc, wi, wc, pi, pc, yi, yc), Step("phy")
  PROVE  IInv'
<1>0. Parts(ui, uc, wi, wc, pi, pc, yi, yc) /\ todo["phy"] = Rest(yi, yc)
      /\ yi \in Routines /\ yc \in Places
  BY PhyFrom
<1>1. \/ At("phy", "napi_enable")
      \/ At("phy", "enable")
      \/ At("phy", "napi_disable")
      \/ At("phy", "clear")
      \/ At("phy", "hw_start")
      \/ At("phy", "phy_start")
      \/ At("phy", "clear_flags")
      \/ At("phy", "phy_stop")
      \/ At("phy", "unrtnl")
      \/ At("phy", "put")
      \/ At("phy", "phy_connect")
      \/ At("phy", "request_irq")
      \/ At("phy", "alloc")
      \/ At("phy", "get")
      \/ At("phy", "start")
      \/ At("phy", "resume_parent")
      \/ At("phy", "rtnl")
      \/ At("phy", "active")
      \/ At("phy", "attach")
      \/ At("phy", "up")
      \/ At("phy", "stop")
      \/ At("phy", "free")
      \/ At("phy", "free_irq")
      \/ At("phy", "phy_disconnect")
      \/ At("phy", "cancel_work")
      \/ At("phy", "removed")
      \/ At("phy", "shutdown")
      \/ At("phy", "down")
      \/ At("phy", "detach")
      \/ At("phy", "test_flags")
      \/ At("phy", "test_enabled")
      \/ At("phy", "suspended")
      \/ At("phy", "awake")
      \/ At("phy", "pm_idle")
      \/ At("phy", "pm_resume")
  BY DEF Step, LockStep, PowerStep, GoneStep, NetStep, WorkStep, DevStep, PhyStop
<1>2. /\ ~At("phy", "enable")
      /\ ~At("phy", "phy_start")
      /\ ~At("phy", "clear_flags")
      /\ ~At("phy", "phy_stop")
      /\ ~At("phy", "unrtnl")
      /\ ~At("phy", "put")
      /\ ~At("phy", "phy_connect")
      /\ ~At("phy", "request_irq")
      /\ ~At("phy", "alloc")
      /\ ~At("phy", "get")
      /\ ~At("phy", "start")
      /\ ~At("phy", "resume_parent")
      /\ ~At("phy", "rtnl")
      /\ ~At("phy", "active")
      /\ ~At("phy", "attach")
      /\ ~At("phy", "up")
      /\ ~At("phy", "stop")
      /\ ~At("phy", "free")
      /\ ~At("phy", "free_irq")
      /\ ~At("phy", "phy_disconnect")
      /\ ~At("phy", "cancel_work")
      /\ ~At("phy", "removed")
      /\ ~At("phy", "shutdown")
      /\ ~At("phy", "down")
      /\ ~At("phy", "detach")
      /\ ~At("phy", "test_flags")
      /\ ~At("phy", "test_enabled")
      /\ ~At("phy", "suspended")
      /\ ~At("phy", "awake")
  <2>1. ~At("phy", "enable")
    BY <1>0, PhyFrom, AtEnable DEF Parts, Shape, Ups, Downs, Resets, PhyPlaces
  <2>2. ~At("phy", "phy_start")
    BY <1>0, PhyFrom, AtPhyStart DEF Parts, Shape, Ups, Downs, Resets, PhyPlaces
  <2>3. ~At("phy", "clear_flags")
    BY <1>0, PhyFrom, AtClearFlags DEF Parts, Shape, Ups, Downs, Resets, PhyPlaces
  <2>4. ~At("phy", "phy_stop")
    BY <1>0, PhyFrom, AtPhyStop DEF Parts, Shape, Ups, Downs, Resets, PhyPlaces
  <2>5. ~At("phy", "unrtnl")
    BY <1>0, PhyFrom, AtUnrtnl DEF Parts, Shape, Ups, Downs, Resets, PhyPlaces
  <2>6. ~At("phy", "put")
    BY <1>0, PhyFrom, AtPut DEF Parts, Shape, Ups, Downs, Resets, PhyPlaces
  <2>7. ~At("phy", "phy_connect")
    BY <1>0, PhyFrom, AtPhyConnect DEF Parts, Shape, Ups, Downs, Resets, PhyPlaces
  <2>8. ~At("phy", "request_irq")
    BY <1>0, PhyFrom, AtRequestIrq DEF Parts, Shape, Ups, Downs, Resets, PhyPlaces
  <2>9. ~At("phy", "alloc")
    BY <1>0, PhyFrom, AtAlloc DEF Parts, Shape, Ups, Downs, Resets, PhyPlaces
  <2>10. ~At("phy", "get")
    BY <1>0, PhyFrom, AtGet DEF Parts, Shape, Ups, Downs, Resets, PhyPlaces
  <2>11. ~At("phy", "start")
    BY <1>0, PhyFrom, AtStart DEF Parts, Shape, Ups, Downs, Resets, PhyPlaces
  <2>12. ~At("phy", "resume_parent")
    BY <1>0, PhyFrom, AtResumeParent DEF Parts, Shape, Ups, Downs, Resets, PhyPlaces
  <2>13. ~At("phy", "rtnl")
    BY <1>0, PhyFrom, AtRtnl DEF Parts, Shape, Ups, Downs, Resets, PhyPlaces
  <2>14. ~At("phy", "active")
    BY <1>0, PhyFrom, AtActive DEF Parts, Shape, Ups, Downs, Resets, PhyPlaces
  <2>15. ~At("phy", "attach")
    BY <1>0, PhyFrom, AtAttach DEF Parts, Shape, Ups, Downs, Resets, PhyPlaces
  <2>16. ~At("phy", "up")
    BY <1>0, PhyFrom, AtUp DEF Parts, Shape, Ups, Downs, Resets, PhyPlaces
  <2>17. ~At("phy", "stop")
    BY <1>0, PhyFrom, AtStop DEF Parts, Shape, Ups, Downs, Resets, PhyPlaces
  <2>18. ~At("phy", "free")
    BY <1>0, PhyFrom, AtFree DEF Parts, Shape, Ups, Downs, Resets, PhyPlaces
  <2>19. ~At("phy", "free_irq")
    BY <1>0, PhyFrom, AtFreeIrq DEF Parts, Shape, Ups, Downs, Resets, PhyPlaces
  <2>20. ~At("phy", "phy_disconnect")
    BY <1>0, PhyFrom, AtPhyDisconnect DEF Parts, Shape, Ups, Downs, Resets, PhyPlaces
  <2>21. ~At("phy", "cancel_work")
    BY <1>0, PhyFrom, AtCancelWork DEF Parts, Shape, Ups, Downs, Resets, PhyPlaces
  <2>22. ~At("phy", "removed")
    BY <1>0, PhyFrom, AtRemoved DEF Parts, Shape, Ups, Downs, Resets, PhyPlaces
  <2>23. ~At("phy", "shutdown")
    BY <1>0, PhyFrom, AtShutdown DEF Parts, Shape, Ups, Downs, Resets, PhyPlaces
  <2>24. ~At("phy", "down")
    BY <1>0, PhyFrom, AtDown DEF Parts, Shape, Ups, Downs, Resets, PhyPlaces
  <2>25. ~At("phy", "detach")
    BY <1>0, PhyFrom, AtDetach DEF Parts, Shape, Ups, Downs, Resets, PhyPlaces
  <2>26. ~At("phy", "test_flags")
    BY <1>0, PhyFrom, AtTestFlags DEF Parts, Shape, Ups, Downs, Resets, PhyPlaces
  <2>27. ~At("phy", "test_enabled")
    BY <1>0, PhyFrom, AtTestEnabled DEF Parts, Shape, Ups, Downs, Resets, PhyPlaces
  <2>28. ~At("phy", "suspended")
    BY <1>0, PhyFrom, AtSuspended DEF Parts, Shape, Ups, Downs, Resets, PhyPlaces
  <2>29. ~At("phy", "awake")
    BY <1>0, PhyFrom, AtAwake DEF Parts, Shape, Ups, Downs, Resets, PhyPlaces
  <2> QED
    BY <2>1, <2>2, <2>3, <2>4, <2>5, <2>6, <2>7, <2>8, <2>9, <2>10, <2>11, <2>12, <2>13,
       <2>14, <2>15, <2>16, <2>17, <2>18, <2>19, <2>20, <2>21, <2>22, <2>23, <2>24, <2>25,
       <2>26, <2>27, <2>28, <2>29
<1> QED
  BY <1>1, <1>2, PhyNapiEnable, PhyNapiDisable, PhyClear, PhyHwStart, PhyPmIdle,
     PhyPmResume

(* The invariant holds in every state: initially every thread is idle. *)
LEMMA InvHolds ==
  Spec => []IInv
<1>1. Init => IInv
  <2> SUFFICES ASSUME Init PROVE IInv
    OBVIOUS
  <2>0. DEFINE e == "end" n == "none"
  <2>1. Types /\ Lock(e, e, e)
    BY DEF Init, Types, Lock, Locked
  <2>2. Shape(n, e, n, e, n, e, n, e)
    BY DEF Shape, Ups, Downs, Resets, UserPlaces, PmPlaces, WorkerPlaces, PhyPlaces
  <2>3. Power(e, e)
    <3>1. usage = 0 /\ asleep = FALSE /\ gone = "no" /\ rpm = "active"
      BY DEF Init
    <3>2. e \notin Ref1 \cup Ref2 \cup UserResumes
      BY DEF Ref1, Ref2, UserResumes
    <3>3. usage = Refs(e) + (IF asleep THEN 1 ELSE 0)
      BY <3>1, <3>2 DEF Refs
    <3> QED
      BY <3>1, <3>2, <3>3 DEF Power
  <2>4. Netdev(n, e, n, e)
    BY DEF Init, Netdev, Flex
  <2>5. Device(n, e, n, e)
    BY DEF Init, Device, DownState, UpState, Between, Off, Enabled, Ups, Downs
  <2>6. Napi(n, e, n, n, e, n)
    BY DEF Init, Napi, Holds, Starts, Off
  <2>7. Others(e, n, e, e)
    BY DEF Init, Others
  <2>8. todo = [t \in Threads |-> todo[t]] /\ todo["user"] = Rest(n, e) /\ todo["worker"] = Rest(n, e)
        /\ todo["pm"] = Rest(n, e) /\ todo["phy"] = Rest(n, e)
    BY PlaceTable DEF Init, Threads
  <2> QED
    BY <2>1, <2>2, <2>3, <2>4, <2>5, <2>6, <2>7, <2>8 DEF IInv, Good, Parts
<1>2. ASSUME IInv, [Next]_vars
      PROVE  IInv'
  <2>1. PICK ui, uc, wi, wc, pi, pc, yi, yc : Good(ui, uc, wi, wc, pi, pc, yi, yc)
    BY <1>2 DEF IInv
  <2>2. CASE UserOpens
    BY <2>1, <2>2, UserOpensKept
  <2>3. CASE UserCloses
    BY <2>1, <2>3, UserClosesKept
  <2>4. CASE DeviceGoes(Remove)
    BY <2>1, <2>4, RemovalKept
  <2>5. CASE DeviceGoes(Shutdown)
    BY <2>1, <2>5, ShuttingKept
  <2>6. CASE WorkerRuns
    BY <2>1, <2>6, WorkerRunsKept
  <2>7. CASE LinkChanges
    BY <2>1, <2>7, LinkChangesKept
  <2>8. CASE RuntimeSuspends
    BY <2>1, <2>8, RuntimeSuspendsKept
  <2>9. CASE RuntimeResumes
    BY <2>1, <2>9, RuntimeResumesKept
  <2>10. CASE SystemSleeps
    BY <2>1, <2>10, SystemSleepsKept
  <2>11. CASE SystemWakes
    BY <2>1, <2>11, SystemWakesKept
  <2>12. CASE \E flag \in {"reset", "timeout"} : ScheduleTask(flag)
    BY <2>1, <2>12, TaskKept
  <2>13. CASE \E step \in {"alloc", "request_irq", "phy_connect"} : Fails("user", step)
    BY <2>1, <2>13, FailureKept
  <2>14. CASE RuntimeIdle
    <3>1. UNCHANGED <<todo, rtnl, running, carrier, ring, irq, napi, hw, phy, rpm, usage, asleep, gone>>
      BY <2>14 DEF RuntimeIdle, net, dev
    <3>2. queued' = queued /\ (Enabled' <=> Enabled)
      BY <2>14 DEF RuntimeIdle, wk, Enabled
    <3> QED
      BY <2>1, <3>1, <3>2, StillGood
  <2>15. CASE UNCHANGED vars
    <3>1. UNCHANGED <<todo, rtnl, running, carrier, ring, irq, napi, hw, phy, rpm, usage, asleep, gone>>
      BY <2>15 DEF vars, net, dev, power
    <3>2. queued' = queued /\ (Enabled' <=> Enabled)
      BY <2>15 DEF vars, wk, Enabled
    <3> QED
      BY <2>1, <3>1, <3>2, StillGood
  <2>16. CASE \E t \in Threads : Step(t)
    <3>1. Step("user") \/ Step("worker") \/ Step("pm") \/ Step("phy")
      BY <2>16 DEF Threads
    <3> QED
      BY <2>1, <3>1, UserSteps, WorkerSteps, PmSteps, PhySteps
  <2> QED
    BY <1>2, <2>2, <2>3, <2>4, <2>5, <2>6, <2>7, <2>8, <2>9, <2>10, <2>11, <2>12, <2>13,
       <2>14, <2>15, <2>16
    DEF Next
<1> QED
  BY <1>1, <1>2, PTL DEF Spec

-----------------------------------------------------------------------------
(* What the invariant says.                                                    *)

(* The positions at which a thread waits. *)
WaitsAt(t, i, c) ==
  \/ /\ At(t, "rtnl") /\ rtnl # "none" /\ i = "none"
     /\ c \in {"open1", "close1", "leave1", "shut2", "task1", "rsus1", "sys1"}
  \/ /\ At(t, "get") /\ rpm \in {"suspending", "resuming"} /\ i = "none"
     /\ c \in {"open4", "close3", "leave3", "leave0", "bare", "shut1"}
  \/ /\ At(t, "resume_parent") /\ rpm \in {"suspending", "resuming"} /\ i = "none" /\ c = "open2"
  \/ ~napi /\ i \in {"up3", "down3", "stop1", "reset1"}
  \/ At(t, "cancel_work") /\ ~Idle("worker") /\ i = "none" /\ c \in {"close4", "leave4"}
  \/ ~Idle("phy") /\ i = "down2"

(* They are all of them. *)
LEMMA WaitsWhere ==
  ASSUME NEW t \in Threads, NEW i \in Routines, NEW c \in Places, Waits(t),
         \A step : At(t, step) => Rest(i, c) # <<>> /\ First(i, c) = step
  PROVE  WaitsAt(t, i, c)
  BY AtRtnl, AtGet, AtResumeParent, AtNapiDisable, AtCancelWork, AtPhyStop
    DEF Waits, WaitsAt

(* The second element of a sequence that follows another. *)
LEMMA SecondAfter ==
  ASSUME NEW S, NEW s \in Seq(S), NEW u \in Seq(S), Len(u) > 1
  PROVE  Len(s) + 2 \in DOMAIN (s \o u) /\ (s \o u)[Len(s) + 2] = u[2]
<1>1. Len(s) \in Nat /\ Len(u) \in Nat
  OBVIOUS
<1>2. DOMAIN (s \o u) = 1 .. Len(s) + Len(u)
  OBVIOUS
<1>3. Len(s) + 2 \in 1 .. Len(s) + Len(u)
  BY <1>1
<1>4. \A k \in 1 .. Len(s) + Len(u) : k > Len(s) => (s \o u)[k] = u[k - Len(s)]
  OBVIOUS
<1>5. Len(s) + 2 > Len(s) /\ (Len(s) + 2) - Len(s) = 2
  BY <1>1
<1> QED
  BY <1>2, <1>3, <1>4, <1>5

(* The end of a resume is still to come. *)
ResumingAt(i, c) ==
  \E k \in DOMAIN Rest(i, c) : Rest(i, c)[k] \in {"active", "awake"}

(* It is, at the places a resume calls rtl8169_up from, wherever it is in *)
(* it.                                                                    *)
LEMMA ResumesAt ==
  ASSUME NEW i \in Ups, NEW c \in {"lget2", "sget2", "rres2", "wake2"}
  PROVE  ResumingAt(i, c)
<1>1. Routine[i] \in Seq(Steps)
  <2>1. CASE i = "up1"
    <3>1. Routine["up1"] \in Seq(Steps)
      BY DEF Routine, Steps
    <3> QED
      BY <2>1, <3>1
  <2>2. CASE i = "up2"
    <3>1. Routine["up2"] \in Seq(Steps)
      BY DEF Routine, Steps
    <3> QED
      BY <2>2, <3>1
  <2>3. CASE i = "up3"
    <3>1. Routine["up3"] \in Seq(Steps)
      BY DEF Routine, Steps
    <3> QED
      BY <2>3, <3>1
  <2>4. CASE i = "up4"
    <3>1. Routine["up4"] \in Seq(Steps)
      BY DEF Routine, Steps
    <3> QED
      BY <2>4, <3>1
  <2>5. CASE i = "up5"
    <3>1. Routine["up5"] \in Seq(Steps)
      BY DEF Routine, Steps
    <3> QED
      BY <2>5, <3>1
  <2>6. CASE i = "up6"
    <3>1. Routine["up6"] \in Seq(Steps)
      BY DEF Routine, Steps
    <3> QED
      BY <2>6, <3>1
  <2>7. CASE i = "up7"
    <3>1. Routine["up7"] \in Seq(Steps)
      BY DEF Routine, Steps
    <3> QED
      BY <2>7, <3>1
  <2> QED
    BY <2>1, <2>2, <2>3, <2>4, <2>5, <2>6, <2>7 DEF Ups
<1>2. Place[c] \in Seq(Steps) /\ Len(Place[c]) \in Nat /\ Len(Place[c]) > 1 /\ Place[c][2] \in {"active", "awake"}
  <2>1. CASE c = "lget2"
    <3>1. /\ Place["lget2"] \in Seq(Steps) /\ Len(Place["lget2"]) \in Nat /\ Len(Place["lget2"]) > 1
          /\ Place["lget2"][2] \in {"active", "awake"}
      BY DEF Place, Steps
    <3> QED
      BY <2>1, <3>1
  <2>2. CASE c = "sget2"
    <3>1. /\ Place["sget2"] \in Seq(Steps) /\ Len(Place["sget2"]) \in Nat /\ Len(Place["sget2"]) > 1
          /\ Place["sget2"][2] \in {"active", "awake"}
      BY DEF Place, Steps
    <3> QED
      BY <2>2, <3>1
  <2>3. CASE c = "rres2"
    <3>1. /\ Place["rres2"] \in Seq(Steps) /\ Len(Place["rres2"]) \in Nat /\ Len(Place["rres2"]) > 1
          /\ Place["rres2"][2] \in {"active", "awake"}
      BY DEF Place, Steps
    <3> QED
      BY <2>3, <3>1
  <2>4. CASE c = "wake2"
    <3>1. /\ Place["wake2"] \in Seq(Steps) /\ Len(Place["wake2"]) \in Nat /\ Len(Place["wake2"]) > 1
          /\ Place["wake2"][2] \in {"active", "awake"}
      BY DEF Place, Steps
    <3> QED
      BY <2>4, <3>1
  <2> QED
    BY <2>1, <2>2, <2>3, <2>4
<1>3. /\ Len(Routine[i]) + 2 \in DOMAIN (Routine[i] \o Place[c])
      /\ (Routine[i] \o Place[c])[Len(Routine[i]) + 2] = Place[c][2]
  BY <1>1, <1>2, SecondAfter
<1> QED
  BY <1>2, <1>3 DEF ResumingAt, Rest

(* napi_enable is never called on an instance that is enabled (rtl8169_up,  *)
(* rtl_reset_work), whichever threads bring the device up, down and through *)
(* resets.                                                                  *)
THEOREM NapiIsEnabledOnce ==
  Spec => []NapiEnabledOnce
<1>1. IInv => NapiEnabledOnce
  <2> SUFFICES ASSUME IInv PROVE NapiEnabledOnce
    OBVIOUS
  <2>0. PICK ui, uc, wi, wc, pi, pc, yi, yc : Good(ui, uc, wi, wc, pi, pc, yi, yc)
    BY DEF IInv
  <2>1. At("user", "napi_enable") => Holds(ui)
    BY <2>0, UserFrom, AtNapiEnable DEF Holds
  <2>2. At("worker", "napi_enable") => Holds(wi)
    BY <2>0, WorkerFrom, AtNapiEnable DEF Holds
  <2>3. At("pm", "napi_enable") => Holds(pi)
    BY <2>0, PmFrom, AtNapiEnable DEF Holds
  <2>4. At("phy", "napi_enable") => Holds(yi)
    BY <2>0, PhyFrom, AtNapiEnable DEF Holds
  <2>5. Holds(ui) \/ Holds(wi) \/ Holds(pi) \/ Holds(yi) => ~napi
    BY <2>0 DEF Good, Parts, Napi
  <2> QED
    BY <2>1, <2>2, <2>3, <2>4, <2>5 DEF NapiEnabledOnce, Threads
<1> QED
  BY <1>1, InvHolds, PTL

(* NAPI and the chip are off, and no thread is about to clear or start      *)
(* anything, when the rings are not there; and after rtl_remove_one nothing *)
(* of the driver is left.                                                   *)
THEOREM RingsOutliveTheirUse ==
  Spec => []RingWhileUsed
<1>1. IInv => RingWhileUsed
  <2> SUFFICES ASSUME IInv PROVE RingWhileUsed
    OBVIOUS
  <2>0. PICK ui, uc, wi, wc, pi, pc, yi, yc : Good(ui, uc, wi, wc, pi, pc, yi, yc)
    BY DEF IInv
  <2>1. Parts(ui, uc, wi, wc, pi, pc, yi, yc)
    BY <2>0 DEF Good
  <2>2. ~ring => ui = "none" /\ pi = "none" /\ wi = "none" /\ yi = "none" /\ ~napi /\ ~hw
    <3>1. ~ring => /\ ui = "none" /\ pi = "none" /\ wc = "end"
                   /\ ~napi /\ ~hw /\ phy # "started"
      BY <2>1 DEF Parts, Netdev, Device, DownState, Off, Others
    <3> QED
      BY <2>1, <3>1 DEF Parts, Shape, Others
  <2>3. At("user", "clear") \/ At("user", "hw_start") => ui # "none"
    BY <2>0, UserFrom, AtClear, AtHwStart
  <2>4. At("worker", "clear") \/ At("worker", "hw_start") => wi # "none"
    BY <2>0, WorkerFrom, AtClear, AtHwStart
  <2>5. At("pm", "clear") \/ At("pm", "hw_start") => pi # "none"
    BY <2>0, PmFrom, AtClear, AtHwStart
  <2>6. At("phy", "clear") \/ At("phy", "hw_start") => yi # "none"
    BY <2>0, PhyFrom, AtClear, AtHwStart
  <2>7. ASSUME gone = "removed"
        PROVE  ~queued /\ ~irq /\ ~ring /\ phy = "none" /\ \A t \in Threads : Idle(t)
    <3>1. uc = "end" /\ ~asleep /\ rpm = "active" /\ ~ring
      BY <2>1, <2>7 DEF Parts, Power, Netdev
    <3>2. pc = "end"
      BY <2>1, <3>1 DEF Parts, Shape, Power, PmPlaces
    <3>3. ~irq /\ phy = "none"
      BY <2>1, <3>1 DEF Parts, Types, Netdev, Flex
    <3>4. ~queued /\ wc = "end" /\ yc = "end"
      BY <2>1, <3>1, <3>3 DEF Parts, Others
    <3>5. Rest("none", "end") = <<>>
      BY PlaceTable
    <3>6. \A t \in Threads : todo[t] = <<>>
      BY <2>0, <2>2, <3>1, <3>2, <3>4, <3>5 DEF Good, Threads
    <3> QED
      BY <3>1, <3>3, <3>4, <3>6 DEF Idle
  <2>8. napi \/ hw => ring
    BY <2>1, <2>2 DEF Parts, Types
  <2>9. \A t \in Threads : At(t, "clear") \/ At(t, "hw_start") => ring
    BY <2>1, <2>2, <2>3, <2>4, <2>5, <2>6 DEF Parts, Types, Threads
  <2> QED
    BY <2>7, <2>8, <2>9 DEF RingWhileUsed
<1> QED
  BY <1>1, InvHolds, PTL

(* When no thread is under way and the system is awake, the device is    *)
(* entirely up or entirely down, and its references to runtime power are *)
(* balanced.                                                             *)
THEOREM RestsUpOrDown ==
  Spec => []UpOrDown
<1>1. IInv => UpOrDown
  <2> SUFFICES ASSUME IInv PROVE UpOrDown
    OBVIOUS
  <2>0. PICK ui, uc, wi, wc, pi, pc, yi, yc : Good(ui, uc, wi, wc, pi, pc, yi, yc)
    BY DEF IInv
  <2>1. Parts(ui, uc, wi, wc, pi, pc, yi, yc)
    BY <2>0 DEF Good
  <2>2. ASSUME Resting
        PROVE  /\ ui = "none" /\ uc = "end" /\ wi = "none" /\ wc = "end"
               /\ pi = "none" /\ pc = "end" /\ yi = "none" /\ yc = "end" /\ ~asleep
    <3>1. todo["user"] = <<>> /\ todo["worker"] = <<>> /\ todo["pm"] = <<>> /\ todo["phy"] = <<>> /\ ~asleep
      BY <2>2 DEF Resting, Idle, Threads
    <3>2. ui = "none" /\ uc = "end"
      BY <2>0, <3>1, UserFrom, EmptyAt
    <3>3. wi = "none" /\ wc = "end"
      BY <2>0, <3>1, WorkerFrom, EmptyAt
    <3>4. pi = "none" /\ pc = "end"
      BY <2>0, <3>1, PmFrom, EmptyAt
    <3>5. yi = "none" /\ yc = "end"
      BY <2>0, <3>1, PhyFrom, EmptyAt
    <3> QED
      BY <3>1, <3>2, <3>3, <3>4, <3>5
  <2> DEFINE up == running /\ rpm = "active" /\ gone = "no"
  <2>3. ASSUME Resting
        PROVE  (ring <=> running) /\ (irq <=> running) /\ (Off("end", "end") <=> ~up)
    <3>1. (ring <=> running) /\ (irq <=> running) /\ (gone = "removed" => ~ring)
      BY <2>1, <2>2, <2>3 DEF Parts, Netdev, Flex
    <3>2. rpm \in {"active", "suspended"} /\ gone \in {"no", "shutdown", "removed"} /\ ~asleep
      BY <2>1, <2>2, <2>3 DEF Parts, Power, UserResumes
    <3>3. Off("end", "end") <=> ~ring \/ gone = "shutdown" \/ rpm = "suspended"
      BY <3>2 DEF Off, HalfOpen, Quiet
    <3> QED
      BY <3>1, <3>2, <3>3
  <2>4. ASSUME Resting
        PROVE  (napi <=> up) /\ (hw <=> up) /\ (Enabled <=> up) /\ (phy = "started" <=> up)
    <3>1. Off("end", "end") => ~napi /\ ~hw /\ ~Enabled /\ phy # "started"
      BY <2>1, <2>2, <2>4 DEF Parts, Device, DownState
    <3>2. ~Off("end", "end") => napi /\ hw /\ Enabled /\ phy = "started"
      BY <2>1, <2>2, <2>4 DEF Parts, Device, UpState, Napi, Holds, Starts
    <3> QED
      BY <2>3, <2>4, <3>1, <3>2
  <2>5. ASSUME Resting
        PROVE  usage = 0 <=> gone = "no"
    <3>1. usage = Refs(uc) + (IF asleep THEN 1 ELSE 0)
      BY <2>1 DEF Parts, Power
    <3> QED
      BY <2>2, <2>5, <3>1 DEF Refs, Ref1, Ref2
  <2>6. ring \in BOOLEAN /\ irq \in BOOLEAN /\ napi \in BOOLEAN /\ hw \in BOOLEAN /\ running \in BOOLEAN
    BY <2>1 DEF Parts, Types
  <2> QED
    BY <2>3, <2>4, <2>5, <2>6 DEF UpOrDown, Enabled
<1> QED
  BY <1>1, InvHolds, PTL

(* Two threads are inside a reset at the same time only when one of them is *)
(* the link handler of an RTL8125 or a resume, which take no lock.          *)
THEOREM ResetsExclude ==
  Spec => []ResetsExclusive
<1>1. IInv => ResetsExclusive
  <2> SUFFICES ASSUME IInv PROVE ResetsExclusive
    OBVIOUS
  <2>0. PICK ui, uc, wi, wc, pi, pc, yi, yc : Good(ui, uc, wi, wc, pi, pc, yi, yc)
    BY DEF IInv
  <2>1. Parts(ui, uc, wi, wc, pi, pc, yi, yc) /\ Alone(ui, uc, pi, pc)
    BY <2>0, MasterAlone DEF Good
  <2>2. Resetting("user") => ui # "none"
    BY <2>0, UserFrom, AtClear, AtNapiEnable, AtHwStart DEF Resetting
  <2>3. Resetting("worker") => wi # "none"
    BY <2>0, WorkerFrom, AtClear, AtNapiEnable, AtHwStart DEF Resetting
  <2>4. Resetting("pm") => pi # "none"
    BY <2>0, PmFrom, AtClear, AtNapiEnable, AtHwStart DEF Resetting
  <2>5. Resetting("phy") => yi # "none"
    BY <2>0, PhyFrom, AtClear, AtNapiEnable, AtHwStart DEF Resetting
  <2>6. yi # "none" => Unlocked("phy")
    BY <2>1 DEF Parts, Shape, Unlocked
  <2>7. wi # "none" => rtnl = "worker"
    BY <2>1 DEF Parts, Shape, Lock, Locked
  <2>8. ASSUME ui # "none", rtnl = "worker"
        PROVE  Unlocked("user")
    <3>1. ui \in Ups /\ uc \in {"lget2", "sget2"}
      BY <2>1, <2>8 DEF Parts, Shape, Lock, Locked, UpPlaces, DownPlaces, UserPlaces
    <3>2. ResumingAt(ui, uc)
      BY <3>1, ResumesAt
    <3>3. todo["user"] = Rest(ui, uc)
      BY <2>0 DEF Good
    <3>4. Resuming("user")
      BY <3>2, <3>3 DEF Resuming, ResumingAt
    <3> QED
      BY <2>8, <3>4 DEF Unlocked
  <2>9. ASSUME pi # "none", rtnl = "worker"
        PROVE  Unlocked("pm")
    <3>1. pi \in Ups /\ pc \in {"rres2", "wake2"}
      BY <2>1, <2>9 DEF Parts, Shape, Lock, Locked, UpPlaces, DownPlaces, PmPlaces
    <3>2. ResumingAt(pi, pc)
      BY <3>1, ResumesAt
    <3>3. todo["pm"] = Rest(pi, pc)
      BY <2>0 DEF Good
    <3>4. Resuming("pm")
      BY <3>2, <3>3 DEF Resuming, ResumingAt
    <3> QED
      BY <2>9, <3>4 DEF Unlocked
  <2>10. ~(ui # "none" /\ pi # "none")
    BY <2>1 DEF Alone
  <2>11. SUFFICES ASSUME NEW t \in Threads, NEW u \in Threads, Resetting(t), Resetting(u), t # u
                  PROVE  Unlocked(t) \/ Unlocked(u)
    BY DEF ResetsExclusive
  <2>12. CASE t = "phy" \/ u = "phy"
    BY <2>5, <2>6, <2>11, <2>12
  <2>13. CASE t = "worker" \/ u = "worker"
    BY <2>2, <2>3, <2>4, <2>5, <2>6, <2>7, <2>8, <2>9, <2>11, <2>13 DEF Threads
  <2> QED
    BY <2>2, <2>4, <2>10, <2>11, <2>12, <2>13 DEF Threads
<1> QED
  BY <1>1, InvHolds, PTL

(* When every thread that has something to do waits, then rtl8169_close *)
(* waits in cancel_work_sync for rtl_task and that for rtnl, or open or *)
(* close waits for the runtime suspend and that for rtnl.               *)
THEOREM OnlyTwoCircles ==
  Spec => []NoOtherDeadlock
<1>1. IInv => NoOtherDeadlock
  <2> SUFFICES ASSUME IInv PROVE NoOtherDeadlock
    OBVIOUS
  <2>0. PICK ui, uc, wi, wc, pi, pc, yi, yc : Good(ui, uc, wi, wc, pi, pc, yi, yc)
    BY DEF IInv
  <2>1. Parts(ui, uc, wi, wc, pi, pc, yi, yc) /\ Alone(ui, uc, pi, pc)
    BY <2>0, MasterAlone DEF Good
  <2>2. SUFFICES ASSUME \A t \in Threads : Idle(t) \/ Waits(t), ~(\A t \in Threads : Idle(t))
                 PROVE  WorkCircle \/ PmCircle
    BY DEF NoOtherDeadlock
  <2>3. ~Idle("user") => WaitsAt("user", ui, uc)
    BY <2>0, <2>2, WaitsWhere, UserFrom DEF Threads
  <2>4. ~Idle("worker") => WaitsAt("worker", wi, wc)
    BY <2>0, <2>2, WaitsWhere, WorkerFrom DEF Threads
  <2>5. ~Idle("pm") => WaitsAt("pm", pi, pc)
    BY <2>0, <2>2, WaitsWhere, PmFrom DEF Threads
  <2>6. ~Idle("phy") => WaitsAt("phy", yi, yc)
    BY <2>0, <2>2, WaitsWhere, PhyFrom DEF Threads
  <2>7. ~Holds(ui) /\ ~Holds(wi) /\ ~Holds(pi) /\ ~Holds(yi)
    <3>1. ~Holds(ui)
      <4>1. Idle("user") => ui = "none"
        BY <2>0, UserFrom, EmptyAt DEF Idle
      <4> QED
        BY <2>3, <4>1 DEF Holds, WaitsAt
    <3>2. ~Holds(wi)
      <4>1. Idle("worker") => wi = "none"
        BY <2>0, WorkerFrom, EmptyAt DEF Idle
      <4> QED
        BY <2>4, <4>1 DEF Holds, WaitsAt
    <3>3. ~Holds(pi)
      <4>1. Idle("pm") => pi = "none"
        BY <2>0, PmFrom, EmptyAt DEF Idle
      <4> QED
        BY <2>5, <4>1 DEF Holds, WaitsAt
    <3>4. ~Holds(yi)
      <4>1. Idle("phy") => yi = "none"
        BY <2>0, PhyFrom, EmptyAt DEF Idle
      <4> QED
        BY <2>6, <4>1 DEF Holds, WaitsAt
    <3> QED
      BY <3>1, <3>2, <3>3, <3>4
  <2>8. ~napi => ui = "none" /\ wi = "none" /\ pi = "none" /\ yi = "none"
    BY <2>1, <2>7 DEF Parts, Napi, Device, DownState, Others, Shape
  <2>9. yc = "end" /\ Idle("phy")
    <3>1. yi \in {"none"} \cup Resets /\ yc \in PhyPlaces /\ (~napi => yi = "none")
      BY <2>1, <2>8 DEF Parts, Shape
    <3>2. Idle("phy")
      BY <2>6, <3>1 DEF WaitsAt, PhyPlaces, Resets
    <3> QED
      BY <2>0, <3>2, PhyFrom, EmptyAt DEF Idle
  <2>10. ~Idle("worker") => At("worker", "rtnl") /\ wc = "task1" /\ rtnl # "none"
    BY <2>1, <2>4, <2>8, <2>9 DEF Parts, Shape, WorkerPlaces, WaitsAt
  <2>11. ~Idle("pm") => At("pm", "rtnl") /\ pc \in {"rsus1", "sys1"} /\ rtnl # "none"
    BY <2>1, <2>5, <2>8, <2>9 DEF Parts, Shape, PmPlaces, WaitsAt
  <2>12. Idle("worker") => wc = "end"
    BY <2>0, WorkerFrom, EmptyAt DEF Idle
  <2>13. Idle("pm") => pc = "end"
    BY <2>0, PmFrom, EmptyAt DEF Idle
  <2>14. Idle("user") => uc = "end"
    BY <2>0, UserFrom, EmptyAt DEF Idle
  <2>15. rtnl \in {"none", "user"}
    <3>1. wc \notin Locked /\ pc \notin Locked
      BY <2>10, <2>11, <2>12, <2>13 DEF Locked
    <3> QED
      BY <2>1, <3>1 DEF Parts, Lock
  <2>16. rpm \in {"suspending", "resuming"} /\ uc \notin UserResumes =>
           rpm = "suspending" /\ At("pm", "rtnl") /\ rtnl # "none"
    <3>1. pc \in {"end", "rsus1", "sys1"}
      BY <2>11, <2>13
    <3>2. rpm \in {"suspending", "resuming"} /\ uc \notin UserResumes => rpm = "suspending" /\ pc = "rsus1"
      BY <2>1, <3>1 DEF Parts, Power
    <3> QED
      BY <2>11, <2>13, <3>2
  <2>17. CASE rtnl = "none"
    <3>1. Idle("worker") /\ Idle("pm") /\ ~Idle("user")
      BY <2>2, <2>9, <2>10, <2>11, <2>17 DEF Threads
    <3>2. WaitsAt("user", ui, uc)
      BY <2>3, <3>1
    <3> QED
      BY <2>1, <2>8, <2>9, <2>16, <2>17, <3>1, <3>2 DEF WaitsAt, UserResumes
  <2>18. CASE rtnl = "user"
    <3>1. uc \in Locked
      BY <2>1, <2>18 DEF Parts, Lock
    <3>2. ~Idle("user")
      BY <2>14, <3>1 DEF Locked
    <3>3. WaitsAt("user", ui, uc)
      BY <2>3, <3>2
    <3>4. At("user", "cancel_work") /\ ~Idle("worker") => WorkCircle
      BY <2>10, <2>18 DEF WorkCircle
    <3>5. At("user", "get") \/ At("user", "resume_parent") => uc \notin UserResumes
      BY <3>3, <2>0, UserFrom, AtGet, AtResumeParent DEF UserResumes
    <3> QED
      BY <2>8, <2>9, <2>16, <2>18, <3>1, <3>3, <3>4, <3>5 DEF WaitsAt, PmCircle, Locked
  <2> QED
    BY <2>15, <2>17, <2>18
<1> QED
  BY <1>1, InvHolds, PTL

=============================================================================
