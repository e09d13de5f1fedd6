---------------------------- MODULE ChipScripts ----------------------------
(***************************************************************************)
(* What the functions of drv-r8169/r8169_main.c do to the registers that   *)
(* more than one of them changes, as sequences of accesses.  A definition  *)
(* is one function, its argument v the chip version (RTL_GIGA_MAC_VER_v).  *)
(* A register holds a set of named bits.  Registers that one function      *)
(* alone touches are left out; where the access itself matters it is a     *)
(* "touch" (the PHY of the PCIe link, the CSI window).  The argument b is  *)
(* what probe and the PHY found of the board.                              *)
(***************************************************************************)
EXTENDS PhyScripts

Boards(v) == {b \in [dash : BOOLEAN, aspm_manageable : BOOLEAN, efuse : BOOLEAN] :
                (b.dash => v \in {28, 31, 51, 52, 53}) /\ (b.efuse => v \in {25, 26})}

WolOpts == {"PHY", "MAGIC", "UCAST", "BCAST", "MCAST"}  \* WAKE_ANY

Registers == {"MAC", "Config1", "Config2", "Config3", "Config4", "Config5", "RxConfig",
              "MISC", "PMCH", "LnkCtl",
              "eri_dc", "eri_d4", "eri_1b0", "eri_1d0", "eri_1a8", "eri_2fc", "eri",
              "ocp_c0b6", "ocp_c0ac", "ocp_e092"}
Bits == {"PMEnable", "Speed_down", "LEDS0", "ClkReqEn", "PME_SIGNAL", "MagicPacket", "LinkUp",
         "Jumbo_En0", "Rdy_to_L23", "Beacon_en", "Jumbo_En1", "BWF", "MWF", "UWF", "Spi_en",
         "LanWake", "ASPM_en", "AcceptOk", "AcceptAllPhys", "AcceptErr", "RXDV_GATED_EN",
         "D3_NO_PLL_DOWN", "CLKREQ_EN", "MagicPacket_v2", "filter", "exit_l1",
         "eee", "b0", "b1", "b2", "b4", "b12"}

-----------------------------------------------------------------------------
(* Accesses.  "get" fetches what the network core asks of reg; "wr" writes *)
(* what "rd" read, with changes and with what "get" fetched.               *)
RMW(reg, clear, set) == Do("rd", reg, {}, {}) \o Do("wr", reg, clear, set)
Put(reg, set)        == Do("put", reg, {}, set)
Touch(reg)           == Do("touch", reg, {}, {})
Unlocked(s)          == Do("unlock", "Cfg9346", {}, {}) \o s \o Do("lock", "Cfg9346", {}, {})

(* Config2 and Config5 have a lock. *)
ModConfig(reg, clear, set) == Under("config25_lock", RMW(reg, clear, set))

(* The ERI window: data in ERIDR, then command and address in ERIAR, which *)
(* writes the bits the data was changed in.                                *)
EriWrite(reg, set) == Do("eridr", reg, Bits, set) \o Do("eri_write", reg, Bits, set)
EriRead(reg)       == Do("eri_read", reg, {}, {}) \o Do("eri_data", reg, {}, {})
MutEriModify(reg, clear, set) == Do("eridr", reg, clear, set) \o Do("eri_write", reg, clear, set)
EriModify(reg, clear, set) ==
    EriRead(reg) \o Do("eridr", reg, clear, set) \o Do("eri_write", reg, clear, set)

(* The MAC OCP window: the address in OCPDR, then the data from OCPDR. *)
OcpModify(reg, clear, set) ==
    Under("mac_ocp_lock", Do("ocp_addr", reg, {}, {}) \o Do("ocp_data", reg, {}, {})
                            \o Do("ocp_write", reg, clear, set))

-----------------------------------------------------------------------------
(* Helpers of the start tables. *)
rtl_reset_packet_filter ==
    EriModify("eri_dc", {"filter"}, {}) \o EriModify("eri_dc", {}, {"filter"})

rtl_set_fifo_size               == EriWrite("eri", {}) \o EriWrite("eri", {})
rtl8168g_set_pause_thresholds   == EriWrite("eri", {}) \o EriWrite("eri", {})
rtl_set_def_aspm_entry_latency  == Touch("csi")
rtl_ephy_init                   == Touch("ephy")
rtl_disable_clock_request       == RMW("LnkCtl", {"CLKREQ_EN"}, {})
rtl_enable_clock_request        == RMW("LnkCtl", {}, {"CLKREQ_EN"})
rtl_pcie_state_l2l3_disable     == RMW("Config3", {"Rdy_to_L23"}, {})
rtl_disable_rxdvgate            == RMW("MISC", {"RXDV_GATED_EN"}, {})
rtl_enable_rxdvgate             == RMW("MISC", {}, {"RXDV_GATED_EN"})
rtl8168_config_eee_mac          == EriModify("eri_1b0", {}, {"eee"})
no_beacon                       == RMW("Config3", {"Beacon_en"}, {})

rtl_enable_exit_l1(v) ==
    If(v \in 34..38, EriModify("eri_d4", {}, {"exit_l1"}))
      \o If(v >= 40, OcpModify("ocp_c0ac", {}, {"exit_l1"}))
rtl_disable_exit_l1(v) ==
    If(v \in 34..38, EriModify("eri_d4", {"exit_l1"}, {}))
      \o If(v >= 40, OcpModify("ocp_c0ac", {"exit_l1"}, {}))

HasL12(v) == v \in {46, 48, 61, 63}
rtl_hw_aspm_clkreq_enable(v, b, enable) ==
    IF v < 32 THEN <<>>
    ELSE IF enable /\ b.aspm_manageable
         THEN If(v \notin {42, 43},
                ModConfig("Config5", {}, {"ASPM_en"}) \o ModConfig("Config2", {}, {"ClkReqEn"})
                  \o If(HasL12(v), OcpModify("ocp_e092", {"b2"}, {"b2"})))
         ELSE If(HasL12(v), OcpModify("ocp_e092", {"b2"}, {}))
                \o ModConfig("Config2", {"ClkReqEn"}, {}) \o ModConfig("Config5", {"ASPM_en"}, {})

-----------------------------------------------------------------------------
(* The start functions, one for each kind of chip. *)
rtl_hw_start_8168b   == no_beacon
rtl_hw_start_8168cp  == RMW("Config1", {}, {"Speed_down"}) \o no_beacon \o rtl_disable_clock_request
rtl_hw_start_8168cp_1 == rtl_set_def_aspm_entry_latency \o rtl_ephy_init \o rtl_hw_start_8168cp
rtl_hw_start_8168cp_2 == rtl_set_def_aspm_entry_latency \o no_beacon
rtl_hw_start_8168cp_3 == rtl_set_def_aspm_entry_latency \o no_beacon
rtl_hw_start_8168c_1 == rtl_set_def_aspm_entry_latency \o rtl_ephy_init \o rtl_hw_start_8168cp
rtl_hw_start_8168c_2 == rtl_set_def_aspm_entry_latency \o rtl_ephy_init \o rtl_hw_start_8168cp
rtl_hw_start_8168c_4 == rtl_set_def_aspm_entry_latency \o rtl_hw_start_8168cp
rtl_hw_start_8168d   == rtl_set_def_aspm_entry_latency \o rtl_disable_clock_request
rtl_hw_start_8168d_4 == rtl_set_def_aspm_entry_latency \o rtl_ephy_init \o rtl_enable_clock_request

rtl_hw_start_8168e_1 ==
    rtl_set_def_aspm_entry_latency \o rtl_ephy_init \o rtl_disable_clock_request
      \o ModConfig("Config5", {"Spi_en"}, {})

rtl_hw_start_8168e_2 ==
    rtl_set_def_aspm_entry_latency \o rtl_ephy_init
      \o EriWrite("eri", {}) \o EriWrite("eri", {}) \o rtl_set_fifo_size
      \o EriModify("eri_1d0", {}, {"b1"}) \o rtl_reset_packet_filter
      \o EriModify("eri_1b0", {}, {"b4"}) \o EriWrite("eri", {}) \o EriWrite("eri", {})
      \o rtl_disable_clock_request \o rtl8168_config_eee_mac
      \o ModConfig("Config5", {"Spi_en"}, {})

rtl_hw_start_8168f ==
    rtl_set_def_aspm_entry_latency
      \o EriWrite("eri", {}) \o EriWrite("eri", {}) \o rtl_set_fifo_size
      \o rtl_reset_packet_filter \o EriModify("eri_1b0", {}, {"b4"})
      \o EriModify("eri_1d0", {}, {"b1", "b4"}) \o EriWrite("eri", {}) \o EriWrite("eri", {})
      \o rtl_disable_clock_request \o ModConfig("Config5", {"Spi_en"}, {})
      \o rtl8168_config_eee_mac

rtl_hw_start_8168f_1 == rtl_hw_start_8168f \o rtl_ephy_init
rtl_hw_start_8411    == rtl_hw_start_8168f \o rtl_pcie_state_l2l3_disable \o rtl_ephy_init

rtl_hw_start_8168g ==
    rtl_set_fifo_size \o rtl8168g_set_pause_thresholds \o rtl_set_def_aspm_entry_latency
      \o rtl_reset_packet_filter \o EriWrite("eri", {}) \o rtl_disable_rxdvgate
      \o EriWrite("eri", {}) \o EriWrite("eri", {}) \o rtl8168_config_eee_mac
      \o EriModify("eri_2fc", {"b1"}, {"b0"}) \o EriModify("eri_1b0", {"b12"}, {})
      \o rtl_pcie_state_l2l3_disable
rtl_hw_start_8168g_1 == rtl_hw_start_8168g \o rtl_ephy_init
rtl_hw_start_8168g_2 == rtl_hw_start_8168g \o rtl_ephy_init
rtl_hw_start_8411_2  == rtl_hw_start_8168g \o rtl_ephy_init \o Touch("ocp")

rtl_hw_start_8168h_1 ==
    rtl_ephy_init \o rtl_set_fifo_size \o rtl8168g_set_pause_thresholds
      \o rtl_set_def_aspm_entry_latency \o rtl_reset_packet_filter
      \o EriModify("eri_dc", {}, {"b2"}) \o EriWrite("eri", {}) \o rtl_disable_rxdvgate
      \o EriWrite("eri", {}) \o EriWrite("eri", {}) \o rtl8168_config_eee_mac
      \o EriModify("eri_1b0", {"b12"}, {}) \o rtl_pcie_state_l2l3_disable
      \o Paged("c42") \o Touch("ocp")

rtl_hw_start_8168ep ==
    rtl_set_fifo_size \o rtl8168g_set_pause_thresholds \o rtl_set_def_aspm_entry_latency
      \o rtl_reset_packet_filter \o EriWrite("eri", {}) \o rtl_disable_rxdvgate
      \o EriWrite("eri", {}) \o EriWrite("eri", {}) \o rtl8168_config_eee_mac
      \o EriModify("eri_2fc", {"b1"}, {"b0"}) \o rtl_pcie_state_l2l3_disable
rtl_hw_start_8168ep_3 == rtl_ephy_init \o rtl_hw_start_8168ep \o Touch("ocp")

rtl_hw_start_8117(v) ==
    rtl_ephy_init \o rtl_set_fifo_size \o rtl8168g_set_pause_thresholds
      \o rtl_set_def_aspm_entry_latency \o rtl_reset_packet_filter
      \o EriModify("eri_d4", {}, {"b4"}) \o EriWrite("eri", {}) \o rtl_disable_rxdvgate
      \o EriWrite("eri", {}) \o EriWrite("eri", {}) \o rtl8168_config_eee_mac
      \o EriModify("eri_1b0", {"b12"}, {}) \o rtl_pcie_state_l2l3_disable
      \o Paged("c42") \o Touch("ocp") \o r8169_apply_firmware(v)

rtl_hw_start_8102e_1 ==
    rtl_set_def_aspm_entry_latency \o Put("Config1", {"LEDS0", "Speed_down", "PMEnable"})
      \o no_beacon \o RMW("Config1", {"LEDS0"}, {}) \o rtl_ephy_init
rtl_hw_start_8102e_2 == rtl_set_def_aspm_entry_latency \o Put("Config1", {"PMEnable"}) \o no_beacon
rtl_hw_start_8102e_3 == rtl_hw_start_8102e_2 \o Touch("ephy")
rtl_hw_start_8401    == rtl_ephy_init \o no_beacon
rtl_hw_start_8105e_1 == rtl_ephy_init \o rtl_pcie_state_l2l3_disable
rtl_hw_start_8105e_2 == rtl_hw_start_8105e_1 \o Touch("ephy")
rtl_hw_start_8402 ==
    rtl_set_def_aspm_entry_latency \o rtl_ephy_init \o rtl_set_fifo_size
      \o rtl_reset_packet_filter \o EriWrite("eri", {}) \o EriWrite("eri", {})
      \o EriModify("eri_d4", {"exit_l1"}, {"exit_l1"}) \o EriWrite("eri_1b0", {})
      \o rtl_pcie_state_l2l3_disable
rtl_hw_start_8106 ==
    rtl_set_def_aspm_entry_latency \o EriWrite("eri_1d0", {}) \o EriWrite("eri_1b0", {})
      \o rtl_pcie_state_l2l3_disable

rtl_hw_start_8125_common ==
    rtl_pcie_state_l2l3_disable \o Touch("ocp") \o RMW("Config1", {"Speed_down"}, {})
      \o Touch("ocp") \o rtl_disable_rxdvgate
rtl_hw_start_8125a_2 == rtl_set_def_aspm_entry_latency \o rtl_ephy_init \o rtl_hw_start_8125_common
rtl_hw_start_8125b   == rtl_set_def_aspm_entry_latency \o rtl_ephy_init \o rtl_hw_start_8125_common

rtl_hw_config(v) ==
    CASE v = 7               -> rtl_hw_start_8102e_1
      [] v = 8               -> rtl_hw_start_8102e_3
      [] v = 9               -> rtl_hw_start_8102e_2
      [] v \in {11, 17}      -> rtl_hw_start_8168b
      [] v = 14              -> rtl_hw_start_8401
      [] v = 18              -> rtl_hw_start_8168cp_1
      [] v = 19              -> rtl_hw_start_8168c_1
      [] v \in {20, 21}      -> rtl_hw_start_8168c_2
      [] v = 22              -> rtl_hw_start_8168c_4
      [] v = 23              -> rtl_hw_start_8168cp_2
      [] v = 24              -> rtl_hw_start_8168cp_3
      [] v \in {25, 26, 31}  -> rtl_hw_start_8168d
      [] v = 28              -> rtl_hw_start_8168d_4
      [] v = 29              -> rtl_hw_start_8105e_1
      [] v = 30              -> rtl_hw_start_8105e_2
      [] v \in {32, 33}      -> rtl_hw_start_8168e_1
      [] v = 34              -> rtl_hw_start_8168e_2
      [] v \in {35, 36}      -> rtl_hw_start_8168f_1
      [] v = 37              -> rtl_hw_start_8402
      [] v = 38              -> rtl_hw_start_8411
      [] v = 39              -> rtl_hw_start_8106
      [] v = 40              -> rtl_hw_start_8168g_1
      [] v \in {42, 43}      -> rtl_hw_start_8168g_2
      [] v = 44              -> rtl_hw_start_8411_2
      [] v \in {46, 48}      -> rtl_hw_start_8168h_1
      [] v = 51              -> rtl_hw_start_8168ep_3
      [] v \in {52, 53}      -> rtl_hw_start_8117(v)
      [] v = 61              -> rtl_hw_start_8125a_2
      [] v = 63              -> rtl_hw_start_8125b
      [] OTHER               -> <<>>

-----------------------------------------------------------------------------
(* Wake-on-LAN. *)
PmeConfig1(v) == v \in 2..6
PmeConfig2(v) == v = 34 \/ v = 37 \/ v >= 39
SetIf(c, bits) == IF c THEN bits ELSE {}

HasD3Pll(v) == v >= 25 /\ v \notin {28, 31, 38}
rtl_set_d3_pll_down(v, enable) ==
    If(HasD3Pll(v),
       RMW("PMCH", SetIf(enable, {"D3_NO_PLL_DOWN"}), SetIf(~enable, {"D3_NO_PLL_DOWN"})))

wol_bit(opts, any, reg, bit) == RMW(reg, {bit}, SetIf(opts \cap any # {}, {bit}))

rtl8169_set_wol(v, b, opts) ==
    LET magic == "MAGIC" \in opts IN
    Unlocked(
        If(rtl_is_8168evl_up(v), EriModify("eri_dc", SetIf(~magic, {"MagicPacket_v2"}),
                                                     SetIf(magic, {"MagicPacket_v2"})))
          \o If(rtl_is_8125(v), OcpModify("ocp_c0b6", SetIf(~magic, {"b0"}), SetIf(magic, {"b0"})))
          \o Under("config25_lock",
                wol_bit(opts, {"PHY"}, "Config3", "LinkUp")
                  \o wol_bit(opts, {"UCAST"}, "Config5", "UWF")
                  \o wol_bit(opts, {"BCAST"}, "Config5", "BWF")
                  \o wol_bit(opts, {"MCAST"}, "Config5", "MWF")
                  \o wol_bit(opts, WolOpts, "Config5", "LanWake")
                  \o If(~rtl_is_8168evl_up(v) /\ ~rtl_is_8125(v),
                        wol_bit(opts, {"MAGIC"}, "Config3", "MagicPacket")))
          \o If(PmeConfig1(v), RMW("Config1", {"PMEnable"}, SetIf(opts # {}, {"PMEnable"})))
          \o If(PmeConfig2(v), ModConfig("Config2", SetIf(opts = {}, {"PME_SIGNAL"}),
                                                    SetIf(opts # {}, {"PME_SIGNAL"}))))
      \o If(~b.dash, rtl_set_d3_pll_down(v, opts = {}))

-----------------------------------------------------------------------------
(* The station address, jumbo frames, the receive filter. *)
rtl_rar_set(v) ==
    Unlocked(Put("MAC", {}) \o Put("MAC", {})
               \o If(v = 34, EriWrite("eri", {}) \o EriWrite("eri", {})
                                \o EriWrite("eri", {}) \o EriWrite("eri", {})))

jumbo_bit(reg, bit, on) == RMW(reg, SetIf(~on, {bit}), SetIf(on, {bit}))
rtl_jumbo_config(v, jumbo) ==
    Unlocked(If(v \in 18..26 \cup {28, 31, 32, 33}, jumbo_bit("Config3", "Jumbo_En0", jumbo))
               \o If(v \in {17} \cup (18..26) \cup (31..33), jumbo_bit("Config4", "Jumbo_En1", jumbo)))

rtl_init_rxcfg == Put("RxConfig", {})
rtl_rx_close   == RMW("RxConfig", {"AcceptOk", "AcceptAllPhys", "AcceptErr"}, {})
rtl_set_rx_mode ==
    Do("get", "mode", {}, {}) \o RMW("RxConfig", {"AcceptOk", "AcceptAllPhys"}, {})
rtl_set_rx_config_features ==
    Do("get", "features", {}, {}) \o RMW("RxConfig", {"AcceptErr"}, {})

-----------------------------------------------------------------------------
(* Start and stop of the chip. *)
MutHwStartAspmOn(v, b, jumbo) ==
    Unlocked(rtl_hw_config(v) \o rtl_enable_exit_l1(v)
               \o rtl_hw_aspm_clkreq_enable(v, b, TRUE))
      \o rtl_jumbo_config(v, jumbo)
      \o rtl_init_rxcfg \o rtl_set_rx_config_features \o rtl_set_rx_mode
MutHwStartRxLast(v, b, jumbo) ==
    Unlocked(rtl_hw_aspm_clkreq_enable(v, b, FALSE)
               \o rtl_hw_config(v)
               \o rtl_enable_exit_l1(v)
               \o rtl_hw_aspm_clkreq_enable(v, b, TRUE))
      \o rtl_jumbo_config(v, jumbo) \o rtl_set_rx_mode \o rtl_init_rxcfg
rtl_hw_start(v, b, jumbo) ==
    Unlocked(rtl_hw_aspm_clkreq_enable(v, b, FALSE)
               \o rtl_hw_config(v)
               \o rtl_enable_exit_l1(v)
               \o rtl_hw_aspm_clkreq_enable(v, b, TRUE))
      \o rtl_jumbo_config(v, jumbo)
      \o rtl_init_rxcfg \o rtl_set_rx_config_features \o rtl_set_rx_mode

rtl8169_cleanup(v) == rtl_rx_close \o If(v >= 40, rtl_enable_rxdvgate)

rtl_reset_work(v, b, jumbo) == rtl8169_cleanup(v) \o rtl_hw_start(v, b, jumbo)

rtl_wol_enable_rx(v) ==
    If(v >= 25, RMW("RxConfig", {}, {"AcceptOk"})) \o If(v >= 40, rtl_disable_rxdvgate)
rtl_prepare_power_down(v, b, wake) ==
    If(~b.dash, If(v \in {32, 33}, Touch("ephy")) \o If(wake, phy("0") \o rtl_wol_enable_rx(v)))

(* A write of the PHY's control register; on an 8168G it hides another.    *)
rtl8168g_phy_suspend_quirk(v, down) ==
    If(v = 40, EriModify("eri_1a8", SetIf(down, {"b4"}), SetIf(~down, {"b4"})))
WriteBMCR(v, down) == Under("mdio_lock", rtl8168g_phy_suspend_quirk(v, down) \o phy("0"))

(* phylib powers the PHY down unless it is to wake the system.             *)
MutDown(v, b, wake) ==
    Do("phy_stop", "phy", {}, {}) \o rtl_prepare_power_down(v, b, wake)
      \o rtl8169_cleanup(v) \o rtl_disable_exit_l1(v)
rtl8169_down(v, b, wake) ==
    Do("phy_stop", "phy", {}, {}) \o If(~wake, WriteBMCR(v, TRUE))
      \o rtl8169_cleanup(v) \o rtl_disable_exit_l1(v) \o rtl_prepare_power_down(v, b, wake)
rtl8169_init_phy(v, b) ==
    r8169_hw_phy_config(v, b.efuse) \o If(v = 5, Paged("1")) \o phy("0") \o WriteBMCR(v, FALSE)
rtl8169_up(v, b, jumbo) ==
    WriteBMCR(v, FALSE) \o rtl8169_init_phy(v, b) \o rtl_reset_work(v, b, jumbo)
      \o Do("phy_start", "phy", {}, {})

(* What the suspends and resumes do, of a device that is open (netif_running *)
(* and TxDescArray) or not.                                                *)
rtl8169_net_suspend(v, b, wake, open) == If(open, rtl8169_down(v, b, wake))
rtl8169_runtime_suspend(v, b, open) ==
    If(open, rtl8169_set_wol(v, b, {"PHY"}) \o rtl8169_net_suspend(v, b, TRUE, open))
MutResume(v, b, opts, jumbo, open) ==
    rtl_rar_set(v) \o If(open, rtl8169_up(v, b, jumbo))
rtl8169_runtime_resume(v, b, opts, jumbo, open) ==
    rtl_rar_set(v) \o rtl8169_set_wol(v, b, opts) \o If(open, rtl8169_up(v, b, jumbo))
rtl8169_resume(v, b, opts, jumbo, open) ==
    If(v = 37, rtl_init_rxcfg) \o rtl8169_runtime_resume(v, b, opts, jumbo, open)

-----------------------------------------------------------------------------
(* What phylib runs, without rtnl: the link handler.                       *)
rtl_link_chg_patch(v, speed) ==
    CASE v \in {34, 38} -> EriWrite("eri", {}) \o EriWrite("eri", {}) \o rtl_reset_packet_filter
      [] v \in {35, 36} -> EriWrite("eri", {}) \o EriWrite("eri", {})
      [] v = 37         -> EriWrite("eri_1d0", SetIf(speed = 10, {"b1"}))
                             \o If(speed = 10, EriWrite("eri", {}))
      [] OTHER          -> <<>>

link_down(v, b) == If(rtl_is_8125(v), rtl_reset_work(v, b, FALSE))
=============================================================================
