----------------------------- MODULE PhyScripts -----------------------------
(***************************************************************************)
(* How drv-r8169/r8169_phy_config.c sets the PHY up: a definition is one   *)
(* function, as a sequence of accesses.  A register of the PHY is reached  *)
(* through a page: "0" is the standard one, which phylib's own accesses    *)
(* mean; an access names the page it means.  Calls in a row that differ in *)
(* their data alone are one access.                                        *)
(***************************************************************************)
EXTENDS ChipVersions, Sequences

(* Accesses: an operation on a register (or a lock, or a page).            *)
Do(op, reg, clear, set) == <<[op |-> op, reg |-> reg, clear |-> clear, set |-> set]>>
Under(lock, s)          == Do("acquire", lock, {}, {}) \o s \o Do("release", lock, {}, {})
If(c, s)                == IF c THEN s ELSE <<>>

(* phy_write of the page register 0x1f, and of any other; a batch keeps    *)
(* the bus locked; a paged access selects and restores under the lock.     *)
Select(page) == Do("page", page, {}, {})
phy(page)    == Do("phy", page, {}, {})
On(page)     == Select(page) \o phy(page)
rtl_writephy_batch(s) == Under("mdio_lock", s)
Paged(page) == Under("mdio_lock", Do("save", page, {}, {}) \o phy(page) \o Do("restore", "0", {}, {}))
r8168d_modify_extpage == Paged("7")
r8168d_phy_param      == Paged("5")
r8168g_phy_param      == Paged("a43")

(* The firmware writes the PHY, or another part of the chip through the    *)
(* same page, without the lock of the bus.  It may leave another page.     *)
HasFirmware(v) ==
    v \in {25, 26, 29, 30} \cup (32..40) \cup {42, 43, 44, 46, 48, 52, 61, 63}
MutFirmwareNoBase(v) ==
    If(HasFirmware(v), Do("fw_page", "fw", {}, {}) \o Do("fw_data", "fw", {}, {}) \o phy("0"))
r8169_apply_firmware(v) ==
    If(HasFirmware(v),
       Do("fw_page", "fw", {}, {}) \o Do("fw_data", "fw", {}, {})
         \o If(v >= 40, Do("fw_base", "0", {}, {})) \o phy("0"))

-----------------------------------------------------------------------------
rtl8168f_config_eee_phy  == r8168d_modify_extpage \o r8168d_phy_param
rtl8168g_config_eee_phy  == Paged("a43")
rtl8168h_config_eee_phy  == rtl8168g_config_eee_phy \o Paged("a4a") \o Paged("a42")
rtl8125a_config_eee_phy  == rtl8168h_config_eee_phy \o Paged("a6d")
rtl8125b_config_eee_phy  == Paged("a6d") \o Paged("a42") \o Paged("a4a")

rtl8169s_hw_phy_config   == rtl_writephy_batch(On("1") \o On("0"))
rtl8169sb_hw_phy_config  == Paged("2")
rtl8169scd_hw_phy_config ==
    rtl_writephy_batch(On("1") \o Select("0") \o On("1") \o Select("0") \o On("1") \o Select("0"))
rtl8169sce_hw_phy_config ==
    rtl_writephy_batch(On("1") \o Select("0") \o On("1") \o Select("0") \o On("1") \o Select("0")
                         \o On("1") \o Select("0"))
rtl8168bb_hw_phy_config  == On("1") \o Select("0")
rtl8168bef_hw_phy_config == Paged("1")
rtl8168cp_1_hw_phy_config == phy("0") \o Paged("2")
rtl8168cp_2_hw_phy_config == phy("0") \o Paged("1")
rtl8168c_1_hw_phy_config ==
    rtl_writephy_batch(On("1") \o On("2") \o On("3") \o Select("0") \o On("0")) \o phy("0")
rtl8168c_2_hw_phy_config ==
    rtl_writephy_batch(On("1") \o On("2") \o On("3") \o Select("0")) \o phy("0")
rtl8168c_3_hw_phy_config ==
    rtl_writephy_batch(On("1") \o On("2") \o On("3") \o Select("0")) \o phy("0")

rtl8168d_1_phy_reg_init_0 == On("1") \o On("3") \o On("2") \o On("5") \o On("1") \o On("0")
rtl8168d_apply_firmware_cond(v) == On("5") \o Select("0") \o r8169_apply_firmware(v)
rtl8168d_1_common == Paged("2") \o r8168d_phy_param \o On("2")

(* What efuse says decides between rtl8168d_1_common and the rest.         *)
rtl8168d_1_hw_phy_config(v, efuse) ==
    rtl_writephy_batch(rtl8168d_1_phy_reg_init_0) \o On("2")
      \o (IF efuse THEN rtl8168d_1_common ELSE Paged("2") \o r8168d_phy_param)
      \o On("2") \o On("2") \o Select("0") \o rtl8168d_apply_firmware_cond(v)
rtl8168d_2_hw_phy_config(v, efuse) ==
    rtl_writephy_batch(rtl8168d_1_phy_reg_init_0)
      \o (IF efuse THEN rtl8168d_1_common ELSE Paged("2") \o r8168d_phy_param)
      \o On("2") \o Select("0") \o Paged("2") \o rtl8168d_apply_firmware_cond(v)
rtl8168d_4_hw_phy_config == Paged("1") \o r8168d_modify_extpage \o phy("0")

rtl8168e_1_hw_phy_config(v) ==
    r8169_apply_firmware(v) \o r8168d_phy_param
      \o rtl_writephy_batch(On("1") \o On("3") \o Select("0"))
      \o r8168d_modify_extpage \o Paged("2") \o r8168d_modify_extpage \o phy("0")
      \o r8168d_phy_param \o r8168d_modify_extpage \o Paged("6") \o phy("0")
rtl8168e_2_hw_phy_config(v) ==
    r8169_apply_firmware(v) \o r8168d_modify_extpage \o Paged("3") \o r8168d_phy_param
      \o On("5") \o Select("0") \o r8168d_modify_extpage \o phy("0") \o r8168d_phy_param
      \o rtl8168f_config_eee_phy \o On("3") \o Select("0") \o Paged("5")

rtl8168f_hw_phy_config ==
    r8168d_phy_param \o r8168d_modify_extpage \o phy("0") \o r8168d_phy_param
      \o rtl8168f_config_eee_phy
rtl8168f_1_hw_phy_config(v) ==
    r8169_apply_firmware(v) \o Paged("3") \o r8168d_phy_param \o r8168d_modify_extpage
      \o r8168d_phy_param \o Paged("3") \o rtl8168f_hw_phy_config \o r8168d_phy_param
rtl8168f_2_hw_phy_config(v) == r8169_apply_firmware(v) \o rtl8168f_hw_phy_config
rtl8411_hw_phy_config(v) ==
    r8169_apply_firmware(v) \o rtl8168f_hw_phy_config \o r8168d_phy_param \o Paged("3")
      \o r8168d_phy_param \o r8168d_modify_extpage \o r8168d_phy_param \o Paged("3")
      \o r8168d_phy_param \o On("3") \o Select("0")

rtl8168g_disable_aldps    == Paged("a43")
rtl8168g_enable_gphy_10m  == Paged("a44")
rtl8168g_phy_adjust_10m_aldps == Paged("bcc") \o Paged("a44") \o r8168g_phy_param \o Paged("a43")
improve_swr               == On("bcd") \o On("bc8") \o On("bcd") \o Select("0")

rtl8168g_1_hw_phy_config(v) ==
    r8169_apply_firmware(v) \o Paged("a46") \o Paged("bcc") \o Paged("a46") \o Paged("c41")
      \o Paged("a44") \o rtl8168g_phy_adjust_10m_aldps \o Paged("a4b") \o r8168g_phy_param
      \o Paged("c42") \o improve_swr \o rtl8168g_disable_aldps \o rtl8168g_config_eee_phy
rtl8168g_2_hw_phy_config(v) == r8169_apply_firmware(v) \o rtl8168g_config_eee_phy
rtl8168h_2_hw_phy_config(v) ==
    r8169_apply_firmware(v) \o r8168g_phy_param \o Paged("a42") \o rtl8168g_enable_gphy_10m
      \o Do("touch", "ocp", {}, {}) \o Paged("bcf") \o Paged("bcd") \o Paged("a44") \o Paged("a43")
      \o rtl8168g_disable_aldps \o rtl8168g_config_eee_phy
rtl8168ep_2_hw_phy_config ==
    rtl8168g_phy_adjust_10m_aldps \o r8168g_phy_param \o Paged("c42") \o r8168g_phy_param
      \o improve_swr \o rtl8168g_disable_aldps \o rtl8168g_config_eee_phy
rtl8117_hw_phy_config ==
    r8168g_phy_param \o rtl8168g_enable_gphy_10m \o r8168g_phy_param
      \o rtl8168g_disable_aldps \o rtl8168h_config_eee_phy

rtl8102e_hw_phy_config == phy("0") \o rtl_writephy_batch(On("3") \o Select("0"))
rtl8401_hw_phy_config  == phy("0") \o Paged("2")
rtl8105e_hw_phy_config(v) ==
    phy("0") \o r8169_apply_firmware(v) \o Paged("5") \o Paged("4") \o Paged("1")
rtl8402_hw_phy_config(v) == phy("0") \o r8169_apply_firmware(v) \o On("4") \o Select("0")
rtl8106e_hw_phy_config(v) ==
    phy("0") \o r8169_apply_firmware(v) \o rtl_writephy_batch(On("4") \o Select("0"))

rtl8125_legacy_force_mode == Paged("a5b")
rtl8125a_2_hw_phy_config(v) ==
    Paged("ad4") \o On("b87") \o Select("0") \o On("a43") \o Select("0") \o r8168g_phy_param
      \o r8169_apply_firmware(v) \o Paged("d06") \o r8168g_phy_param \o Paged("b54")
      \o rtl8168g_enable_gphy_10m \o rtl8125a_config_eee_phy
rtl8125b_hw_phy_config(v) ==
    r8169_apply_firmware(v) \o Paged("a44") \o On("b87") \o Select("0") \o Paged("bf0")
      \o r8168g_phy_param \o Paged("a4c") \o rtl8125_legacy_force_mode \o rtl8125b_config_eee_phy

r8169_hw_phy_config(v, efuse) ==
    CASE v \in {2, 3}      -> rtl8169s_hw_phy_config
      [] v = 4             -> rtl8169sb_hw_phy_config
      [] v = 5             -> rtl8169scd_hw_phy_config
      [] v = 6             -> rtl8169sce_hw_phy_config
      [] v \in 7..9        -> rtl8102e_hw_phy_config
      [] v = 11            -> rtl8168bb_hw_phy_config
      [] v = 14            -> rtl8401_hw_phy_config
      [] v = 17            -> rtl8168bef_hw_phy_config
      [] v = 18            -> rtl8168cp_1_hw_phy_config
      [] v = 19            -> rtl8168c_1_hw_phy_config
      [] v = 20            -> rtl8168c_2_hw_phy_config
      [] v \in {21, 22}    -> rtl8168c_3_hw_phy_config
      [] v \in {23, 24}    -> rtl8168cp_2_hw_phy_config
      [] v = 25            -> rtl8168d_1_hw_phy_config(v, efuse)
      [] v = 26            -> rtl8168d_2_hw_phy_config(v, efuse)
      [] v = 28            -> rtl8168d_4_hw_phy_config
      [] v \in {29, 30}    -> rtl8105e_hw_phy_config(v)
      [] v \in {32, 33}    -> rtl8168e_1_hw_phy_config(v)
      [] v = 34            -> rtl8168e_2_hw_phy_config(v)
      [] v = 35            -> rtl8168f_1_hw_phy_config(v)
      [] v = 36            -> rtl8168f_2_hw_phy_config(v)
      [] v = 37            -> rtl8402_hw_phy_config(v)
      [] v = 38            -> rtl8411_hw_phy_config(v)
      [] v = 39            -> rtl8106e_hw_phy_config(v)
      [] v = 40            -> rtl8168g_1_hw_phy_config(v)
      [] v \in {42, 43, 44} -> rtl8168g_2_hw_phy_config(v)
      [] v \in {46, 48}    -> rtl8168h_2_hw_phy_config(v)
      [] v = 51            -> rtl8168ep_2_hw_phy_config
      [] v \in {52, 53}    -> rtl8117_hw_phy_config
      [] v = 61            -> rtl8125a_2_hw_phy_config(v)
      [] v = 63            -> rtl8125b_hw_phy_config(v)
      [] OTHER             -> <<>>
=============================================================================
