------------------------------ MODULE ChipRegs ------------------------------
(***************************************************************************)
(* The chip's registers under the threads that change them, one access a   *)
(* step: "main" runs one operation at a time (rtnl is held, or the device  *)
(* is resumed); "task" is what runs under rtnl beside a resume, which      *)
(* takes none: rtl_task and the network core; "phy" is phylib's work,      *)
(* which calls r8169_phylink_handler and writes the PHY without rtnl.  The *)
(* accesses of an operation are a sequence of ChipScripts.  The chip and   *)
(* phylib are external.  Definitions named Mut... are mistakes in the      *)
(* definition that follows.                                                *)
(***************************************************************************)
EXTENDS ChipScripts, FiniteSets

CONSTANTS
    Chips,       \* the versions of this instance
    WolChoices,  \* what ethtool may ask to wake the system
    MaxOps,      \* bound on the operations of main, on chips phylib leaves alone
    MaxRaced,    \* and on the others
    Long,        \* versions of which main runs one operation more
    Overlapped,  \* versions whose resumes are overlapped by "task"
    MaxDisturbed \* bound on the calls from phylib, those of "task", and the ERI
                 \* reads that time out

ASSUME ChipAssumption ==
    /\ Chips \subseteq Versions /\ Long \subseteq Chips /\ Overlapped \subseteq Chips
    /\ WolChoices \subseteq SUBSET WolOpts
    /\ {MaxOps, MaxRaced, MaxDisturbed} \subseteq Nat

Threads == {"main", "task", "phy"}
Locks   == {"config25_lock", "mac_ocp_lock", "mdio_lock"}
Nobody  == "nobody"

-----------------------------------------------------------------------------
(* The scripts of all versions, and what they have in common: locks are    *)
(* taken and given back in pairs, and what a lock guards is written under  *)
(* it, right after it was read.  It is a fact about the definitions of     *)
(* ChipScripts, which TLC evaluates; the proofs rest on it.                *)
EepromRegs == {"MAC", "Config1", "Config2", "Config3", "Config4", "Config5"}
OcpRegs    == {"ocp_c0b6", "ocp_c0ac", "ocp_e092"}
Guarded    == {"Config2", "Config5"} \cup OcpRegs
EriRegs    == {"eri_dc", "eri_d4", "eri_1b0", "eri_1d0", "eri_1a8", "eri_2fc", "eri"}

MainScripts(v) == UNION {
    {rtl8169_set_wol(v, b, o) : b \in Boards(v), o \in WolChoices},
    {rtl_rar_set(v), rtl_set_rx_mode, rtl_set_rx_config_features},
    {rtl_reset_work(v, b, j) : b \in Boards(v), j \in BOOLEAN},
    {rtl_jumbo_config(v, j) : j \in BOOLEAN},
    {rtl8169_up(v, b, j) : b \in Boards(v), j \in BOOLEAN},
    {rtl8169_down(v, b, w) : b \in Boards(v), w \in BOOLEAN},
    {rtl8169_runtime_suspend(v, b, TRUE) : b \in Boards(v)},
    {rtl8169_runtime_resume(v, b, o, j, up) :
        b \in Boards(v), o \in WolChoices, j \in BOOLEAN, up \in BOOLEAN},
    {rtl8169_resume(v, b, o, j, up) :
        b \in Boards(v), o \in WolChoices, j \in BOOLEAN, up \in BOOLEAN} }
LinkScripts(v) ==
    {rtl_link_chg_patch(v, 1000), rtl_link_chg_patch(v, 10), WriteBMCR(v, FALSE), Paged("a43")}
      \cup {link_down(v, b) : b \in Boards(v)}
Scripts == {<<>>} \cup UNION {MainScripts(v) \cup LinkScripts(v) : v \in Versions}

PhyOps == {"page", "phy", "save", "restore", "fw_page", "fw_data", "fw_base"}
Ops == {"unlock", "lock", "acquire", "release", "rd", "wr", "put", "get", "touch", "eri_read",
        "eri_data", "eridr", "eri_write", "ocp_addr", "ocp_data", "ocp_write", "phy_stop", "phy_start"}
         \cup PhyOps
Pages == {"0", "1", "2", "3", "4", "5", "6", "7", "a42", "a43", "a44", "a46", "a4a", "a4b", "a4c",
          "a5b", "a6d", "ad4", "b54", "b87", "bc8", "bcc", "bcd", "bcf", "bf0", "c41", "c42", "d06"}
Names == Registers \cup Locks \cup Pages \cup {"Cfg9346", "mode", "features", "phy", "ephy", "csi", "ocp", "fw"}
Accesses == [op : Ops, reg : Names, clear : SUBSET Bits, set : SUBSET Bits]

Opened(s, i) == \E u \in 1..(i - 1) :
    s[u].op = "unlock" /\ \A k \in (u + 1)..(i - 1) : s[k].op # "lock"
Holds(s, l, i) == \E u \in 1..(i - 1) :
    /\ s[u].op = "acquire" /\ s[u].reg = l
    /\ \A k \in (u + 1)..(i - 1) : ~(s[k].op = "release" /\ s[k].reg = l)
Follows(s, i, op) == i > 1 /\ s[i - 1].op = op /\ s[i - 1].reg = s[i].reg

PairedAt(s, i) ==
    /\ s[i].op = "unlock" => ~Opened(s, i)
    /\ s[i].op = "lock" => Opened(s, i)
    /\ s[i].op = "acquire" => s[i].reg \in Locks /\ ~Holds(s, s[i].reg, i)
    /\ s[i].op = "release" => s[i].reg \in Locks /\ Holds(s, s[i].reg, i)
GuardedAt(s, i) ==
    /\ s[i].op \in {"wr", "put"} =>
         s[i].reg \in Registers \ OcpRegs /\ (s[i].reg \in EepromRegs => Opened(s, i))
    /\ s[i].op = "wr" /\ s[i].reg \in Guarded => Holds(s, "config25_lock", i) /\ Follows(s, i, "rd")
    /\ s[i].op \in {"put", "eri_write"} => s[i].reg \notin Guarded
    /\ s[i].op \in {"ocp_addr", "ocp_data", "ocp_write"} =>
         s[i].reg \in OcpRegs /\ Holds(s, "mac_ocp_lock", i)
    /\ s[i].op = "ocp_data" => Follows(s, i, "ocp_addr")
    /\ s[i].op = "ocp_write" => Follows(s, i, "ocp_data")
Disciplined(s) ==
    /\ s \in Seq(Accesses)
    /\ \A i \in 1..Len(s) : PairedAt(s, i) /\ GuardedAt(s, i)
    /\ ~Opened(s, Len(s) + 1) /\ \A l \in Locks : ~Holds(s, l, Len(s) + 1)

ASSUME ScriptAssumption == {} \in WolChoices /\ \A s \in Scripts : Disciplined(s)

VARIABLES
    mac_version, board,   \* found by probe and the PHY setup
    mem,                  \* what the chip's registers hold
    eridr, ocpdr,         \* the ERI data window, the address in the MAC OCP window
    cfg9346,              \* may Config0-5 and the address be written?
    cfg9346_usage_count,
    owner,                \* of config25_lock, mac_ocp_lock and the lock of the MDIO bus
    page, oldpage, fwpage,\* of the PHY (ocp_base); saved by phylib; meant by the firmware
    script, pc, tmp, arg, \* each thread: its accesses, the next, what it read, what it fetched
    saved_wolopts, wol,   \* what ethtool asked, what was last asked of the chip
    jumbo, promisc, rxall,\* mtu > ETH_DATA_LEN, IFF_PROMISC, NETIF_F_RXALL
    power, phy_on,        \* up or how suspended; phy_start to phy_stop
    running,              \* is the interface open (netif_running, TxDescArray)?
    deaf,                 \* was the receiver shut last, and not opened since?
    faults,               \* have threads overlapped, or task with a resume, has an
                          \* ERI read timed out?
    bounds                \* how much of each bound is used

config  == <<mac_version, board>>
pages   == <<page, oldpage, fwpage>>
windows == <<eridr, ocpdr>>
cfglock == <<cfg9346, cfg9346_usage_count>>
soft    == <<saved_wolopts, wol, jumbo, promisc, rxall, power, running, deaf>>
vars == <<config, mem, windows, cfglock, owner, pages, script, pc, tmp, arg, soft, phy_on, faults, bounds>>

Idle(t) == pc[t] > Len(script[t])
Rest    == \A t \in Threads : Idle(t)
At(t, op) == ~Idle(t) /\ script[t][pc[t]].op = op
Now(t)    == script[t][pc[t]]
Step(t)   == pc' = [pc EXCEPT ![t] = @ + 1] /\ UNCHANGED <<config, script, soft, bounds>>

(* A device found open is resumed, its registers lost (hibernation). *)
Init ==
    /\ mac_version \in Chips
    /\ board \in Boards(mac_version)
    /\ mem = [r \in Registers |-> {}] /\ eridr = {} /\ ocpdr = "ocp"
    /\ cfg9346 = "locked" /\ cfg9346_usage_count = 0
    /\ owner = [l \in Locks |-> Nobody]
    /\ page = "0" /\ oldpage = "0" /\ fwpage = "0"
    /\ script = [t \in Threads |->
         If(t = "main", rtl8169_resume(mac_version, board, {}, FALSE, TRUE))]
    /\ pc = [t \in Threads |-> 1]
    /\ tmp = [t \in Threads |-> {}] /\ arg = [t \in Threads |-> {}]
    /\ saved_wolopts = {} /\ wol = {}
    /\ jumbo = FALSE /\ promisc = FALSE /\ rxall = FALSE
    /\ power = "up" /\ phy_on = FALSE /\ running = TRUE /\ deaf = FALSE
    /\ faults = {} /\ bounds = [ops |-> 0, disturbed |-> 0]

-----------------------------------------------------------------------------
(* The lock of the configuration registers counts its users. *)
rtl_unlock_config_regs(t) ==
    /\ At(t, "unlock")
    /\ cfg9346_usage_count' = cfg9346_usage_count + 1
    /\ cfg9346' = IF cfg9346_usage_count = 0 THEN "unlocked" ELSE cfg9346
    /\ Step(t) /\ UNCHANGED <<pages, mem, windows, owner, tmp, arg, phy_on, faults>>

MutLockAtOnce(t) ==
    /\ At(t, "lock")
    /\ cfg9346_usage_count' = cfg9346_usage_count - 1
    /\ cfg9346' = "locked"
    /\ Step(t) /\ UNCHANGED <<pages, mem, windows, owner, tmp, arg, phy_on, faults>>
rtl_lock_config_regs(t) ==
    /\ At(t, "lock")
    /\ cfg9346_usage_count' = cfg9346_usage_count - 1
    /\ cfg9346' = IF cfg9346_usage_count = 1 THEN "locked" ELSE cfg9346
    /\ Step(t) /\ UNCHANGED <<pages, mem, windows, owner, tmp, arg, phy_on, faults>>

MutAcquire(t) ==
    /\ At(t, "acquire")
    /\ owner' = [owner EXCEPT ![Now(t).reg] = t]
    /\ Step(t) /\ UNCHANGED <<pages, mem, windows, cfglock, tmp, arg, phy_on, faults>>
Acquire(t) ==
    /\ At(t, "acquire") /\ owner[Now(t).reg] = Nobody
    /\ owner' = [owner EXCEPT ![Now(t).reg] = t]
    /\ Step(t) /\ UNCHANGED <<pages, mem, windows, cfglock, tmp, arg, phy_on, faults>>

Release(t) ==
    /\ At(t, "release")
    /\ owner' = [owner EXCEPT ![Now(t).reg] = Nobody]
    /\ Step(t) /\ UNCHANGED <<pages, mem, windows, cfglock, tmp, arg, phy_on, faults>>

(* RTL_R8 and RTL_W8 of a register; a read, a change and a write. *)
Read(t) ==
    /\ At(t, "rd")
    /\ tmp' = [tmp EXCEPT ![t] = mem[Now(t).reg]]
    /\ Step(t) /\ UNCHANGED <<pages, mem, windows, cfglock, owner, arg, phy_on, faults>>

Changed(t) == (tmp[t] \ Now(t).clear) \cup Now(t).set \cup arg[t]
Write(t) ==
    /\ At(t, "wr")
    /\ mem' = [mem EXCEPT ![Now(t).reg] = Changed(t)]
    /\ tmp' = [tmp EXCEPT ![t] = {}] /\ arg' = [arg EXCEPT ![t] = {}]
    /\ Step(t) /\ UNCHANGED <<pages, windows, cfglock, owner, phy_on, faults>>

Overwrite(t) ==
    /\ At(t, "put")
    /\ mem' = [mem EXCEPT ![Now(t).reg] = Now(t).set]
    /\ Step(t) /\ UNCHANGED <<pages, windows, cfglock, owner, tmp, arg, phy_on, faults>>

(* What the network core asks of the receive filter. *)
RxMode   == {"AcceptOk"} \cup SetIf(promisc, {"AcceptAllPhys"})
RxErrors == SetIf(rxall, {"AcceptErr"})
Get(t) ==
    /\ At(t, "get")
    /\ arg' = [arg EXCEPT ![t] = IF Now(t).reg = "mode" THEN RxMode ELSE RxErrors]
    /\ Step(t) /\ UNCHANGED <<pages, mem, windows, cfglock, owner, tmp, phy_on, faults>>

(* Registers nobody else uses; a series of MAC OCP accesses takes its lock. *)
Use(t) ==
    /\ At(t, "touch")
    /\ Now(t).reg = "ocp" => owner["mac_ocp_lock"] = Nobody
    /\ ocpdr' = IF Now(t).reg = "ocp" THEN "ocp" ELSE ocpdr
    /\ Step(t) /\ UNCHANGED <<pages, mem, eridr, cfglock, owner, tmp, arg, phy_on, faults>>

-----------------------------------------------------------------------------
(* The ERI window, in front of registers that are read as well and others  *)
(* ("eri") that are only written.  A read that times out returns ~0.       *)
EriAskRead(t) ==
    /\ At(t, "eri_read")
    /\ eridr' = mem[Now(t).reg]
    /\ Step(t) /\ UNCHANGED <<pages, mem, ocpdr, cfglock, owner, tmp, arg, phy_on, faults>>

EriGetData(t) ==
    /\ At(t, "eri_data")
    /\ tmp' = [tmp EXCEPT ![t] = eridr]
    /\ Step(t) /\ UNCHANGED <<pages, mem, windows, cfglock, owner, arg, phy_on, faults>>

EriTimeout(t) ==
    /\ At(t, "eri_data") /\ bounds.disturbed < MaxDisturbed
    /\ tmp' = [tmp EXCEPT ![t] = Bits]
    /\ faults' = faults \cup {"timeout"}
    /\ bounds' = [bounds EXCEPT !.disturbed = @ + 1]
    /\ pc' = [pc EXCEPT ![t] = @ + 1]
    /\ UNCHANGED <<config, script, soft, pages, mem, windows, cfglock, owner, arg, phy_on>>

EriPutData(t) ==
    /\ At(t, "eridr")
    /\ eridr' = Changed(t) /\ tmp' = [tmp EXCEPT ![t] = Changed(t)]
    /\ Step(t) /\ UNCHANGED <<pages, mem, ocpdr, cfglock, owner, arg, phy_on, faults>>

EriAskWrite(t) ==
    /\ At(t, "eri_write")
    /\ mem' = IF Now(t).reg = "eri" THEN mem ELSE [mem EXCEPT ![Now(t).reg] = eridr]
    /\ tmp' = [tmp EXCEPT ![t] = {}]
    /\ Step(t) /\ UNCHANGED <<pages, windows, cfglock, owner, arg, phy_on, faults>>

(* The MAC OCP window. *)
OcpAddress(t) ==
    /\ At(t, "ocp_addr")
    /\ ocpdr' = Now(t).reg
    /\ Step(t) /\ UNCHANGED <<pages, mem, eridr, cfglock, owner, tmp, arg, phy_on, faults>>

OcpData(t) ==
    /\ At(t, "ocp_data")
    /\ tmp' = [tmp EXCEPT ![t] = IF ocpdr \in Registers THEN mem[ocpdr] ELSE {}]
    /\ Step(t) /\ UNCHANGED <<pages, mem, windows, cfglock, owner, arg, phy_on, faults>>

OcpWrite(t) ==
    /\ At(t, "ocp_write")
    /\ mem' = [mem EXCEPT ![Now(t).reg] = Changed(t)]
    /\ ocpdr' = Now(t).reg /\ tmp' = [tmp EXCEPT ![t] = {}]
    /\ Step(t) /\ UNCHANGED <<pages, eridr, cfglock, owner, arg, phy_on, faults>>

-----------------------------------------------------------------------------
(* The PHY's registers, behind a page: a register of the PHY, on the newer *)
(* chips the driver's ocp_base.  Each access takes the lock of the bus, or *)
(* finds its thread holding it; those of the firmware do neither.          *)
Bus(t) == owner["mdio_lock"] \in {Nobody, t}
Kept(t) == Step(t) /\ UNCHANGED <<mem, windows, cfglock, owner, tmp, arg, phy_on, faults>>

SelectPage(t) ==
    /\ At(t, "page") /\ Bus(t)
    /\ page' = Now(t).reg /\ Kept(t) /\ UNCHANGED <<oldpage, fwpage>>
PhyAccess(t) ==
    /\ At(t, "phy") /\ Bus(t)
    /\ Kept(t) /\ UNCHANGED pages
phy_select_page(t) ==
    /\ At(t, "save")
    /\ oldpage' = page /\ page' = Now(t).reg /\ Kept(t) /\ UNCHANGED fwpage
phy_restore_page(t) ==
    /\ At(t, "restore")
    /\ page' = oldpage /\ oldpage' = "0" /\ Kept(t) /\ UNCHANGED fwpage

FwSelect(t) ==
    /\ At(t, "fw_page")
    /\ \E p \in {"0", "fw"} : page' = p /\ fwpage' = p
    /\ Kept(t) /\ UNCHANGED oldpage
FwWrite(t) ==
    /\ At(t, "fw_data")
    /\ fwpage' = "0" /\ Kept(t) /\ UNCHANGED <<page, oldpage>>
FwBase(t) ==
    /\ At(t, "fw_base")
    /\ page' = "0" /\ Kept(t) /\ UNCHANGED <<oldpage, fwpage>>

-----------------------------------------------------------------------------
(* phy_stop waits for phylib's work; phy_start lets it run. *)
PhyStop(t) ==
    /\ At(t, "phy_stop") /\ Idle("phy")
    /\ phy_on' = FALSE
    /\ Step(t) /\ UNCHANGED <<pages, mem, windows, cfglock, owner, tmp, arg, faults>>

PhyStart(t) ==
    /\ At(t, "phy_start")
    /\ phy_on' = TRUE
    /\ Step(t) /\ UNCHANGED <<pages, mem, windows, cfglock, owner, tmp, arg, faults>>

Access(t) ==
    \/ rtl_unlock_config_regs(t) \/ rtl_lock_config_regs(t) \/ Acquire(t) \/ Release(t)
    \/ Read(t) \/ Write(t) \/ Overwrite(t) \/ Get(t) \/ Use(t)
    \/ EriAskRead(t) \/ EriGetData(t) \/ EriTimeout(t) \/ EriPutData(t) \/ EriAskWrite(t)
    \/ OcpAddress(t) \/ OcpData(t) \/ OcpWrite(t)
    \/ SelectPage(t) \/ PhyAccess(t) \/ phy_select_page(t) \/ phy_restore_page(t)
    \/ FwSelect(t) \/ FwWrite(t) \/ FwBase(t)
    \/ PhyStop(t) \/ PhyStart(t)

-----------------------------------------------------------------------------
Start(t, s) ==
    /\ Idle(t)
    /\ script' = [script EXCEPT ![t] = s] /\ pc' = [pc EXCEPT ![t] = 1]
    /\ faults' = faults \cup SetIf(\E u \in Threads \ {t} : ~Idle(u), {"overlap"})
                         \cup SetIf(t = "task", {"resume"})
    /\ UNCHANGED <<config, mem, windows, cfglock, owner, pages, tmp, arg, phy_on>>

Raced(v) == v \in (34..38) \cup {40, 61, 63}
OpsBound == IF Raced(mac_version) THEN MaxRaced
            ELSE IF mac_version \in Long THEN MaxOps + 1 ELSE MaxOps
Main(s, state) ==
    /\ power = state /\ bounds.ops < OpsBound /\ Idle("task")
    /\ bounds' = [bounds EXCEPT !.ops = @ + 1]
    /\ Start("main", s)

(* Beside a resume; rtl_task waits until rtl8169_up lets it reset, right   *)
(* before its own reset.                                                   *)
Resuming ==
    /\ ~Idle("main")
    /\ script["main"] \in {rtl8169_runtime_resume(mac_version, board, saved_wolopts, jumbo, running),
                           rtl8169_resume(mac_version, board, saved_wolopts, jumbo, running)}
TaskEnabled == pc["main"] >= Len(script["main"]) - Len(rtl_reset_work(mac_version, board, jumbo))
Beside(s) ==
    /\ mac_version \in Overlapped /\ bounds.disturbed < MaxDisturbed /\ Resuming
    /\ bounds' = [bounds EXCEPT !.disturbed = @ + 1]
    /\ Start("task", s)

rtl_open ==
    /\ ~running
    /\ Main(rtl8169_up(mac_version, board, jumbo), "up")
    /\ running' = TRUE /\ deaf' = FALSE
    /\ UNCHANGED <<saved_wolopts, wol, jumbo, promisc, rxall, power>>
rtl8169_close ==
    /\ running
    /\ Main(rtl8169_down(mac_version, board, wol # {}), "up")
    /\ running' = FALSE /\ deaf' = (wol = {})
    /\ UNCHANGED <<saved_wolopts, wol, jumbo, promisc, rxall, power>>

(* ethtool -s wol *)
set_wol ==
    \E opts \in WolChoices :
        /\ Main(rtl8169_set_wol(mac_version, board, opts), "up")
        /\ saved_wolopts' = opts /\ wol' = opts
        /\ UNCHANGED <<jumbo, promisc, rxall, power, running, deaf>>

(* ndo_set_mac_address *)
set_mac_address ==
    /\ Main(rtl_rar_set(mac_version), "up")
    /\ UNCHANGED soft

(* rtl_task's reset *)
rtl_task ==
    /\ running
    /\ \/ Main(rtl_reset_work(mac_version, board, jumbo), "up")
       \/ Beside(rtl_reset_work(mac_version, board, jumbo)) /\ TaskEnabled
    /\ UNCHANGED soft

change_mtu ==
    /\ jumbo' = ~jumbo
    /\ Main(rtl_jumbo_config(mac_version, jumbo'), "up")
    /\ UNCHANGED <<saved_wolopts, wol, promisc, rxall, power, running, deaf>>

(* The core calls ndo_set_rx_mode of an open device that is present, and   *)
(* ndo_set_features of any: asleep, the device does not see the accesses.  *)
set_rx_mode ==
    /\ promisc' = ~promisc
    /\ \/ running /\ Main(rtl_set_rx_mode, "up")
       \/ ~running /\ Main(<<>>, "up")
       \/ Main(<<>>, "runtime")
       \/ Beside(<<>>)
    /\ UNCHANGED <<saved_wolopts, wol, jumbo, rxall, power, running, deaf>>
set_features ==
    /\ rxall' = ~rxall
    /\ \/ Main(rtl_set_rx_config_features, "up")
       \/ Main(<<>>, "runtime")
       \/ Beside(rtl_set_rx_config_features)
    /\ UNCHANGED <<saved_wolopts, wol, jumbo, promisc, power, running, deaf>>

runtime_suspend ==
    /\ Main(rtl8169_runtime_suspend(mac_version, board, running), "up")
    /\ wol' = IF running THEN {"PHY"} ELSE wol
    /\ deaf' = (deaf /\ ~running)
    /\ power' = "runtime"
    /\ UNCHANGED <<saved_wolopts, jumbo, promisc, rxall, running>>

(* rtl8169_suspend, and rtl_shutdown at a power-off *)
system_suspend ==
    /\ Main(rtl8169_net_suspend(mac_version, board, wol # {}, running), "up")
    /\ deaf' = IF running THEN wol = {} ELSE deaf
    /\ power' = "system"
    /\ UNCHANGED <<saved_wolopts, wol, jumbo, promisc, rxall, running>>

runtime_resume ==
    /\ Main(rtl8169_runtime_resume(mac_version, board, saved_wolopts, jumbo, running), "runtime")
    /\ wol' = saved_wolopts /\ power' = "up" /\ deaf' = (deaf /\ ~running)
    /\ UNCHANGED <<saved_wolopts, jumbo, promisc, rxall, running>>
resume ==
    /\ Main(rtl8169_resume(mac_version, board, saved_wolopts, jumbo, running), "system")
    /\ wol' = saved_wolopts /\ power' = "up"
    /\ deaf' = ((deaf \/ mac_version = 37) /\ ~running)
    /\ UNCHANGED <<saved_wolopts, jumbo, promisc, rxall, running>>

(* phylib: the link handler at either speed or without link, a write of    *)
(* BMCR, an access behind a page where another uses the PHY as well.       *)
PhyShared == \E t \in {"main", "task"} :
    \E i \in pc[t]..Len(script[t]) : script[t][i].op \in PhyOps
phylib ==
    /\ phy_on /\ bounds.disturbed < MaxDisturbed
    /\ bounds' = [bounds EXCEPT !.disturbed = @ + 1]
    /\ \/ \E s \in {rtl_link_chg_patch(mac_version, 1000), rtl_link_chg_patch(mac_version, 10),
                    link_down(mac_version, board)} \ {<<>>} : Start("phy", s)
       \/ (mac_version = 40 \/ PhyShared) /\ Start("phy", WriteBMCR(mac_version, FALSE))
       \/ PhyShared /\ Start("phy", Paged("a43"))
    /\ UNCHANGED soft

Done == Rest /\ UNCHANGED vars

Next ==
    \/ \E t \in Threads : Access(t)
    \/ rtl_open \/ rtl8169_close
    \/ set_wol \/ set_mac_address \/ rtl_task \/ change_mtu \/ set_rx_mode \/ set_features
    \/ runtime_suspend \/ system_suspend \/ runtime_resume \/ resume \/ phylib
    \/ Done

Spec == Init /\ [][Next]_vars

-----------------------------------------------------------------------------
(* Type invariant. *)
TypeOK ==
    /\ mac_version \in Chips /\ board \in Boards(mac_version)
    /\ mem \in [Registers -> SUBSET Bits] /\ eridr \subseteq Bits
    /\ ocpdr \in Registers \cup {"ocp"}
    /\ cfg9346 \in {"locked", "unlocked"} /\ cfg9346_usage_count \in 0..Cardinality(Threads)
    /\ owner \in [Locks -> Threads \cup {Nobody}]
    /\ \A t \in Threads : pc[t] \in 1..(Len(script[t]) + 1)
    /\ tmp \in [Threads -> SUBSET Bits] /\ arg \in [Threads -> SUBSET Bits]
    /\ saved_wolopts \subseteq WolOpts /\ wol \subseteq WolOpts
    /\ {jumbo, promisc, rxall, phy_on, running, deaf} \subseteq BOOLEAN
    /\ power \in {"up", "runtime", "system"} /\ faults \subseteq {"overlap", "timeout", "resume"}

(* No configuration register is written while the chip has them locked,    *)
(* whichever thread locks or unlocks them in between, and nobody leaves    *)
(* them open (rtl_unlock_config_regs and rtl_lock_config_regs nest).       *)
ConfigWritesLand ==
    /\ \A t \in Threads : (At(t, "wr") \/ At(t, "put")) /\ Now(t).reg \in EepromRegs
                            => cfg9346 = "unlocked"
    /\ Rest => cfg9346 = "locked" /\ cfg9346_usage_count = 0

(* What a write to Config2, Config5 or a MAC OCP register puts back is     *)
(* what the register still holds: nobody's change of another bit is lost,  *)
(* two resets at once included (config25_lock and mac_ocp_lock, with the   *)
(* window's address under the latter).                                     *)
GuardedKept ==
    \A t \in Threads :
        /\ At(t, "ocp_data") => ocpdr = Now(t).reg
        /\ (At(t, "wr") \/ At(t, "ocp_write")) /\ Now(t).reg \in Guarded => tmp[t] = mem[Now(t).reg]

(* The other registers have no lock.  Updates of theirs may be lost in     *)
(* three ways: in ERI, where phylib uses it too, or after a read that      *)
(* timed out; on an RTL8125, whose link handler resets the chip without    *)
(* rtnl; and on every chip once a resume, which takes no rtnl either, was  *)
(* overlapped by rtl_task's reset or the core's set_features.  Operations  *)
(* that hold rtnl lose none, whatever phylib does meanwhile.               *)
TwoResets == (mac_version >= 61 /\ "overlap" \in faults) \/ "resume" \in faults
Exposed(reg) ==
    \/ reg \in EriRegs /\ faults # {}
    \/ TwoResets /\ reg \notin Guarded
NoLostUpdate ==
    \A t \in Threads :
        /\ At(t, "wr") \/ (At(t, "eridr") /\ Now(t).clear # Bits)
             => tmp[t] = mem[Now(t).reg] \/ Exposed(Now(t).reg)
        /\ At(t, "eri_write") => tmp[t] = eridr \/ Exposed(Now(t).reg)

(* The chip wakes the system on what was last asked of it (what get_wol    *)
(* reports while the device is up): in each register of the version, but   *)
(* for the exposed ones.                                                   *)
Has(reg, bit)  == bit \in mem[reg]
Wants(o)       == wol \cap o # {}
Shows(reg, bit, o) == Exposed(reg) \/ (Has(reg, bit) <=> Wants(o))
WolAsAsked ==
    Rest =>
        /\ power # "runtime" => wol = saved_wolopts
        /\ Shows("Config3", "LinkUp", {"PHY"})
        /\ Shows("Config5", "UWF", {"UCAST"}) /\ Shows("Config5", "BWF", {"BCAST"})
        /\ Shows("Config5", "MWF", {"MCAST"}) /\ Shows("Config5", "LanWake", WolOpts)
        /\ CASE rtl_is_8125(mac_version)       -> Shows("ocp_c0b6", "b0", {"MAGIC"})
             [] rtl_is_8168evl_up(mac_version) -> Shows("eri_dc", "MagicPacket_v2", {"MAGIC"})
             [] OTHER                          -> Shows("Config3", "MagicPacket", {"MAGIC"})
        /\ PmeConfig1(mac_version) => Shows("Config1", "PMEnable", WolOpts)
        /\ PmeConfig2(mac_version) => Shows("Config2", "PME_SIGNAL", WolOpts)

(* ASPM and the clock request are off while the PHY of the PCIe link is    *)
(* accessed ("disable aspm and clock request before ephy access"), but for *)
(* the power-down of 32 and 33 and for two resets at once: on an RTL8125   *)
(* in the link handler, on every chip in rtl_task beside a resume.         *)
EphyWithoutAspm ==
    \A t \in Threads : At(t, "touch") /\ Now(t).reg = "ephy" =>
        \/ ~Has("Config5", "ASPM_en") /\ ~Has("Config2", "ClkReqEn")
        \/ mac_version \in {32, 33} /\ (power # "up" \/ ~running)
        \/ TwoResets

(* An open device that is up at rest has ASPM as the system allows it,     *)
(* though every reset switches it off and on and others change the same    *)
(* two registers; and its receive filter is what the core asked last.      *)
UpAsAsked ==
    Rest /\ power = "up" /\ running =>
        /\ mac_version >= 32 =>
             /\ Has("Config5", "ASPM_en") <=> board.aspm_manageable /\ mac_version \notin {42, 43}
             /\ Has("Config2", "ClkReqEn") <=> Has("Config5", "ASPM_en")
        /\ mem["RxConfig"] = RxMode \cup RxErrors \/ Exposed("RxConfig")
        /\ mac_version \in (34..38) \cup (40..53) => Has("eri_dc", "filter") \/ Exposed("eri_dc")

(* Every access of the PHY goes to the page it means, and phylib finds the *)
(* standard one, though functions select pages without the bus lock and    *)
(* the firmware may end on another.  It does not, where the firmware runs  *)
(* in a reset beside phylib (52: its base is ocp_base, too), and where     *)
(* nothing after the firmware selects the standard page again.             *)
LeftByFirmware == mac_version < 40 /\ page = "fw"
FwBesidePhylib == mac_version = 52 /\ "overlap" \in faults
PagesAsMeant ==
    \/ FwBesidePhylib
    \/ /\ \A t \in Threads :
             /\ At(t, "phy") /\ Bus(t) => page = Now(t).reg \/ (LeftByFirmware /\ Now(t).reg = "0")
             /\ At(t, "fw_data") => page = fwpage
       /\ Rest => page = "0" \/ (LeftByFirmware /\ mac_version \in {25, 26, 29, 30, 35, 36})

(* A device put down that shall wake the system can receive, though the    *)
(* teardown has just closed the receiver, and its PLL keeps running.  But  *)
(* a closed device is put down as it was left: closed while nothing was to *)
(* wake the system, it stays deaf whatever ethtool asks afterwards.        *)
WakesWhenAsked ==
    Rest /\ power # "up" /\ wol # {} /\ ~board.dash =>
        /\ mac_version >= 25 /\ ~deaf => Has("RxConfig", "AcceptOk") \/ Exposed("RxConfig")
        /\ mac_version >= 40 /\ ~deaf => ~Has("MISC", "RXDV_GATED_EN") \/ Exposed("MISC")
        /\ HasD3Pll(mac_version) => Has("PMCH", "D3_NO_PLL_DOWN") \/ Exposed("PMCH")
=============================================================================
