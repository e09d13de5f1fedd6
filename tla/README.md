# A TLA+ model of the r8169 driver

The driver under `drv-r8169/` is a copy of Linux's r8169 network driver, small enough to read and
old enough that most of what is left to go wrong needs several actors: the network stack, the NAPI
poll, the interrupt handler, a work item, phylib, the power management core and the chip itself all
meet in two descriptor rings and a handful of flags. This directory models those meetings in TLA+,
checks them with TLC on small instances, and proves some of the results with TLAPS for instances of
every size. `pci-tools/` is a separate user-space tool that prints PCI configuration space.

`PROJECT.json` is the index: components, runs, mutants, the map from definitions to source lines,
hazards and theorems. Line numbers without a file refer to `drv-r8169/r8169_main.c`.

## 1. Inventory

| Part | State it keeps | Operations | Meets whom, and how | Correct when |
|---|---|---|---|---|
| Transmit path (3880-4030, 4177-4275, 4355-4400) | `cur_tx`, `dirty_tx`, `TxDescArray`, `tx_skb`, the stack's stopped bit and byte queue limits | `start_xmit`, `xmit_frags`, `tx_map`, `rtl_tx`, `tx_clear`, `doorbell` | the stack (queue lock), the poll, the chip (descriptor ownership), resets | no lost, doubled or half-built packet; the queue never overruns and never sleeps for good |
| Interrupts and NAPI (1305-1342, 4503-4533, 4575-4589) | `IntrStatus`, `IntrMask`, NAPI's SCHED / MISSED / DISABLE | handler, poll, `mask_and_ack`, `napi_disable` / `enable` | chip, softirq, resets | no event goes unseen; the teardown is left alone |
| Lifecycle and power management (4535-4573, 4591-4760, 4797-4918) | rings allocated, NAPI enabled, chip started, `wk.flags`, phy started, runtime PM status | `open`, `close`, `up`, `down`, `rtl_task`, link handler, suspend / resume, `shutdown`, `remove` | rtnl lock, work queue, phylib, PM core | each enable has its disable, nothing touches what is freed, nobody waits for ever |
| Firmware loader (`r8169_firmware.c`, 2143-2167, 2420-2443) | the image, its words, the interpreter's index and accumulator, `ocp_base` | request, check, interpret, release | PHY and MAC register accessors | an accepted image is run inside its bounds, and is released once |
| Receive path (3799-3878, 4402-4501) | `cur_rx`, `RxDescArray`, `Rx_databuff` | fill, clear, `rtl_rx` | poll, chip, resets | every descriptor goes back to the chip with its end-of-ring mark; a frame is handed over whole |
| Register windows (671-717, 801-1297) | `cfg9346_usage_count`, Config1 to 5, ERI, MAC OCP, the page of the PHY, three locks | lock / unlock, read-modify-write, two-step windows | ethtool, resets, PM, the link handler without rtnl | no write to locked registers, no lost update but where there is no lock to prevent it |
| Wake-on-LAN, receive filter, jumbo (1390-1473, 2309-2440, 2503-2620) | `saved_wolopts`, RxConfig, Config3 to 5, PMCH, MISC | `set_wol`, `set_rx_mode`, `rtl_jumbo_config`, the wake-up side of `down` | the resets, which change the same registers | the chip does what was asked last, also asleep |
| Chip start tables (2700-3770) | registers chosen by chip version | `hw_start_...` for 44 versions | lifecycle | ASPM is off while the link's PHY is accessed, and on again afterwards |
| PHY configuration (`r8169_phy_config.c`) | the selected page | one function for each family | phylib, the firmware | every access reaches the page it means |
| Transmit offload (1494-1507, 4032-4175, 4277-4335) | `netdev->features`, `opts`, padding | `fix_features`, `features_check`, `tso_csum_v1/v2` | the stack | what is let through the chip can do, and its sizes fit their fields |
| Interrupt coalescing (1731-1906) | IntrMitigate, two bits of CPlusCmd | get / set, choice of scale | ethtool, the speed of the link, restarts | a delay asked for is the one set; what is read back can be set |
| Statistics (1606-1668, 4762-4795) | tally counters, offsets | dump, reset, `get_stats64` | opens, sleeps, readers | what is shown was counted since the first open |
| EEE and features (1529-1552, 1908-1932, 3779-3798) | `eee_adv`, `cp_cmd` and its register | `set_eee`, `set_features`, `change_mtu` | phylib's own restart, power loss | what was asked for is in the chip when it is up |
| Probe and remove (2011-2140, 4901-4918, 5176-5376) | the chip version and what follows from it | the table of versions, default features, largest MTU | everything above | the first row that fits decides |
| DASH management (1138-1275) | none of its own | handshakes with firmware in the chip | open, close, resume | not modelled |
| pci-tools | none across commands | read config space, walk the capability list, print | files | not modelled |

Hard behaviours: the stop / wake handshake of the transmit queue, ownership bits shared with the chip,
teardown against a running poll, handler and transmit call, an ack that comes after the scheduling, locks
taken in opposite orders by work items and PM callbacks, a link handler that resets the chip without the lock everybody else
takes, read-modify-write of shared registers, pages and windows that stay selected, partial failure in `open`, `xmit_frags`
and `rx_fill`, unsigned wrap of ring indices and of the firmware index. `PROJECT.json` lists them line by
line under "hazards", each with the property that covers it or the reason there is none.

## 2. Modules

| Module | What it is |
|---|---|
| `TxRing` | The transmit ring. One action per shared access of `start_xmit` (`Xmit...`), `rtl_tx` (`Reap...`), the chip (`Nic...`), the reset (`Reset...`) and the link-up handler (`LinkUp`). |
| `TxQueue` | What `TxRing` promises: a FIFO of packets that are accepted, sent, released or flushed. |
| `MCTxRing` | Packets as model values and their symmetry. |
| `RxRing` | The receive ring. One action per shared access of `rtl_rx` (`PollBegin` to `ReleaseOwn`), the chip (`Chip...`) and the operations that build, tear down and free the ring. |
| `RxQueue` | What `RxRing` promises: a FIFO of frames handed over once and whole. |
| `IrqNapi`, `MCIrqNapi` | Handler (`Irq...`), poll (`Poll...`), the resetting thread (`Reset`) and the chip's two registers; the devices of the instance. |
| `Lifecycle` | Four threads (a user process, the worker, the PM core, phylib), each with a list of steps still to take; a callback is a sequence of steps (`Open`, `Close`, `Down`, `Up`, `Task`, ...), an error path a different sequence. |
| `Firmware`, `MCFirmware` | Request, checks and interpreter over images whose words are records; the images TLC tries. |
| `ChipVersions` | Which `RTL_GIGA_MAC_VER_..` there are, and the predicates on them. |
| `PhyScripts` | `r8169_phy_config.c` and the firmware's call, each function a sequence of accesses to the pages of the PHY. |
| `ChipScripts` | The functions of `r8169_main.c` that change shared registers, each a sequence of accesses, by chip version. |
| `ChipRegs` | Three threads that run those sequences one access at a time, beside each other. |
| `Coalesce`, `Offload`, `Probe` | Pure operators: the arithmetic of coalescing; what a packet may ask for; the table of versions and what follows from it. |
| `Netdev`, `MCNetdev` | The settings of the network device, from the request to the chip, across restarts and sleeps; boards, requests and packets of the instance. |
| `TxRing_proofs`, `RxRing_proofs`, `IrqNapi_proofs`, `Lifecycle_proofs`, `Firmware_proofs`, `ChipScripts_proofs`, `ChipRegs_proofs`, `Netdev_proofs` | Theorems. |

`TxRing`, `RxRing`, `IrqNapi` and `Lifecycle` look at the same resets from four sides: `Lifecycle` says who may reset when, `IrqNapi` that the
teardown is left alone by handler and poll, and the rings take both for granted (one resetting thread, no poll between `napi_disable` and
`napi_enable`). `Netdev` takes a restart as one or two steps and composes `Coalesce`, `Offload` and `Probe`; `ChipRegs` takes the same
restart apart into its register accesses.

Definitions named `Mut...` are plausible mistakes in the definition after them. Nothing uses them except
the mutation check that shows each property can fail.

### TxRing against the code

`cur_tx`, `dirty_tx`, `desc`, `tx_skb` are the fields of `struct rtl8169_private`; a descriptor keeps the
four bits that matter (`DescOwn`, `FirstFrag`, `LastFrag`, `RingEnd`) and the packet it maps instead of an
address. `tx_skb[].len`, which the code uses for "something is mapped here", is `desc[].buf # NoSkb`: both
are set by `tx_map` and cleared by `unmap_tx_skb`. `xoff` is the queue's stopped bit, `owner` says who may free
a packet, `bql` counts packets (the code counts bytes; each packet is reported with the same length on both
sides). Indices are taken modulo `U32`, which the runs make small so that they wrap.

`xpc`, `rpc`, `spc` are program counters of `start_xmit`, `rtl_tx` and the reset, `xm` and `rp` their locals.
`start_xmit` is serialised by the queue lock and `rtl_tx` by NAPI, so there is one of each.
`netif_subqueue_maybe_stop` and `netif_subqueue_completed_wake` are macros of the kernel, modelled by what
they do: stop, barrier, look again; report, then wake if there is room. With `SplitWake` the wake's two reads are
separate steps. A reset of kind "task" is `rtl_task`'s, with traffic flowing; "reopen" is `close` and `open`, where the
stack detaches the queue first and waits for the transmit call.

### RxRing against the code

`cur_rx`, `desc`, `databuff` are the fields of `struct rtl8169_private` (`databuff[i]`: is there a mapped page?). A descriptor keeps
`DescOwn`, `RingEnd`, the status half of `opts1` and the tag in `opts2`; status, tag and page each hold the frame they come from, so
that a delivery made of two frames shows (`handed`, `OneFrame`). `rtl8169_mark_to_asic` is two stores: one step where nobody looks
(`MarkToAsic`), two where the chip runs (`ReleaseTag`, `ReleaseOwn`). Frames are `Good`, `Damaged` (CRC error or runt: delivered when
RXALL is on) or `Broken` (a fragment or the watchdog bit: never delivered); lengths, counters and checksum bits are left out.

`dev` is where the one thread that opens, resets, stops or closes the device is (rtnl keeps it one; what happens without rtnl
is `Lifecycle`'s), `goal` what follows `rtl8169_cleanup`. `rtl8169_down` takes bus mastering from the chip before it disables NAPI.
`napi_disable` is `NapiDisable` (no new poll) and `Drained` (the running one has ended). A poll may begin whenever NAPI is enabled and
the chip runs, as if an interrupt had come; `BusyPoll` lets a socket poll when the chip does not run, too.

### IrqNapi against the code

`status` and `mask` are IntrStatus and IntrMask restricted to the bits of `irq_mask`; `SetIntr` sends a message
on a rising line when the device uses MSI. `work` remembers what the chip has done and the driver has not looked
at; the chip sets the bit and the work together, the poll removes the work. `synchronize_net` is `Sync` and
`Synced`: it waits for the readers that run when it is called. `napi_disable`, `napi_schedule_prep` and
`napi_complete_done` are modelled from the kernel's use of SCHED, MISSED and DISABLE. `netif_stop_queue` at 4521 belongs to
the transmit path and is left out here: the reset that follows stops and wakes the queue itself.
A device (`Setups`) has its `irq_mask`, uses messages or a line, and may share the line. "over" stands for RxFIFOOver on chip version 11, the only one whose handler looks at it; "sys" for
SYSErr of versions up to 06. No chip has both, and both kinds use a line rather than messages (`rtl_alloc_irq`).
`stuck` remembers that the handler of a device with messages acked some of what was up and left the line up; see "Assumptions".

### Lifecycle against the code

A thread's `todo` is the sequence of steps it still has to take. Steps that take a lock or wait are enabled only when
they can go on; `Waits` says what each waits for. `ResetWork`, `Down`, `Up` are the bodies of `rtl_reset_work`,
`rtl8169_down`, `rtl8169_up` with the steps that change shared state; counters, PCI mastering and register writes
are left out. `open` includes what `__dev_open` does around it (rtnl, resuming the parent, IFF_UP); the three
failing steps `alloc`, `request_irq`, `phy_connect` stand for the five of the code (the two
DMA allocations and the ring fill unwind together). `rtl8169_suspend` and `resume` run with user space frozen, the phy and
the worker not. Before `Shutdown` and `Remove` the core has the device resumed and keeps it so (`get`); `unregister_netdev` closes an open device.
After a removal the driver's memory is freed: `RingWhileUsed` demands that nothing of it is queued or running then.

### Firmware against the code

An image has its size, its header's fields and its words from where code starts. The header's magic being
non-zero means there is no header. `WrapT` is `size_t` arithmetic. The interpreter takes one step per word; a
read returns any value of `PhyVals`, except of the page register, which `r8168g_mdio_read` answers itself.
Messages, version strings and the delay are left out. `r8169_apply_firmware`'s wait for the PHY changes nothing
that is modelled.

### ChipRegs, ChipScripts and PhyScripts against the code

A register holds a set of named bits, those that two functions change or that a property needs. A function of the source is a sequence of accesses
(`rd` / `wr` for a read-modify-write, `put` for a store, `eri_...` and `ocp_...` for the steps of the two windows, `acquire` / `release` for a spin lock, `unlock` / `lock` for
Cfg9346, `page`, `phy`, `save`, `restore` for the PHY). Accesses to registers that only one function touches are left out, unless the property is about the access
itself (`touch`: the PHY of the PCIe link, which must not be accessed with ASPM on). Calls in a row that differ in their data only are one access. So a `hw_start_...` of forty lines
becomes the five accesses that meet anybody else's; the values written to PHY and ephy are in no document of the repository, and nothing could be checked about them.

`ChipRegs` has three threads. "main" runs one operation at a time: whatever holds rtnl, or the PM core with the device detached. A resume takes no rtnl (4805-4818), so "task" runs what may meet it there:
`rtl_task`'s reset, once `rtl8169_up` has set `TASK_ENABLED` (4656; `TaskEnabled`), or the network core's `set_features` and `set_rx_mode` (`Beside`). The accesses of `set_features` beside a resume are steps of their own; what it did before the resume began is taken as done.
`set_rx_mode` of a device that is not attached again does nothing but change the flags. "phy" is phylib's work, which runs the link handler, a write
of BMCR (which on 40 goes through ERI, 945) or a paged access beside either, without rtnl. On an RTL8125 the link-down handler is a whole `rtl_reset_work`.
A first resume puts the registers into a state the driver has made. `pc` counts accesses, `tmp` and `arg` are what a thread has read, `wol` is what was last asked of the chip (suspend asks for PHY by itself),
`running` whether the interface is open: a closed one is not brought down or up by suspend, resume and power-off (4801, 4812), which then change only what wakes the system.
`deaf` remembers that the receiver was shut by the last teardown and not opened since. `faults` remembers that threads overlapped, that "task" overlapped a resume, or that an ERI read timed out (it then returns ~0, 834).

### Netdev, Offload, Coalesce and Probe against the code

`netdev`, `rtl_p`, `chip`, `phy` group what the network core, the driver, the chip and the PHY know. `task` is the gap in `__netdev_update_features` between
`ndo_set_features` and the assignment of `netdev->features`; `link` is the gap in which phylib is inside `rtl_reset_work` on an RTL8125, `resume` that in which a resume of any chip is (the registers are written from
the copy first, RxConfig follows). Neither takes rtnl: `task.was` is the copy of CPlusCmd from before the `set_features` under way, which they may have read instead of the new one (`CpReads`, a data race). `change_mtu` writes the MTU, lets the core take features away, and sets the txidle timer last. A sleep may cost the chip its power (`Cold`). `set_eee` is of an open device only: on a closed one `netdev->phydev` is NULL and 1929 dereferences it.
`past` holds what the properties compare and no code does. A packet may be of any size that fitted some MTU since the open (`past.mtu`, the largest): a queue keeps packets over a change of the MTU; features are looked up when it is dequeued. In the tally one counter stands for all; it is `TallyMod` wide.

A setup (`Setups`) is a board, the kinds of request made of it and how many: requests that act on one another are combined, others are not.

`Offload` has a packet as a record of what the decisions look at. `Coalesce` is the arithmetic of `rtl_get_coalesce` and `rtl_set_coalesce` in nanoseconds, with the four-bit
fields cut as `FIELD_PREP` cuts them. `Probe` is `mac_info` row by row; a mask is named and `Masked` says what it does to an XID.

## 3. Runs

`CHECK_DEADLOCK FALSE` is said in the runs of `TxRing`, `IrqNapi`, `Lifecycle` and `Firmware`: each bounds its workload (packets wait in
the stack, events, operations, resets run out) and rests when the bound is used up; that nobody waits for
ever is stated where it matters by properties (`NoOtherDeadlock`, `ResetEnds`, `StoppedQueueWakes`). `RxRing`, `ChipRegs` (whose `Done` says that rest is meant) and
`Netdev` are checked for deadlock. The longest runs, `tx_woken` (3.1 million distinct states), `regs`, `irq` and `tx_live`, take one and a half to three minutes.

| Run | Question | Bounds and why they suffice |
|---|---|---|
| `tx_flow` | Is the ring sound under traffic with fragments, mapping failures and one close / reopen? | 5 slots, packets of up to 2 descriptors, 3 packets reused for ever, indices modulo 10: the ring fills, wraps, stops and wakes; 5 is not a multiple of 2, so packets straddle the end. |
| `tx_woken` | When does the queue run without room, and is what the chip owns left alone, when the wake's reads are split, a link-up wakes the queue whatever is in the ring, and a reset comes under traffic? | 4 slots, packets of 1 or 2 descriptors, 3 packets, failing mappings, one link-up or one reset of either kind (`OneEvent`; the theorems allow any number of both): the queue is woken with none, one and more slots free, and packets with and without fragments follow. States after the ring is spoiled are not explored (`Sound`). |
| `tx_live` | Does a stopped queue wake, is every packet freed, does the ring implement `TxQueue`, across a close and reopen? | 4 slots, 2 packets, bursts, one reopen. |
| `tx_linkup` | Can `start_xmit` reach "BUG! Tx Ring full when queue awake!" (4214)? | One link-up. TLC finds it. |
| `tx_pad` | Does a padded packet have a first and a last descriptor? | 4 slots, `Padding = TRUE`. TLC finds that it may not. |
| `irq` | Is any event lost between read, late ack, completion and unmask, and is the teardown left alone and does it end, on lines and with messages? | Three devices (`DefSetups`): MSI, a shared line with PCI errors, a shared line with fifo overflows. 3 events on a line, 5 with messages (it takes five to leave a line stuck), one foreign interrupt, one poll that uses up its budget, one reset besides those the events schedule. |
| `rx_flow` | Does the receive ring implement `RxQueue` with its liveness, under drops, RXALL changes and resets, and does every teardown get past `napi_disable`? | 2 slots, indices modulo 4, budget 2, two faultless, one damaged and one unusable frame that come again and again, 2 resets or changes: the ring fills, wraps and is reset at every point of a poll. |
| `rx_life` | Is the ring closed, agreed on with the chip and without leaks through opens that fail, suspends, resumes, resets, closes and busy polls, and is a frame handed over whole? | 3 slots (a first, a middle and a last one), 4 frames, 2 operations: suspend and resume, then reset or close. |
| `life_all` | All callbacks of an RTL8125 in any interleaving, with failures, shutdown and removal. | 3 opens / closes, 2 scheduled resets, 2 link changes, 2 sleeps: open - sleep - wake - close - open with a reset anywhere, and an end anywhere. |
| `firmware` | Do the checks guard the interpreter? | All 8000 three-word programs over 20 words that use every opcode, bare images of sizes 0, 3, 4, 6, headed ones at and past each limit; 4 reads per run (a backward jump repeats them). |
| `regs` | On which registers do threads lose updates or write while locked; do Wake-on-LAN, ASPM, the receive filter and the PHY's page end as meant, with the interface open or closed? | 37 versions with all boards: of the 44, six pairs have the same accesses (2 and 3, 20 and 21, 23 and 24, 32 and 33, 42 and 43, 46 and 48), and 38 starts as 35 does and has the link handler of 34, but for the accesses at its end; the theorems are about all. 2 operations after the first resume, so each operation follows each other, 3 on one version (44: close, `set_wol`, suspend), with one call from phylib or one ERI timeout anywhere in them. Versions whose link handler touches what main does (34-37, 40, 61, 63) get 1 operation: two threads show every pair of functions. On a version of the early and one of the late kind (7, 39: `Overlapped`), the disturbance may be `rtl_task` or the network core beside a resume. ethtool asks for nothing or for everything but PHY, which runtime suspend asks for alone. 0.9 million distinct states. |
| `settings` | Does what was asked reach the chip, in its units, and does no packet ask for what the chip cannot do; are the statistics exact? | A board of every family; up to 4 requests of kinds that act on one another, with resumes and phylib's restart in the middle of them; MTUs, delays, frames, packet lengths and offsets on both sides of each limit in the code. Requests that share no state are not combined. 120,000 distinct states. |

What the two violating runs show. In `tx_linkup` two packets of two descriptors fill the ring of four, and the queue is stopped with no free slot;
the carrier-on branch of `r8169_phylink_handler` (4599) wakes it regardless, and the very next packet finds no slot: `start_xmit` logs a BUG, stops the queue and returns NETDEV_TX_BUSY.
That is the mild outcome. When the queue was stopped with a slot free, but fewer than the next packet has descriptors, the test at 4212, which is for zero only, lets the packet begin: it
rewrites descriptors the chip owns, `cur_tx` passes `dirty_tx` by more than the ring, and `rtl_tx_slots_avail`, taken modulo 2^32, is a huge number from then on, so that the queue is not stopped any more.
A wake on a stale count (4386) or on a ring refilled during a reset (4569) leads there as well. `tx_woken` has all of these steps: `woken` marks a queue that was woken without the room it was stopped for, `spoiled` the packet that begins
without room (or a ring cleared under `start_xmit`). Without these exceptions TLC finds `AwakeHasRoom` and `OwnedIsLeftAlone` violated; with them it shows that there is no other way.
In `tx_pad` a short packet with a fragment is padded on 34, 61 or 63; `__skb_put_padto` makes it linear, but `start_xmit` goes on with the fragment count it
read before (4205): `LastFrag`, the skb and `cur_tx` go to a slot that belongs to no packet. All other runs of `TxRing` have `Padding = FALSE`: chips and packets that need none.

`rtl_task` stops the queue (3958), then waits for the poll, which may wake the queue again (4386); `synchronize_net` waits only
for the transmit calls that run at that moment, and the comment at 3921 counts on no others. With "task" in `ResetKinds` TLC shows a new `start_xmit` fill descriptors
while `tx_clear` and `init_ring_indexes` run; that too is `spoiled`. `tx_flow` and `tx_live` close and reopen instead, where the core has detached the device first.

Fairness. `TxRing`: the CPU in `start_xmit`, the poll, the chip and the resetting thread go on; the stack keeps a
promise of another packet (`burst`), which is what `xmit_more` means; a poll comes again (that is what `IrqNapi` is
about). `RxRing`: a poll that began goes on, a poll begins when a frame is there, the thread that works on the device goes on;
nothing of the chip. `IrqNapi`: interrupts are delivered, handlers, softirqs and scheduled work run, the resetting thread goes on; nothing is assumed of the chip, of other
devices, or of resets nobody asked for. `Firmware`: the interpreter's loop goes on. All of it is weak fairness. `Lifecycle`, `ChipRegs` and `Netdev`
are checked for safety only: the deadlock property of `Lifecycle` is a state predicate.

Assumptions and exceptions worth knowing. Where a property has an exception, TLC finds it violated without.

* `SlowHandler = FALSE` (`IrqNapi`): a poll, the phy's MDIO reads and the long steps of a reset do not fit inside
  one run of the handler. It holds for MSI (IRQF_NO_THREAD, the poll is a softirq on the handler's CPU); with a threaded handler or one
  delayed by another CPU it does not, and then `NoSilentWork` and `NoSilentLink` fail: the late ack swallows an event. `TeardownUndisturbed` does not need it.
* `stuck` (`IrqNapi`): a message sent before a reset acked everything still runs a handler after it; the poll it schedules is under way when `rtl_hw_start` unmasks, so the
  next message finds NAPI scheduled, and the handler acks only what it read. With two events the line stays up, and a chip that sends a message on a rising line sends no more until everything is acked.
  It takes a reset; without one TLC finds no such state. `missedlink`: a teardown acks a link change without telling the phy (1340).
* `SplitWake = FALSE`, `MaxLinkUps = 0` and no reset under traffic in `tx_flow` and `tx_live`. `tx_woken` has all three; its properties except a queue woken without room (`woken`) and a spoiled ring (`spoiled`).
* `MapMayFail = FALSE` where liveness is claimed: a packet that was promised and then fails to map is dropped
  without the doorbell its predecessors rely on (4267).
* `BusyPoll = FALSE` in `rx_flow`. `rtl8169_up` enables NAPI (4655) before `rtl_reset_work` marks the ring. After a resume the ring
  still has what the chip wrote before the suspend, and `cur_rx` is 0; with `BusyPoll = TRUE` TLC shows a poll in this window deliver
  such frames. `rx_life` has `BusyPoll = TRUE` and shows that nothing worse happens.
* `ResetsExclusive` has two exceptions: on an RTL8125 the link-down handler resets the rings
  without rtnl (4603), and a resume brings the device up without it (4813).
* `NoOtherDeadlock` says what the code's waiting can come to. Two circles are real and named: `close` cancels the work
  item while it holds rtnl, which the item takes first (4673, 4541); `open` or `close` waits under rtnl for a runtime suspend
  that waits for rtnl (4667, 4856). The property shows there is no third.
* `Exposed` (`ChipRegs`) names where updates of registers without a lock are lost: ERI registers beside phylib (its link handler on 34 to 38, BMCR on 40) or after a timed-out read; and
  everything but Config2, Config5 and MAC OCP after two resets at once (`TwoResets`): on an RTL8125 when its link handler resets the chip without rtnl, and on every chip when `rtl_task` or `set_features` overlaps a resume.
* `EphyWithoutAspm` excepts the power-down of 32 and 33, and two resets at once. `PagesAsMeant` excepts 8117 (52), whose every reset runs the firmware, also beside phylib, through the base page phylib uses
  (`FwBesidePhylib`), and the chips before 8168G, on which the firmware's last page stays until the next select (`LeftByFirmware`).
* `WakesWhenAsked` excepts a device that was closed while nothing was to wake the system (`deaf`). Closing shuts its receiver; a suspend or power-off of a closed device does not call `rtl8169_down` (4801), nor does `set_wol` open the receiver,
  so Wake-on-LAN asked for after the close cannot work. This is a bug by the purpose of `rtl_wol_enable_rx`, but no text of the repository promises otherwise.
* `SettingsReachChip` excepts a restart by phylib or by a resume that overlapped a change of features (`raced`), until the next restart; and on the RTL8169, where `hw_start` changes the copy of CPlusCmd with `|=` (3732), a copy that such a restart read
  before `set_features` and wrote after it (`torn`), until the features change again.
* `RequestsFit` says nothing of the sizes of a packet sent while the MTU is being changed (`early`: the window between the new MTU and the new features), nor of one queued before the MTU was lowered (`late`): it is let through with the features the lower MTU allows again, and neither
  `features_check` nor `start_xmit` looks at its size, so that a segment size above `TD_MSS_MAX` can reach the descriptor.
* `CoalesceAsAsked` names one refusal: 153 us are set, read back as 154, and refused with -ERANGE. `asked` is forgotten at every restart, for `rtl_hw_start` switches coalescing off and nothing sets it again.
* `StatsExact` excepts a tally that wrapped, lost its power or did not answer at the first open (`lost`). Readers of the statistics take no lock (4778); one beside the first open's reset of the tally (1658) is taken to come before or after it.

Facts the models made plain that no run is about. The comment at 5292 says of the RTL8110SCd "Pretend we are using VLANs", yet the first `set_features`, whose default features
lack `rxvlan`, clears RxVlan again, so the bit never gets to the chip (`DefaultFeatures`, `CpBits`). On 34, 61 and 63 `rtl_quirk_packet_padto` is never zero, so a checksum is never left to the chip but for segmented
packets. The txidle timer of an RTL8125A is set by `change_mtu` only, that of an RTL8125B by `rtl_hw_start` too. `set_eee` of a closed interface crashes (1929), and so no model has it. `rtl_jumbo_config` takes pause out of the advertisement for a large MTU and never puts it back.

## 4. Proofs

Each theorem holds for every value of the constants that satisfies the module's named assumption, which TLC evaluates in the runs.

`TxRing_proofs`, for every `NumTxDesc`, `MaxSkbFrags`, `U32` and `Skbs`:

* `TypeCorrect`: `Spec => []TypeOK`. `TypeOK` is inductive by itself; the work is that u32 arithmetic (`Wrap`) stays in range and that every slot computed is one.
* `RoomWhenAwake` and `NeverFull`: an awake queue has room for a packet of the largest size, and the BUG branch is not reached, unless somebody woke the queue without that room (`woken`) or the ring is
  spoiled. Nothing is assumed of the constants: link-ups, the split wake, resets under traffic, padding and failing mappings are among the steps. `AwakeHasRoom` is not
  inductive: it says nothing while `start_xmit` runs. The inductive invariant `IInv` follows the ring up to the step that spoils it: it adds how many slots are used at each of
  `start_xmit`'s steps, that there is room for the packet being built however the queue came to be awake (`Room`), that what the reaper has walked lies between `dirty_tx` and `cur_tx` (`InRing`), and what each step of a teardown has
  established (`TornDown`). `RoomNext` preserves it unless the step spoils the ring; `SpoiledStays` says the mark stays.
* `OwnedKept` (`OwnedIsLeftAlone`): no step rewrites or unmaps a descriptor the running chip owns, up to the step that spoils the ring, again for all values of the constants. A packet whose mapping fails takes its own fragments back
  (`Unfinished`: `rtl8169_tx_clear_range` unmaps fragments that already carry DescOwn). Slots are numbered from that of `cur_tx` (`Off`); `OffShifts`,
  `LiveGrows` and `LiveShrinks` say how the steps move the numbers, past the end of the ring and past 2^32 (`WrapMod`: the ring divides 2^32). On top of `IInv`, `OInv` says
  that all the chip owns lies among the slots not yet released or those the packet being built has filled (`OwnedInside`), so that the next slot to map is never the chip's (`NextIsFree`).
* `HeldExactlyOnce` (`SkbHeldOnce`) and `BqlNeverOverdrawn` (`BqlBalanced`), up to the step that spoils the ring, assuming `Whole` (no packet with fragments is padded; `tx_pad` shows what padding does).
  `SkbHeldOnce` says nothing of where packets are; `HInv` adds that a held packet is in a mapped slot not yet released, or in the last slot of the packet just built (`HeldInside`), that the packet
  being built is nowhere else yet (`HeldOnce`), and that the teardown has emptied the ring before it resets the indices (`Emptied`). `BInv` then counts: the byte queue limits hold the packets in the ring and those `rtl_tx` has
  reaped since it last published (`Balanced`).
* `ChipMeetsWhole` (`ChipSeesWholePackets`), assuming `Still` (`Whole` and `Calm`: no link-up, the wake helper atomic, resets by close and open only; `CalmNext`: nothing spoils the ring then); mapping failures are included. The property looks at whole packets, which no single step builds. `SInv` numbers the slots so that a packet counts as
  handed over from the step that gives away its head (`Pos`), and says what the packet being built looks like until then (`Region`: its head is not the chip's, its fragments are, none is a first one), where the chip stands (`Chip`: at the
  oldest descriptor given and not sent, or where the next packet will begin) and how one descriptor follows another (`Links`: one that does not end its packet is followed by the rest of it, one that does never by the middle of a packet).
  `Links` is what keeps the chip out of fragments given before their head, and `RingEnds` what takes it round the ring.
* `RingIsQueue`: `Spec => Abstract!Safety`, the safety part of `ImplementsTxQueue`, also assuming `Still`. The mapping numbers the positions handed over from `dirty_tx` (`Handed`, `At`); those whose slot holds a packet are
  the ends of the packets (`Ends`), and the nth packet pending is at the end with n - 1 ends before it (`Nth`). Ranks need no induction (`NthNumbers`): adding a last end (`NthGrown`) gives Append, taking away the first (`NthShrunk`) Tail, and renumbering all of them (`NthShifted`) changes nothing. On top of `SInv`,
  each step is shown to be one of the queue's: giving away the head of a packet (`XmitOwn`) is an Accept, a descriptor sent (`NicSend`) a Transmit if it is an end and nothing otherwise, a slot reaped (`ReapOne`) a Release or nothing,
  the teardown (`ResetTxClear`) a Flush, and all others, the moves of `cur_tx` and `dirty_tx` included, leave the queue alone.

`RxRing_proofs`, for every ring size, budget and set of frames:

* `RxTypeCorrect`: `Spec => []TypeOK`. Here `TypeOK` is not inductive: the chip's position stays in the ring only because the last
  descriptor carries `RingEnd`, and the poll's count within the budget only because it is tested before each frame.
* `RingStaysClosed` and `EveryPageFreed`. The invariant (`IInv`) says what each stage of an operation has built (`Empty`, `Filling`,
  `Built`), where poll and chip are stopped (`Quiet`, `ChipOff`), and that a release remembers the bit of the descriptor it gives back
  (`Remembers`). `MarkKeepsEnd` and `ClearFreesAll` are the lemmas about `rtl8169_mark_to_asic` and `rtl8169_rx_clear`.
* `FramesKeptApart`: what is handed over is of one frame. On top of `IInv`, `FInv` says that a descriptor the driver owns has status, tag and page of one frame (`Intact`), that the poll's copy agrees with
  the descriptor it is at until it gives that back (`Reading`), and that the chip writes only into a descriptor it owns, and not while it is off (`Writing`). The two stores of a release in the wrong order, or a tag read after it, break `Reading`.
* `ChipAndHostAgree` (`Agreed`). Slots are numbered from `cur_rx` (`Off`); `Shared(n)` says that the first `n` are the host's and the chip is at the oldest of its own. A frame makes `n` one more, a release one less while every number shifts (`cur_rx` moves past
  the end of the ring). `Agreed` says nothing of a stopped chip, so `Fresh` adds what a reset has prepared when it starts again: `cur_rx` back at 0 and all it has marked the chip's.
* `ImplementsRxQueue`: `Spec => Queue!Safety`, assuming `~BusyPoll` (a socket that polls a stopped chip delivers what a suspend left behind, which the queue has flushed). By `Agreed` the frames that wait are the first `n` slots, less the one `rtl_rx` is done with
  (`WaitingShown`), so that a write-back appends one, a delivery or discard takes the head, stopping the chip flushes, and every other step stutters. `QInv` adds that the frame in DMA is in no descriptor yet and that `rtl_rx` copies no broken frame.

`IrqNapi_proofs`, for every set of devices and any number of events, resets and foreign interrupts:

* `InductiveInvariant` and `TeardownLeftAlone` (`TeardownUndisturbed`). SCHED belongs to one at a time: the handler that set it, the poll list, the poll, or the thread that disabled NAPI
  (`OneOwner`). That alone does not keep a poll out: having given SCHED back it still has to unmask. `Waited` adds the grace period: such a poll is among those `synchronize_net` waits for, and none is left from the masking on.
* `NoWorkSilent` (`NoSilentWork`) and `NoLinkSilent` (`NoSilentLink`), assuming `SlowHandler = FALSE`. Quiescence says nothing of the steps before it, so `LInv` says at every step where an unseen event is: in the status, or ahead of a poll or reset still to come
  (`Looked`, `Coming`); that a handler about to ack has somebody coming (`Acked`); and that whoever masked will unmask, and a line that is up has its message (`Unmasks`).

`Lifecycle_proofs`, for every bound on opens, tasks, link changes and sleeps, for an RTL8125 or not, with failing calls or without:

* `NapiIsEnabledOnce` (`NapiEnabledOnce`), `RingsOutliveTheirUse` (`RingWhileUsed`), `RestsUpOrDown` (`UpOrDown`), `ResetsExclude` (`ResetsExclusive`) and `OnlyTwoCircles` (`NoOtherDeadlock`), all from one inductive invariant, `IInv` (`InvHolds`), which TLC
  found inductive before it was proved (it holds in every state of `life_all` and after each step from any of a sample of states that satisfy it, reachable or not).
  What a thread has left to do is not any sequence: it is what is left of a routine it is inside (`rtl8169_up`, `rtl8169_down`, a reset; `Routine`) followed by what is left of the place that called it (`Place`).
  So a position is a pair of names, and the lemmas on `Goes` say which step leads from which to which. `IInv` says that every thread is at a position, and relates the positions to the state part by part:
  `Shape` which routine runs at which place; `Lock` that rtnl is held by whoever is at a locked place, which keeps user, worker and suspend apart; `Power` the status and the references that each place of the user's thread and of power management stands for, which keeps a suspend
  out of an open or close that holds a reference; `Netdev` what is allocated, installed and connected while open and close are half way, failed opens included; `Device` that outside the routines the device is wholly down or wholly up, and between what inside them;
  `Napi` that NAPI is on unless exactly one thread has turned it off and not on again (`Holds`), and the chip unless somebody is about to start it; `Others` that the work item and the link handler are there only while the device allows them.
  The step that matters most is the end of a teardown: `cancel_work_sync` and `phy_disconnect` are what makes `Others` true again before the rings go.
* `OnlyTwoCircles` needs more than a state of each thread: who has disabled NAPI never waits, so nobody waits in `napi_disable` once all wait; then the link handler is idle and nobody waits in `phy_stop`; what is left is rtnl, a resume or suspend under way and `cancel_work_sync`, and `Lock` and `Power` say who is on the other side of each.
* What `ResetsExclusive` excepts is no weakness of the proof: the link handler of an RTL8125 and the resumes do reset without rtnl.

`ChipRegs_proofs` and `ChipScripts_proofs`, for every set of versions and Wake-on-LAN choices, any number of operations, calls from phylib and overlapped resumes:

* `ConfigOpenOnWrite` (`ConfigWritesLand`) and `GuardedNotLost` (`GuardedKept`), from `InductiveInvariant`: `cfg9346_usage_count` is the number of threads between an unlock and its lock (`Counted`), a lock is owned by the thread whose
  script has taken it (`Owned`), and what a thread has read under a lock the register still holds. They rest on `ScriptAssumption`: in every script locks come in pairs and what a lock guards is written under it right after it
  was read. It is a closed fact about the definitions of `ChipScripts`, which TLC evaluates for all 44 versions, those the run leaves out included.
* `NoUpdateLost` (`NoLostUpdate`), `WolIsAsAsked` (`WolAsAsked`), `EphyUntouchedByAspm` (`EphyWithoutAspm`), `UpIsAsAsked` (`UpAsAsked`) and `CanWake` (`WakesWhenAsked`), from `RegistersWhole`. At rest these properties say what the registers hold;
  in between, an invariant has to say what the threads will still make of them. `ChipScripts_proofs` shows that, from the definitions of the scripts and nothing else: a read stands right before the write that uses it (`Fresh`); a script leaves a bit that is asked for alone or,
  with its last write of it, as it shall be (`Calm`; `Asked` and `Shall` say which bits and what they shall be in a given state of the device); a resume or a reset makes them so whatever they were (`Remakes`, `Renewed`); and from 32 on ASPM is
  switched off before an access of the link's PHY (`Sheltered`). The lemmas go up from one access (`RMWChanges`, `EriModifyChanges`) over composition (`EndsJoin`, `CalmJoins`, `ShelteredJoins`) and each function of the driver to `ResetIs`, `ResumeIs`, `DownIs`, `SetWolIs` and `LinkIs`; where a function depends on the version, each of the
  44 is a case. `Whole` then says that a bit no thread is about to write is as it shall be (`Settled`), that what a script has switched off is off until it switches it on (`StaysOff`), and that what was read or fetched is still so (`Held`, `ArgOk`). An access keeps it by its place in
  its script; the start of a script keeps it because it leaves as it shall be every bit for which that has just changed (`Renews`). The exceptions of the properties (`Exposed`, the power-down of 32 and 33, two resets at once, `deaf`) are those the argument needs: `Whole` counts on a register without a lock only until it is exposed, and on those with one throughout, overlapped resumes included.
* `PagesAreMeant`: `PagesAsMeant` until a resume is overlapped; from there the notes below have a second writer, and TLC alone checks the property. Which page the PHY is on at an access depends on every select before it, so each script gets notes, one before each access: the pages the PHY may be on and phylib may have saved, whether the script has the bus lock, and whether
  phylib is stopped, works beside it or is not heeded (52). `ChipScripts_proofs` shows, function by function, that such notes exist (`Walk`): each follows from the one before it (`Turns`), and a script that shares the PHY without the lock counts on nothing but the page at rest (`Sound`). The lemmas
  say that a script leaves any page (`Steady`), the page at rest (`Homely`) or, while phylib is stopped, the firmware's page or the standard one (`Rests`, `Reaches`, `ConfigLeaves`), and end with `DownFalls`, `UpRises` and `LinkWalks`. `Charted` then says that the notes of the thread that may touch the PHY
  (phylib while it owns the bus, else main) tell the page, that the lock's owner is the one whose notes have it, and that phylib runs only while main's notes reckon with it. Giving the bus back is sound because what phylib leaves there is what main counts on.

`Firmware_proofs`, for every file (`FirmwareAssumption` only says what a file is):

* `ReadsInside`: the interpreter stays inside the words and the words inside the file.
* `JumpsInside`: every jump lands on a word. The invariant is that the loaded words passed the two checks and that the index
  is at most their number.
* `HeldOnceLoaded` (`HeldWhileLoaded`): a refused image is released by the request that took it, an accepted one once.

`Netdev_proofs`, for every board the driver knows, every width of the counter and every sequence of requests:

* `StatisticsExact` (`StatsExact`). The invariant adds that the tally is the offset plus what was counted, and the last dump the offset plus what was counted then (`Exact`): without it nothing is known of the next dump.
  Before the first open nothing has been counted, which is where an offset taken twice, or a reset without one, would break it.
* `AsksWhatFits` (`RequestsFit`), for every MTU, set of features and packet the stack may hand over (`PacketType`), those queued under another MTU included; the sizes of the latter are what the property does not promise. `FInv` adds that, but in the middle of a change of the MTU,
  the features the core has assigned, and those it is about to, fit the MTU (`Fitted`); the rest is that `features_check` and the two versions of `tso_csum` take away or work around what is left (`PadTo`, `TransmitFits`).
* `ChipHasSettings` (`SettingsReachChip`). The chip follows the features the core is about to assign, if it is, and those assigned otherwise (`Current`). `PInv` relates them to the copy of CPlusCmd at every step (`Copied`, until it is torn), and the chip to both while it is open and has its power (`On`: awake, or inside a resume; `Received`,
  `Timed`, `Advertised`): what was asked for during a sleep or a restart is in the copies from which the next start writes the chip. `Resumes` says that a resume is of an open device that is not attached yet.
* `CoalescesAsAsked` (`CoalesceAsAsked`), for every delay and count. The scale chosen is the least that reaches the longer delay, so the rounded number fits in 4 bits and is less than a unit too long (`RoundUp`). `MInv` adds that the copy's scale is the chip's unless nothing is
  coalesced, and that the packet counter is not off where frames are limited.

Only model-checked:

* Liveness, and with it the fairness of `TxQueue` and `RxQueue` (TLAPS has no ENABLED and no liveness here).
* `PagesAsMeant` once another thread's reset overlapped a resume.

No module with a theorem uses a RECURSIVE operator;
what `BitOr` and `BitAnd` in `Firmware` compute is not proved (that needs induction over data) and no theorem depends on it.

## 5. Not modelled

* DASH: handshakes with management firmware whose behaviour the code does not show. That a board has it is an input of `ChipScripts`.
* The values written to PHY, ephy, ERI and OCP registers that one function alone touches, EFUSE and the contents of CSI: no document of the repository says what they must be. Polling for the flag of a window is left out but for the ERI read that times out.
* `probe`'s device-managed allocations, the choice of the address and the ASPM decision, which run once and alone (`aspm_manageable` is an input of `ChipScripts`).
* The error of reading the PHY back in `set_eee`, speeds above 1000 in coalescing (the driver refuses coalescing on the chips that have them), jumbo packets' pause advertisement.
* Printing, `get_drvinfo`, ring parameters: nothing changes state. Pause parameters are handed to phylib.
* `pci-tools`: sequential reads and prints without state. Its walk of the capability list uses an offset that was never written when the bound of the walk is hit (`pci-commands.c`:278).

What would be worth adding: the wrap of the narrow tally fields as a property instead of an exception; one composition of `Lifecycle` with `TxRing`'s reset, in which the reset under traffic
is no longer an exception of its own, once the code orders it.
