------------------------------- MODULE TxRing -------------------------------
(***************************************************************************)
(* The transmit path of drv-r8169/r8169_main.c: the descriptor ring shared *)
(* by start_xmit (one CPU at a time, under the queue lock), the NAPI       *)
(* reaper rtl_tx, the chip, and the code that tears the ring down and      *)
(* starts it again (rtl_reset_work from rtl_task, or close followed by     *)
(* open).  One action is one access to what the parties share, in the      *)
(* order of the code.  The chip, the queue helpers of the kernel and the   *)
(* stack above start_xmit are external: they are modelled from their use.  *)
(***************************************************************************)
EXTENDS Integers, FiniteSets, Sequences

CONSTANTS
    NumTxDesc,    \* NUM_TX_DESC
    MaxSkbFrags,  \* MAX_SKB_FRAGS
    U32,          \* the modulus of cur_tx and dirty_tx, 2^32 in the code
    Skbs,         \* the packets; a freed one may be sent again
    NoSkb,        \* the null pointer
    MapMayFail,   \* may dma_map_single fail?
    Padding,      \* may a packet with fragments be so short that it is padded?
    SplitWake,    \* do other CPUs run between the two reads of the wake helper?
    MaxLinkUps,   \* bound on the calls of the link-up handler
    ResetKinds,   \* who resets the ring: "task" (rtl_task), "reopen"
    MaxResets     \* bound on the resets

ASSUME TxRingAssumption ==
    /\ NumTxDesc \in Nat \ {0} /\ MaxSkbFrags \in Nat
    /\ 2 * (MaxSkbFrags + 1) <= NumTxDesc
    /\ U32 \in Nat /\ 2 * NumTxDesc <= U32 /\ U32 % NumTxDesc = 0
    /\ NoSkb \notin Skbs
    /\ MapMayFail \in BOOLEAN /\ Padding \in BOOLEAN /\ SplitWake \in BOOLEAN
    /\ MaxLinkUps \in Nat /\ MaxResets \in Nat
    /\ ResetKinds \subseteq {"task", "reopen"}

VARIABLES
    cur_tx, dirty_tx, \* ring indices: next to fill, next to reap
    desc,    \* TxDescArray: Own, FirstFrag, LastFrag, RingEnd, the mapped packet
    tx_skb,  \* tx_skb[].skb: set at the last descriptor of a packet
    xoff,    \* the queue is stopped (__QUEUE_STATE_DRV_XOFF)
    active,  \* the qdisc is attached: the stack may call start_xmit
    burst,   \* the stack promised another packet (xmit_more)
    owner,   \* who may free a packet
    bql,     \* packets reported sent and not yet reported completed
    xpc, xm, \* start_xmit: where it is, and its locals
    rpc, rp, \* rtl_tx: where it is, and its locals
    spc, sk, resets, \* the reset: where it is, its kind, how many so far
    nic,     \* the chip: on, running, its position, in the middle of a packet
    past     \* history: link-ups so far; woken, spoiled (see below)

qvars   == <<xoff, active, burst>>
xvars   == <<xpc, xm>>
rvars   == <<rpc, rp>>
svars   == <<spc, sk, resets>>
ring    == <<cur_tx, dirty_tx, desc, tx_skb>>
books   == <<owner, bql>>
vars    == <<ring, qvars, books, xvars, rvars, svars, nic, past>>

-----------------------------------------------------------------------------
(* Definitions named Mut... are plausible mistakes in the definition that     *)
(* follows them; nothing uses them but the runs that show a property can fail. *)
MutStopThrs == MaxSkbFrags

StopThrs  == MaxSkbFrags + 1

MutStartThrs == 2 * StopThrs + 1

StartThrs == 2 * StopThrs

Slots   == 0 .. NumTxDesc - 1
Index   == 0 .. U32 - 1
SkbOrNo == Skbs \cup {NoSkb}

MutWrap(x) == x

(* u32 arithmetic, for x within one modulus of the range. *)
Wrap(x) == IF x >= U32 THEN x - U32 ELSE IF x < 0 THEN x + U32 ELSE x

(* rtl_tx_slots_avail *)
Avail == Wrap(dirty_tx + NumTxDesc - cur_tx)

(* How far index b is ahead of index a. *)
Ahead(a, b) == Wrap(b - a)

NoDesc == [own |-> FALSE, first |-> FALSE, last |-> FALSE, eor |-> FALSE, buf |-> NoSkb]
NoXm == [skb |-> NoSkb, frags |-> 0, k |-> 0, entry |-> 0, more |-> FALSE, bell |-> FALSE]
NoRp == [d |-> 0, pkts |-> 0, skb |-> FALSE, seen |-> 0]

Init ==
    /\ cur_tx = 0 /\ dirty_tx = 0
    /\ desc = [i \in Slots |-> NoDesc] /\ tx_skb = [i \in Slots |-> NoSkb]
    /\ xoff = FALSE /\ active = TRUE /\ burst = FALSE
    /\ owner = [s \in Skbs |-> "stack"] /\ bql = 0
    /\ xpc = "idle" /\ xm = NoXm
    /\ rpc = "idle" /\ rp = NoRp
    /\ spc = "idle" /\ sk = "none" /\ resets = 0
    /\ nic = [on |-> TRUE, run |-> FALSE, pos |-> 0, mid |-> FALSE]
    /\ past = [linkUps |-> 0, woken |-> FALSE, spoiled |-> FALSE]

-----------------------------------------------------------------------------
MutTxMapOwn(ds, i, s, own) ==
    [ds EXCEPT ![i] = [own |-> TRUE, first |-> FALSE, last |-> FALSE,
                       eor |-> i = NumTxDesc - 1, buf |-> s]]

(* rtl8169_tx_map, when the mapping succeeds: the whole of opts1 is written. *)
TxMap(ds, i, s, own) ==
    [ds EXCEPT ![i] = [own |-> own, first |-> FALSE, last |-> FALSE,
                       eor |-> i = NumTxDesc - 1, buf |-> s]]

(* rtl8169_doorbell; a chip that is off does not hear it. *)
Doorbell == nic' = [nic EXCEPT !.run = @ \/ nic.on]

(* The slot k places after the first one of the packet being built. *)
Entry(k) == (xm.entry + k) % NumTxDesc

(* History, read by the properties alone.  woken: the queue was stopped with   *)
(* less room than a packet may need, and somebody woke it all the same.        *)
(* spoiled: start_xmit began a packet with more fragments than there are free  *)
(* slots, or a reset threw the ring away under a running start_xmit.           *)
Wakes == [past EXCEPT !.woken = @ \/ (xoff /\ Avail < StopThrs)]
Settled == [past EXCEPT !.woken = FALSE]

(* The slots of n entries from index start that hold a mapping. *)
MappedRange(start, n) ==
    {i \in {(start + j) % NumTxDesc : j \in 0 .. n - 1} : desc[i].buf # NoSkb}

(* rtl8169_tx_clear_range over the slots R, and nothing else. *)
ClearDesc(R) == [i \in Slots |-> IF i \in R THEN NoDesc ELSE desc[i]]
MutClearSkb(R) == tx_skb
ClearSkb(R)  == [i \in Slots |-> IF i \in R THEN NoSkb ELSE tx_skb[i]]
Freed(F)     == [s \in Skbs |-> IF s \in F THEN "stack" ELSE owner[s]]

-----------------------------------------------------------------------------
(* rtl8169_start_xmit.  The stack calls it when the queue is not stopped.  *)
XmitBegin(s, f, more) ==
    /\ xpc = "idle" /\ active /\ ~xoff /\ owner[s] = "stack"
    /\ more => \E t \in Skbs \ {s} : owner[t] = "stack"
    /\ IF Avail = 0
       THEN /\ xpc' = "busy"
            /\ UNCHANGED <<xm, owner>>
       ELSE /\ xpc' = "head"
            /\ xm' = [NoXm EXCEPT !.skb = s, !.frags = f, !.more = more,
                                  !.entry = cur_tx % NumTxDesc]
            /\ owner' = [owner EXCEPT ![s] = "driver"]
    /\ burst' = FALSE
    /\ past' = [past EXCEPT !.spoiled = @ \/ (Avail # 0 /\ Avail < f + 1) \/ spc = "index"]
    /\ UNCHANGED <<ring, xoff, active, bql, rvars, svars, nic>>

(* err_stop_0: the queue is stopped and the stack keeps the packet. *)
XmitBusy ==
    /\ xpc = "busy"
    /\ xoff' = TRUE /\ xpc' = "idle" /\ past' = Settled
    /\ UNCHANGED <<ring, active, burst, books, xm, rvars, svars, nic>>

(* A short packet is padded by rtl8169_tso_csum_v2, which makes it linear:    *)
(* rtl8169_xmit_frags then finds no fragment, but frags has been read before. *)
XmitHead ==
    /\ xpc = "head"
    /\ desc' = TxMap(desc, xm.entry, xm.skb, FALSE)
    /\ \E linear \in {FALSE, Padding} :
          xpc' = IF xm.frags > 0 /\ ~linear THEN "frag" ELSE "last"
    /\ UNCHANGED <<cur_tx, dirty_tx, tx_skb, qvars, books, xm, rvars, svars, nic, past>>

(* One round of rtl8169_xmit_frags: fragments are given to the chip at once, *)
(* behind a first descriptor that is still the driver's.                     *)
XmitFrag ==
    /\ xpc = "frag"
    /\ desc' = TxMap(desc, Entry(xm.k + 1), xm.skb, TRUE)
    /\ xm' = [xm EXCEPT !.k = @ + 1]
    /\ xpc' = IF xm.k + 1 = xm.frags THEN "last" ELSE "frag"
    /\ UNCHANGED <<cur_tx, dirty_tx, tx_skb, qvars, books, rvars, svars, nic, past>>

(* err_dma_0, and the fragments' err_out followed by err_dma_1: what was     *)
(* mapped so far is unmapped and the packet is dropped.                      *)
XmitMapFails ==
    /\ MapMayFail /\ xpc \in {"head", "frag"}
    /\ LET R == IF xpc = "head" THEN {}
                ELSE MappedRange(cur_tx + 1, xm.k) \cup {xm.entry}
       IN  /\ desc' = ClearDesc(R)
           /\ tx_skb' = ClearSkb(R)
           /\ owner' = Freed({xm.skb} \cup {tx_skb[i] : i \in R})
    /\ xpc' = "idle" /\ xm' = NoXm
    /\ UNCHANGED <<cur_tx, dirty_tx, qvars, bql, rvars, svars, nic, past>>

MutXmitLast ==
    /\ xpc = "last"
    /\ desc' = [desc EXCEPT ![Entry(xm.frags)].last = TRUE]
    /\ tx_skb' = [tx_skb EXCEPT ![Entry(xm.frags)] = xm.skb]
    /\ bql' = bql + 1
    /\ xm' = [xm EXCEPT !.bell = ~xm.more /\ cur_tx = dirty_tx]
    /\ xpc' = "own"
    /\ UNCHANGED <<cur_tx, dirty_tx, qvars, owner, rvars, svars, nic, past>>

(* LastFrag, tx_skb[].skb, and __netdev_sent_queue, which asks for a doorbell *)
(* unless more packets follow and the queue is awake.                         *)
XmitLast ==
    /\ xpc = "last"
    /\ desc' = [desc EXCEPT ![Entry(xm.frags)].last = TRUE]
    /\ tx_skb' = [tx_skb EXCEPT ![Entry(xm.frags)] = xm.skb]
    /\ bql' = bql + 1
    /\ xm' = [xm EXCEPT !.bell = ~xm.more \/ xoff]
    /\ xpc' = "own"
    /\ UNCHANGED <<cur_tx, dirty_tx, qvars, owner, rvars, svars, nic, past>>

XmitOwn ==
    /\ xpc = "own"
    /\ desc' = [desc EXCEPT ![xm.entry] = [@ EXCEPT !.own = TRUE, !.first = TRUE]]
    /\ xpc' = "publish"
    /\ UNCHANGED <<cur_tx, dirty_tx, tx_skb, qvars, books, xm, rvars, svars, nic, past>>

XmitPublish ==
    /\ xpc = "publish"
    /\ cur_tx' = Wrap(cur_tx + xm.frags + 1)
    /\ xpc' = "stop"
    /\ UNCHANGED <<dirty_tx, desc, tx_skb, qvars, books, xm, rvars, svars, nic, past>>

(* netif_subqueue_maybe_stop: stop when fewer than StopThrs slots are free... *)
XmitMaybeStop ==
    /\ xpc = "stop"
    /\ xpc' = IF Avail < StopThrs THEN "xoff" ELSE "bell"
    /\ past' = Settled
    /\ UNCHANGED <<ring, qvars, books, xm, rvars, svars, nic>>

XmitStop ==
    /\ xpc = "xoff"
    /\ xoff' = TRUE /\ xpc' = "recheck" /\ past' = Settled
    /\ UNCHANGED <<ring, active, burst, books, xm, rvars, svars, nic>>

(* ... then look again, since rtl_tx may have freed slots in between. *)
XmitRecheck ==
    /\ xpc = "recheck"
    /\ IF Avail >= StartThrs
       THEN xoff' = FALSE /\ UNCHANGED xm
       ELSE UNCHANGED xoff /\ xm' = [xm EXCEPT !.bell = TRUE]
    /\ xpc' = "bell"
    /\ UNCHANGED <<ring, active, burst, books, rvars, svars, nic, past>>

XmitBell ==
    /\ xpc = "bell"
    /\ IF xm.bell THEN Doorbell ELSE UNCHANGED nic
    /\ burst' = (xm.more /\ ~xoff)
    /\ xpc' = "idle" /\ xm' = NoXm
    /\ UNCHANGED <<ring, xoff, active, books, rvars, svars, past>>

Xmit ==
    \/ XmitBusy \/ XmitHead \/ XmitFrag \/ XmitMapFails \/ XmitLast \/ XmitOwn
    \/ XmitPublish \/ XmitMaybeStop \/ XmitStop \/ XmitRecheck \/ XmitBell

XmitStart == \E s \in Skbs, f \in 0 .. MaxSkbFrags, more \in BOOLEAN : XmitBegin(s, f, more)

-----------------------------------------------------------------------------
(* rtl_tx, called by the NAPI poll. *)
NapiOff == spc \in {"polling", "sync", "hw", "clear", "index", "start"}

ReapBegin ==
    /\ rpc = "idle" /\ ~NapiOff
    /\ rp' = [NoRp EXCEPT !.d = dirty_tx]
    /\ rpc' = "loop"
    /\ UNCHANGED <<ring, qvars, books, xvars, svars, nic, past>>

MutReapOne ==
    LET i == rp.d % NumTxDesc IN
    /\ rpc = "loop" /\ cur_tx # rp.d
    /\ desc' = ClearDesc({i})
    /\ tx_skb' = ClearSkb({i})
    /\ owner' = Freed({tx_skb[i]})
    /\ rp' = [rp EXCEPT !.d = Wrap(@ + 1), !.skb = tx_skb[i] # NoSkb,
                        !.pkts = IF tx_skb[i] # NoSkb THEN @ + 1 ELSE @]
    /\ UNCHANGED <<cur_tx, dirty_tx, qvars, bql, xvars, rpc, svars, nic, past>>

(* One round of the loop: a descriptor the chip has given back is released. *)
ReapOne ==
    LET i == rp.d % NumTxDesc IN
    /\ rpc = "loop" /\ cur_tx # rp.d /\ ~desc[i].own
    /\ desc' = ClearDesc({i})
    /\ tx_skb' = ClearSkb({i})
    /\ owner' = Freed({tx_skb[i]})
    /\ rp' = [rp EXCEPT !.d = Wrap(@ + 1), !.skb = tx_skb[i] # NoSkb,
                        !.pkts = IF tx_skb[i] # NoSkb THEN @ + 1 ELSE @]
    /\ UNCHANGED <<cur_tx, dirty_tx, qvars, bql, xvars, rpc, svars, nic, past>>

(* The loop ends; if anything was reaped, dirty_tx is published. *)
ReapPublish ==
    /\ rpc = "loop"
    /\ cur_tx = rp.d \/ desc[rp.d % NumTxDesc].own
    /\ dirty_tx' = rp.d
    /\ rpc' = IF dirty_tx = rp.d THEN "idle" ELSE "wake"
    /\ rp' = IF dirty_tx = rp.d THEN NoRp ELSE rp
    /\ UNCHANGED <<cur_tx, desc, tx_skb, qvars, books, xvars, svars, nic, past>>

(* netif_subqueue_completed_wake: report, then wake a stopped queue if packets *)
(* completed and StartThrs slots are free.  With SplitWake the free slots are  *)
(* read here and the queue's state in ReapWake.                                *)
ReapComplete ==
    /\ rpc = "wake"
    /\ bql' = bql - rp.pkts
    /\ IF SplitWake
       THEN /\ rp' = [rp EXCEPT !.seen = Avail]
            /\ rpc' = "test"
            /\ UNCHANGED xoff
       ELSE /\ xoff' = (xoff /\ ~(rp.pkts > 0 /\ Avail >= StartThrs))
            /\ rpc' = "kick"
            /\ UNCHANGED rp
    /\ UNCHANGED <<ring, active, burst, owner, xvars, svars, nic, past>>

ReapWake ==
    /\ rpc = "test"
    /\ IF rp.pkts > 0 /\ rp.seen >= StartThrs
       THEN xoff' = FALSE /\ past' = Wakes
       ELSE UNCHANGED <<xoff, past>>
    /\ rpc' = "kick"
    /\ UNCHANGED <<ring, active, burst, books, xvars, rp, svars, nic>>

(* The extra TxPoll when more packets arrived and the last slot reaped ended one. *)
ReapKick ==
    /\ rpc = "kick"
    /\ IF cur_tx # rp.d /\ rp.skb THEN Doorbell ELSE UNCHANGED nic
    /\ rpc' = "idle" /\ rp' = NoRp
    /\ UNCHANGED <<ring, qvars, books, xvars, svars, past>>

Reap == ReapOne \/ ReapPublish \/ ReapComplete \/ ReapWake \/ ReapKick

-----------------------------------------------------------------------------
(* The chip (external): once rung, it sends the descriptors it owns in order, *)
(* wraps after RingEnd, and goes to sleep at one it does not own.             *)
NicSend ==
    /\ nic.on /\ nic.run /\ nic.pos \in Slots /\ desc[nic.pos].own
    /\ desc' = [desc EXCEPT ![nic.pos].own = FALSE]
    /\ nic' = [nic EXCEPT !.mid = ~desc[nic.pos].last,
                          !.pos = IF desc[nic.pos].eor THEN 0 ELSE @ + 1]
    /\ UNCHANGED <<cur_tx, dirty_tx, tx_skb, qvars, books, xvars, rvars, svars, past>>

NicSleep ==
    /\ nic.on /\ nic.run /\ nic.pos \in Slots /\ ~desc[nic.pos].own
    /\ nic' = [nic EXCEPT !.run = FALSE]
    /\ UNCHANGED <<ring, qvars, books, xvars, rvars, svars, past>>

-----------------------------------------------------------------------------

(* rtl_task resets the ring under traffic; close first detaches the qdisc,    *)
(* which waits for start_xmit, and open attaches it again.                    *)
ResetBegin(k) ==
    /\ spc = "idle" /\ resets < MaxResets
    /\ spc' = IF k = "reopen" THEN "detach" ELSE "stopq"
    /\ sk' = k /\ resets' = resets + 1
    /\ active' = (k # "reopen")
    /\ UNCHANGED <<ring, xoff, burst, books, xvars, rvars, nic, past>>

ResetDetached ==
    /\ spc = "detach" /\ xpc = "idle"
    /\ spc' = "stopq"
    /\ UNCHANGED <<ring, qvars, books, xvars, rvars, sk, resets, nic, past>>

ResetStopQueue ==
    /\ spc = "stopq"
    /\ xoff' = TRUE
    /\ spc' = "napi"
    /\ UNCHANGED <<ring, active, burst, books, xvars, rvars, sk, resets, nic, past>>

(* napi_disable lets no new poll begin, and waits for the one that runs. *)
ResetNapiDisable ==
    /\ spc = "napi" \/ (spc = "polling" /\ rpc = "idle")
    /\ spc' = IF spc = "napi" THEN "polling" ELSE "sync"
    /\ UNCHANGED <<ring, qvars, books, xvars, rvars, sk, resets, nic, past>>

(* synchronize_net waits for the start_xmit that runs. *)
ResetSync ==
    /\ spc = "sync" /\ xpc = "idle"
    /\ spc' = "hw"
    /\ UNCHANGED <<ring, qvars, books, xvars, rvars, sk, resets, nic, past>>

(* rtl_rx_close, the stop request and rtl_hw_reset: the chip is silent. *)
ResetHw ==
    /\ spc = "hw"
    /\ nic' = [on |-> FALSE, run |-> FALSE, pos |-> 0, mid |-> FALSE]
    /\ spc' = "clear"
    /\ UNCHANGED <<ring, qvars, books, xvars, rvars, sk, resets, past>>

MutResetTxClear ==
    LET R == MappedRange(dirty_tx, NumTxDesc) IN
    /\ spc = "clear"
    /\ desc' = ClearDesc(R) /\ tx_skb' = ClearSkb(R)
    /\ owner' = Freed({tx_skb[i] : i \in R})
    /\ spc' = "index"
    /\ past' = [past EXCEPT !.spoiled = @ \/ xpc # "idle"]
    /\ UNCHANGED <<cur_tx, dirty_tx, bql, qvars, xvars, rvars, sk, resets, nic>>

(* rtl8169_tx_clear *)
ResetTxClear ==
    LET R == MappedRange(dirty_tx, NumTxDesc) IN
    /\ spc = "clear"
    /\ desc' = ClearDesc(R)
    /\ tx_skb' = ClearSkb(R)
    /\ owner' = Freed({tx_skb[i] : i \in R})
    /\ bql' = 0
    /\ spc' = "index"
    /\ past' = [past EXCEPT !.spoiled = @ \/ xpc # "idle"]
    /\ UNCHANGED <<cur_tx, dirty_tx, qvars, xvars, rvars, sk, resets, nic>>

(* rtl8169_init_ring_indexes *)
ResetIndexes ==
    /\ spc = "index"
    /\ cur_tx' = 0 /\ dirty_tx' = 0
    /\ spc' = "start"
    /\ UNCHANGED <<desc, tx_skb, qvars, books, xvars, rvars, sk, resets, nic, past>>

(* napi_enable and rtl_hw_start: the chip fetches from the start of the ring. *)
ResetHwStart ==
    /\ spc = "start"
    /\ nic' = [nic EXCEPT !.on = TRUE]
    /\ spc' = "wakeq"
    /\ UNCHANGED <<ring, qvars, books, xvars, rvars, sk, resets, past>>

(* netif_wake_queue in rtl_task, netif_start_queue in rtl_open. *)
ResetWakeQueue ==
    /\ spc = "wakeq"
    /\ xoff' = FALSE /\ active' = TRUE /\ past' = Wakes
    /\ spc' = "idle" /\ sk' = "none"
    /\ UNCHANGED <<ring, burst, books, xvars, rvars, resets, nic>>

Reset ==
    \/ ResetDetached \/ ResetStopQueue \/ ResetNapiDisable \/ ResetSync \/ ResetHw
    \/ ResetTxClear \/ ResetIndexes \/ ResetHwStart \/ ResetWakeQueue

(* r8169_phylink_handler with the carrier on wakes the queue, whatever is in  *)
(* the ring.  close stops the phy before it cleans up; rtl_task does not.     *)
PhyStopped == sk = "reopen" /\ (spc = "napi" \/ NapiOff)

LinkUp ==
    /\ past.linkUps < MaxLinkUps /\ ~PhyStopped
    /\ xoff' = FALSE
    /\ past' = [Wakes EXCEPT !.linkUps = @ + 1]
    /\ UNCHANGED <<ring, active, burst, books, xvars, rvars, svars, nic>>

-----------------------------------------------------------------------------
Next ==
    \/ XmitStart \/ Xmit
    \/ ReapBegin \/ Reap
    \/ NicSend \/ NicSleep
    \/ (\E k \in ResetKinds : ResetBegin(k)) \/ Reset
    \/ LinkUp

Spec == Init /\ [][Next]_vars

(* The CPU that runs start_xmit, the poll, the chip and the resetting thread  *)
(* all go on; the stack keeps its promise of another packet; a poll comes     *)
(* again (the interrupt half is module IrqNapi's).                            *)
Fairness ==
    /\ WF_vars(Xmit) /\ WF_vars(burst /\ XmitStart)
    /\ WF_vars(ReapBegin) /\ WF_vars(Reap)
    /\ WF_vars(NicSend) /\ WF_vars(NicSleep)
    /\ WF_vars(Reset)

LiveSpec == Spec /\ Fairness

-----------------------------------------------------------------------------
DescType == [own : BOOLEAN, first : BOOLEAN, last : BOOLEAN, eor : BOOLEAN, buf : SkbOrNo]
RingType == [Slots -> DescType]
XmType   == [skb : SkbOrNo, frags : 0 .. MaxSkbFrags, k : Nat,
             entry : Slots, more : BOOLEAN, bell : BOOLEAN]
RpType   == [d : Index, pkts : Nat, skb : BOOLEAN, seen : Int]
NicType  == [on : BOOLEAN, run : BOOLEAN, pos : Nat, mid : BOOLEAN]
PastType == [linkUps : Nat, woken : BOOLEAN, spoiled : BOOLEAN]
XmitPcs  == {"idle", "busy", "head", "frag", "last", "own", "publish",
             "stop", "xoff", "recheck", "bell"}
ReapPcs  == {"idle", "loop", "wake", "test", "kick"}
ResetPcs == {"idle", "detach", "stopq", "napi", "polling", "sync", "hw", "clear",
             "index", "start", "wakeq"}

(* Every variable has its type: the indices are u32 and the locals in range. *)
TypeOK ==
    /\ cur_tx \in Index /\ dirty_tx \in Index
    /\ desc \in RingType /\ tx_skb \in [Slots -> SkbOrNo]
    /\ xoff \in BOOLEAN /\ active \in BOOLEAN /\ burst \in BOOLEAN
    /\ owner \in [Skbs -> {"stack", "driver"}] /\ bql \in Int
    /\ xpc \in XmitPcs /\ xm \in XmType
    /\ rpc \in ReapPcs /\ rp \in RpType
    /\ spc \in ResetPcs /\ sk \in {"none", "task", "reopen"} /\ resets \in Nat
    /\ nic \in NicType /\ past \in PastType

(* Whenever the stack may call start_xmit there is room for a packet of       *)
(* MAX_SKB_FRAGS fragments: start_xmit itself only tests for zero free slots,  *)
(* and relies on the stop and wake thresholds for the rest.  Two things break  *)
(* that: a queue stopped for want of room is woken by the link-up handler, by  *)
(* a reset that the stack has filled again, or by rtl_tx on a count that has   *)
(* become stale (woken, until start_xmit stops it again); and a ring that was  *)
(* lapped or thrown away under start_xmit (spoiled).  There is no third.       *)
AwakeHasRoom ==
    xpc = "idle" /\ ~xoff /\ ~past.woken /\ ~past.spoiled => Avail >= MaxSkbFrags + 1

(* start_xmit never takes its "BUG! Tx Ring full when queue awake!" branch.  *)
NeverFullWhenAwake == xpc # "busy"

(* The packet that starts at slot i is complete: its fragments follow, owned *)
(* by the chip, of the same skb, the last one marked and holding the skb.    *)
WholePacket(i) ==
    \E n \in 0 .. MaxSkbFrags :
        /\ tx_skb[(i + n) % NumTxDesc] = desc[i].buf
        /\ \A j \in 0 .. n :
              LET t == desc[(i + j) % NumTxDesc]
              IN  /\ t.own /\ t.buf = desc[i].buf
                  /\ t.first = (j = 0) /\ t.last = (j = n)

(* The chip only ever meets whole packets: it starts at a first descriptor   *)
(* and never finds the next one of a packet not yet given to it, although    *)
(* start_xmit gives fragments away before the head of the packet.            *)
ChipSeesWholePackets ==
    nic.on =>
    /\ nic.pos \in Slots
    /\ nic.mid => desc[nic.pos].own /\ ~desc[nic.pos].first
    /\ ~nic.mid /\ desc[nic.pos].own => desc[nic.pos].first
    /\ \A i \in Slots : desc[i].own /\ desc[i].first => WholePacket(i)

(* The slots the packet being built has been mapped into so far. *)
Unfinished ==
    IF xpc = "frag" THEN {Entry(j) : j \in 0 .. xm.k} ELSE {}

(* No step of the driver rewrites or unmaps a descriptor that the chip, being *)
(* on, still owns: the ring never laps itself, and the teardown waits, unless *)
(* it is spoiled as said above.  Only a packet whose mapping fails takes its  *)
(* own fragments back from behind its first descriptor.                       *)
OwnedIsLeftAlone ==
    [][~past'.spoiled =>
         \A i \in Slots \ Unfinished :
             desc[i].own /\ nic.on => desc'[i].buf = desc[i].buf]_vars

(* A packet the driver owns is held in exactly one place, the running         *)
(* start_xmit or one slot of tx_skb, and no slot holds a packet already freed: *)
(* every path frees each packet exactly once.                                 *)
SkbHeldOnce ==
    \A s \in Skbs :
        LET held == {i \in Slots : tx_skb[i] = s}
            building == xm.skb = s /\ xpc \in {"head", "frag", "last"}
        IN  Cardinality(held) + (IF building THEN 1 ELSE 0)
              = (IF owner[s] = "driver" THEN 1 ELSE 0)

(* Byte queue limits: what was reported sent and not completed is what the    *)
(* ring holds plus what rtl_tx has reaped but not reported yet, so completion *)
(* never exceeds what was sent (dql_completed would BUG).                     *)
BqlBalanced ==
    bql = Cardinality({i \in Slots : tx_skb[i] # NoSkb})
            + (IF rpc \in {"loop", "wake"} THEN rp.pkts ELSE 0)

(* A stopped queue is always woken again: neither the stop in start_xmit and  *)
(* the wake in rtl_tx nor a reset can leave it stopped for good.              *)
StoppedQueueWakes == xoff ~> ~xoff

-----------------------------------------------------------------------------
(* What the ring promises, in terms of packets: the abstract queue TxQueue.   *)
(* A packet enters it when its first descriptor is given to the chip.         *)
Handed == Ahead(dirty_tx, cur_tx) + (IF xpc = "publish" THEN xm.frags + 1 ELSE 0)
At(j)  == (dirty_tx + j - 1) % NumTxDesc
Ends   == {j \in 1 .. Handed : tx_skb[At(j)] # NoSkb}

(* The nth of a finite set of numbers, counted from the least. *)
Nth(E, n) == CHOOSE j \in E : Cardinality({k \in E : k <= j}) = n

pendingBar == LET E == Ends IN [n \in 1 .. Cardinality(E) |-> tx_skb[At(Nth(E, n))]]
goneBar    == {tx_skb[At(j)] : j \in {k \in Ends : ~desc[At(k)].own}}

Abstract == INSTANCE TxQueue WITH pending <- pendingBar, gone <- goneBar

(* The ring is a FIFO of packets: each is sent once, in the order of           *)
(* start_xmit, and released in that order, only after it was sent, or flushed; *)
(* and each is in the end: its doorbell is rung, also within a burst.          *)
ImplementsTxQueue == Abstract!Spec
=============================================================================
