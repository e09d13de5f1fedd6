-------------------------- MODULE ChipRegs_proofs --------------------------
(***************************************************************************)
(* Proofs about ChipRegs: whatever the threads interleave, for scripts of  *)
(* any chip that keep the discipline ScriptAssumption states (TLC          *)
(* evaluates it), configuration registers are only written while they are  *)
(* unlocked and no update of a register that has a lock is lost; and, by   *)
(* what ChipScripts_proofs shows of the scripts, the registers end up      *)
(* holding what was asked for and the PHY is accessed on the page meant.   *)
(***************************************************************************)
EXTENDS ChipScripts_proofs

Places ==
    /\ mac_version \in Chips /\ board \in Boards(mac_version)
    /\ jumbo \in BOOLEAN /\ saved_wolopts \in WolChoices /\ running \in BOOLEAN
    /\ script \in [Threads -> Scripts]
    /\ pc \in [Threads -> Nat]
    /\ \A t \in Threads : pc[t] \in 1..(Len(script[t]) + 1)

Tables ==
    /\ mem = [r \in Registers |-> mem[r]]
    /\ tmp = [t \in Threads |-> tmp[t]]

(* The count is the number of threads inside an unlocked stretch.          *)
Inside(t) == IF Opened(script[t], pc[t]) THEN 1 ELSE 0
Counted ==
    /\ cfg9346_usage_count = Inside("main") + Inside("task") + Inside("phy")
    /\ cfg9346 = IF cfg9346_usage_count = 0 THEN "locked" ELSE "unlocked"

(* A lock is owned by the thread whose script has taken it.                *)
Owned ==
    /\ owner \in [Locks -> Threads \cup {Nobody}]
    /\ \A l \in Locks, t \in Threads : owner[l] = t <=> Holds(script[t], l, pc[t])

IInv == Places /\ Tables /\ Counted /\ Owned /\ GuardedKept

-----------------------------------------------------------------------------
(* What an access does to the state of the locks along a script.           *)
LEMMA OpenedNext ==
  ASSUME NEW s \in Seq(Accesses), NEW i \in 1..Len(s)
  PROVE  Opened(s, i + 1) <=>
           (s[i].op = "unlock" \/ (s[i].op # "lock" /\ Opened(s, i)))
<1>1. ASSUME Opened(s, i + 1), s[i].op # "unlock" PROVE s[i].op # "lock" /\ Opened(s, i)
  <2>1. PICK u \in 1..i : s[u].op = "unlock" /\ \A k \in (u + 1)..i : s[k].op # "lock"
    BY <1>1 DEF Opened
  <2>2. u # i BY <1>1, <2>1
  <2>3. QED BY <2>1, <2>2 DEF Opened
<1>2. ASSUME s[i].op = "unlock" PROVE Opened(s, i + 1)
  <2>1. i \in 1..((i + 1) - 1) /\ \A k \in (i + 1)..((i + 1) - 1) : s[k].op # "lock" OBVIOUS
  <2>2. QED BY <1>2, <2>1 DEF Opened
<1>3. ASSUME s[i].op # "lock", Opened(s, i) PROVE Opened(s, i + 1)
  <2>1. PICK u \in 1..(i - 1) : s[u].op = "unlock" /\ \A k \in (u + 1)..(i - 1) : s[k].op # "lock"
    BY <1>3 DEF Opened
  <2>2. \A k \in (u + 1)..((i + 1) - 1) : k = i \/ k \in (u + 1)..(i - 1) OBVIOUS
  <2>3. u \in 1..((i + 1) - 1) OBVIOUS
  <2>4. QED BY <1>3, <2>1, <2>2, <2>3 DEF Opened
<1>4. QED BY <1>1, <1>2, <1>3

(* What a thread holds after an access.                                      *)
LEMMA HoldsNext ==
  ASSUME NEW s \in Seq(Accesses), NEW i \in 1..Len(s), NEW l
  PROVE  Holds(s, l, i + 1) <=>
           \/ s[i].op = "acquire" /\ s[i].reg = l
           \/ ~(s[i].op = "release" /\ s[i].reg = l) /\ Holds(s, l, i)
<1> DEFINE Taken(k) == s[k].op = "acquire" /\ s[k].reg = l
           Back(k)  == s[k].op = "release" /\ s[k].reg = l
<1>1. \A j : Holds(s, l, j) <=> \E u \in 1..(j - 1) : Taken(u) /\ \A k \in (u + 1)..(j - 1) : ~Back(k)
  BY DEF Holds
<1>2. Taken(i) => ~Back(i) OBVIOUS
<1> HIDE DEF Taken, Back
<1>3. ASSUME Holds(s, l, i + 1), ~Taken(i) PROVE ~Back(i) /\ Holds(s, l, i)
  <2>1. PICK u \in 1..i : Taken(u) /\ \A k \in (u + 1)..i : ~Back(k)
    BY <1>1, <1>3
  <2>2. u # i BY <1>3, <2>1
  <2>3. QED BY <1>1, <2>1, <2>2
<1>4. ASSUME Taken(i) PROVE Holds(s, l, i + 1)
  <2>1. i \in 1..((i + 1) - 1) /\ \A k \in (i + 1)..((i + 1) - 1) : ~Back(k) OBVIOUS
  <2>2. QED BY <1>1, <1>4, <2>1
<1>5. ASSUME ~Back(i), Holds(s, l, i) PROVE Holds(s, l, i + 1)
  <2>1. PICK u \in 1..(i - 1) : Taken(u) /\ \A k \in (u + 1)..(i - 1) : ~Back(k)
    BY <1>1, <1>5
  <2>2. \A k \in (u + 1)..((i + 1) - 1) : k = i \/ k \in (u + 1)..(i - 1) OBVIOUS
  <2>3. u \in 1..((i + 1) - 1) OBVIOUS
  <2>4. QED BY <1>1, <1>5, <2>1, <2>2, <2>3
<1>6. QED BY <1>3, <1>4, <1>5 DEF Taken, Back

(* A script begins with nothing open and nothing held.                     *)
LEMMA NothingAtFirst ==
  ASSUME NEW s
  PROVE  ~Opened(s, 1) /\ \A l : ~Holds(s, l, 1)
BY DEF Opened, Holds

(* A thread between two accesses of its script.                            *)
LEMMA Midway ==
  ASSUME Places, NEW t \in Threads
  PROVE  /\ Disciplined(script[t]) /\ script[t] \in Seq(Accesses)
         /\ ~Idle(t) => /\ pc[t] \in 1..Len(script[t])
                        /\ PairedAt(script[t], pc[t]) /\ GuardedAt(script[t], pc[t])
         /\ Idle(t) => /\ pc[t] = Len(script[t]) + 1
                       /\ ~Opened(script[t], pc[t])
                       /\ \A l \in Locks : ~Holds(script[t], l, pc[t])
<1>1. Disciplined(script[t]) BY ScriptAssumption DEF Places
<1>2. script[t] \in Seq(Accesses) BY <1>1 DEF Disciplined
<1>3. Len(script[t]) \in Nat BY <1>2
<1>4. pc[t] \in 1..(Len(script[t]) + 1) BY DEF Places
<1>5. CASE ~Idle(t)
  <2>1. pc[t] \in 1..Len(script[t]) BY <1>3, <1>4, <1>5 DEF Idle
  <2>2. QED BY <1>1, <1>2, <1>5, <2>1 DEF Disciplined
<1>6. CASE Idle(t)
  <2>1. pc[t] = Len(script[t]) + 1 BY <1>3, <1>4, <1>6 DEF Idle
  <2>2. QED BY <1>1, <1>2, <1>6, <2>1 DEF Disciplined
<1>7. QED BY <1>5, <1>6

-----------------------------------------------------------------------------
(* An access leaves the configuration of the device alone and moves its    *)
(* thread one place on.                                                    *)
Moves(t) ==
    /\ t \in Threads /\ ~Idle(t)
    /\ pc' = [pc EXCEPT ![t] = @ + 1]
    /\ UNCHANGED <<config, script, jumbo, saved_wolopts, running>>

(* An access moves its thread alone.                                         *)
LEMMA AccessMoves ==
  ASSUME NEW t \in Threads, Access(t)
  PROVE  Moves(t)
<1>1. CASE EriTimeout(t)
  BY <1>1 DEF EriTimeout, Moves, At, soft
<1>2. CASE ~EriTimeout(t)
  BY <1>2 DEF Access, rtl_unlock_config_regs, rtl_lock_config_regs, Acquire, Release, Read, Write,
     Overwrite, Get, Use, EriAskRead, EriGetData, EriPutData, EriAskWrite,
     OcpAddress, OcpData, OcpWrite, PhyStop, PhyStart, SelectPage, PhyAccess, phy_select_page,
     phy_restore_page, FwSelect, FwWrite, FwBase, Kept, Step, At, Moves, soft
<1>3. QED BY <1>1, <1>2

(* The count of open stretches follows the unlocks and locks.              *)
LEMMA AccessCounts ==
  ASSUME NEW t \in Threads, Access(t)
  PROVE  \/ At(t, "unlock") /\ cfg9346_usage_count' = cfg9346_usage_count + 1
              /\ cfg9346' = (IF cfg9346_usage_count = 0 THEN "unlocked" ELSE cfg9346)
         \/ At(t, "lock") /\ cfg9346_usage_count' = cfg9346_usage_count - 1
              /\ cfg9346' = (IF cfg9346_usage_count = 1 THEN "locked" ELSE cfg9346)
         \/ ~At(t, "unlock") /\ ~At(t, "lock") /\ UNCHANGED cfglock
BY DEF Access, rtl_unlock_config_regs, rtl_lock_config_regs, Acquire, Release, Read, Write,
     Overwrite, Get, Use, EriAskRead, EriGetData, EriTimeout, EriPutData, EriAskWrite,
     OcpAddress, OcpData, OcpWrite, PhyStop, PhyStart, SelectPage, PhyAccess, phy_select_page,
     phy_restore_page, FwSelect, FwWrite, FwBase, Kept, At, cfglock

(* An access changes the owner of a lock only as its thread takes it or      *)
(* gives it back.                                                            *)
LEMMA AccessOwns ==
  ASSUME NEW t \in Threads, Access(t)
  PROVE  \/ /\ At(t, "acquire") /\ owner[Now(t).reg] = Nobody
            /\ owner' = [owner EXCEPT ![Now(t).reg] = t]
         \/ At(t, "release") /\ owner' = [owner EXCEPT ![Now(t).reg] = Nobody]
         \/ ~At(t, "acquire") /\ ~At(t, "release") /\ owner' = owner
BY DEF Access, rtl_unlock_config_regs, rtl_lock_config_regs, Acquire, Release, Read, Write,
     Overwrite, Get, Use, EriAskRead, EriGetData, EriTimeout, EriPutData, EriAskWrite,
     OcpAddress, OcpData, OcpWrite, PhyStop, PhyStart, SelectPage, PhyAccess, phy_select_page,
     phy_restore_page, FwSelect, FwWrite, FwBase, Kept, At

(* What an access may do to registers, windows and what threads have read. *)
Memory(t) ==
    /\ At(t, "wr") \/ At(t, "put") \/ At(t, "eri_write") \/ At(t, "ocp_write")
         \/ UNCHANGED mem
    /\ \A r \in Registers : mem'[r] = mem[r] \/ Now(t).reg = r
    /\ \/ UNCHANGED ocpdr
       \/ At(t, "touch") /\ owner["mac_ocp_lock"] = Nobody
       \/ At(t, "ocp_addr") /\ ocpdr' = Now(t).reg
       \/ At(t, "ocp_write")
    /\ At(t, "ocp_addr") => ocpdr' = Now(t).reg
    /\ At(t, "rd") => tmp'[t] = mem[Now(t).reg]
    /\ At(t, "ocp_data") => (ocpdr \in Registers => tmp'[t] = mem[ocpdr])
    /\ \A u \in Threads : u # t => tmp'[u] = tmp[u]

(* What an access does to the registers, the windows and its thread's reads. *)
LEMMA AccessMemory ==
  ASSUME Tables, NEW t \in Threads, Access(t)
  PROVE  Tables' /\ Memory(t)
<1>1. CASE Write(t) \/ Overwrite(t) \/ EriAskWrite(t) \/ OcpWrite(t)
  BY <1>1 DEF Tables, Memory, Write, Overwrite, EriAskWrite, OcpWrite, At, windows
<1>2. CASE Read(t) \/ Use(t) \/ EriGetData(t) \/ EriTimeout(t) \/ EriPutData(t)
             \/ OcpAddress(t) \/ OcpData(t)
  BY <1>2 DEF Tables, Memory, Read, Use, EriGetData, EriTimeout, EriPutData, OcpAddress, OcpData, At,
     windows
<1>3. CASE rtl_unlock_config_regs(t) \/ rtl_lock_config_regs(t) \/ Acquire(t) \/ Release(t)
             \/ Get(t) \/ EriAskRead(t) \/ PhyStop(t) \/ PhyStart(t)
             \/ SelectPage(t) \/ PhyAccess(t) \/ phy_select_page(t) \/ phy_restore_page(t)
             \/ FwSelect(t) \/ FwWrite(t) \/ FwBase(t)
  BY <1>3 DEF Tables, Memory, rtl_unlock_config_regs, rtl_lock_config_regs, Acquire, Release, Get,
     EriAskRead, PhyStop, PhyStart, SelectPage, PhyAccess, phy_select_page, phy_restore_page,
     FwSelect, FwWrite, FwBase, Kept, At, windows
<1>4. QED BY <1>1, <1>2, <1>3 DEF Access

-----------------------------------------------------------------------------
(* Each part of the invariant through an access.                           *)
LEMMA PlacesKept ==
  ASSUME Places, NEW t \in Threads, Access(t)
  PROVE  Places'
<1>1. Moves(t) BY AccessMoves
<1>2. pc[t] \in 1..Len(script[t]) /\ script[t] \in Seq(Accesses)
  BY <1>1, Midway DEF Moves
<1>3. pc[t] + 1 \in 1..(Len(script[t]) + 1) BY <1>2
<1>4. QED BY <1>1, <1>3 DEF Moves, Places, config

(* Where the threads are after an access of t.                             *)
LEMMA After ==
  ASSUME Places, NEW t \in Threads, Moves(t)
  PROVE  /\ script' = script
         /\ pc'[t] = pc[t] + 1
         /\ \A u \in Threads : u # t => pc'[u] = pc[u] /\ (Idle(u)' <=> Idle(u))
BY DEF Places, Moves, Idle

(* The count of users of the configuration registers is kept by an access.   *)
LEMMA CountedKept ==
  ASSUME Places, Counted, NEW t \in Threads, Access(t)
  PROVE  Counted'
<1> DEFINE O(u) == Opened(script[u], pc[u])
<1>1. Moves(t) BY AccessMoves
<1>2. /\ pc[t] \in 1..Len(script[t]) /\ script[t] \in Seq(Accesses)
      /\ PairedAt(script[t], pc[t])
  BY <1>1, Midway DEF Moves
<1>3. script' = script /\ pc'[t] = pc[t] + 1 /\ \A u \in Threads : u # t => pc'[u] = pc[u]
  BY <1>1, After
<1>4. O(t)' <=> (script[t][pc[t]].op = "unlock" \/ (script[t][pc[t]].op # "lock" /\ O(t)))
  BY <1>2, <1>3, OpenedNext
<1>5. \A u \in Threads : u # t => (O(u)' <=> O(u))
  BY <1>3
<1>6. At(t, "unlock") => O(t)' /\ ~O(t)
  BY <1>2, <1>4 DEF At, PairedAt
<1>7. At(t, "lock") => ~O(t)' /\ O(t)
  BY <1>2, <1>4 DEF At, PairedAt
<1>8. ~At(t, "unlock") /\ ~At(t, "lock") => (O(t)' <=> O(t))
  BY <1>1, <1>4 DEF At, Moves
<1>9. \A u \in Threads : Inside(u) = (IF O(u) THEN 1 ELSE 0) /\ Inside(u)' = IF O(u)' THEN 1 ELSE 0
  BY DEF Inside
<1>10. O(t) \in BOOLEAN /\ O(t)' \in BOOLEAN
  BY DEF Opened
<1> HIDE DEF O
<1>11. t \in {"main", "task", "phy"} BY DEF Threads
<1>12. "main" \in Threads /\ "task" \in Threads /\ "phy" \in Threads BY DEF Threads
<1>13. CASE At(t, "unlock")
  <2>1. /\ cfg9346_usage_count' = cfg9346_usage_count + 1
        /\ cfg9346' = IF cfg9346_usage_count = 0 THEN "unlocked" ELSE cfg9346
    BY <1>13, AccessCounts DEF At
  <2>2. QED BY <1>5, <1>6, <1>9, <1>11, <1>12, <1>13, <2>1 DEF Counted
<1>14. CASE At(t, "lock")
  <2>1. /\ cfg9346_usage_count' = cfg9346_usage_count - 1
        /\ cfg9346' = IF cfg9346_usage_count = 1 THEN "locked" ELSE cfg9346
    BY <1>14, AccessCounts DEF At
  <2>2. QED BY <1>5, <1>7, <1>9, <1>11, <1>12, <1>14, <2>1 DEF Counted
<1>15. CASE ~At(t, "unlock") /\ ~At(t, "lock")
  <2>1. UNCHANGED cfglock
    BY <1>15, AccessCounts
  <2>2. QED BY <1>5, <1>8, <1>9, <1>11, <1>12, <1>15, <2>1 DEF Counted, cfglock
<1>16. QED BY <1>13, <1>14, <1>15

(* The owners of the locks are kept by an access.                            *)
LEMMA OwnedKept ==
  ASSUME Places, Owned, NEW t \in Threads, Access(t)
  PROVE  Owned'
<1> DEFINE H(l, u) == Holds(script[u], l, pc[u])
<1>1. Moves(t) BY AccessMoves
<1>2. /\ pc[t] \in 1..Len(script[t]) /\ script[t] \in Seq(Accesses)
      /\ PairedAt(script[t], pc[t])
  BY <1>1, Midway DEF Moves
<1>3. script' = script /\ pc'[t] = pc[t] + 1 /\ \A u \in Threads : u # t => pc'[u] = pc[u]
  BY <1>1, After
<1>4. \A l : H(l, t)' <=> \/ script[t][pc[t]].op = "acquire" /\ script[t][pc[t]].reg = l
                          \/ ~(script[t][pc[t]].op = "release" /\ script[t][pc[t]].reg = l) /\ H(l, t)
  <2> TAKE l
  <2>1. Holds(script[t], l, pc[t] + 1) <=>
          \/ script[t][pc[t]].op = "acquire" /\ script[t][pc[t]].reg = l
          \/ ~(script[t][pc[t]].op = "release" /\ script[t][pc[t]].reg = l) /\ H(l, t)
    BY <1>2, HoldsNext
  <2>2. H(l, t)' <=> Holds(script[t], l, pc[t] + 1)
    BY <1>3
  <2>3. QED BY <2>1, <2>2
<1>5. \A l, u : u \in Threads /\ u # t => (H(l, u)' <=> H(l, u))
  BY <1>3
<1>6. \A l \in Locks, u \in Threads : owner[l] = u <=> H(l, u)
  BY DEF Owned
<1>7. At(t, "acquire") => script[t][pc[t]].op = "acquire" /\ Now(t).reg = script[t][pc[t]].reg
                            /\ Now(t).reg \in Locks
  BY <1>2 DEF At, Now, PairedAt
<1>8. At(t, "release") => /\ script[t][pc[t]].op = "release" /\ Now(t).reg = script[t][pc[t]].reg
                          /\ Now(t).reg \in Locks /\ H(Now(t).reg, t)
  BY <1>2 DEF At, Now, PairedAt
<1>9. ~At(t, "acquire") /\ ~At(t, "release") => \A l : H(l, t)' <=> H(l, t)
  BY <1>1, <1>4 DEF At, Moves
<1>10. owner \in [Locks -> Threads \cup {Nobody}] BY DEF Owned
<1>11. Nobody \notin Threads BY DEF Nobody, Threads
<1> DEFINE New == owner' \in [Locks -> Threads \cup {Nobody}]
                    /\ \A l \in Locks, u \in Threads : owner'[l] = u <=> H(l, u)'
<1>12. CASE At(t, "acquire")
  <2>1. owner[Now(t).reg] = Nobody /\ owner' = [owner EXCEPT ![Now(t).reg] = t]
    BY <1>12, AccessOwns DEF At
  <2>2. \A l : H(l, t)' <=> l = Now(t).reg \/ H(l, t)
    BY <1>4, <1>7, <1>12
  <2> HIDE DEF H
  <2>3. New BY <1>5, <1>6, <1>7, <1>10, <1>11, <1>12, <2>1, <2>2
  <2>4. QED BY <2>3 DEF Owned, H
<1>13. CASE At(t, "release")
  <2>1. owner' = [owner EXCEPT ![Now(t).reg] = Nobody]
    BY <1>13, AccessOwns DEF At
  <2>2. \A l : H(l, t)' <=> l # Now(t).reg /\ H(l, t)
    BY <1>4, <1>8, <1>13
  <2> HIDE DEF H
  <2>3. New BY <1>5, <1>6, <1>8, <1>10, <1>11, <1>13, <2>1, <2>2
  <2>4. QED BY <2>3 DEF Owned, H
<1>14. CASE ~At(t, "acquire") /\ ~At(t, "release")
  <2>1. owner' = owner BY <1>14, AccessOwns
  <2> HIDE DEF H
  <2>2. New BY <1>5, <1>6, <1>9, <1>10, <1>14, <2>1
  <2>3. QED BY <2>2 DEF Owned, H
<1>15. QED BY <1>12, <1>13, <1>14

(* Every guarded register has one lock; whoever writes it holds that lock. *)
LockOf(reg) == IF reg \in OcpRegs THEN "mac_ocp_lock" ELSE "config25_lock"

(* Who writes a guarded register holds its lock.                             *)
LEMMA WriterHolds ==
  ASSUME Places, Owned, NEW t \in Threads, ~Idle(t),
         Now(t).reg \in Guarded,
         At(t, "wr") \/ At(t, "put") \/ At(t, "eri_write") \/ At(t, "ocp_write")
  PROVE  /\ At(t, "wr") \/ At(t, "ocp_write")
         /\ owner[LockOf(Now(t).reg)] = t
<1>1. GuardedAt(script[t], pc[t]) BY Midway
<1>2. CASE At(t, "wr")
  <2>1. Now(t).reg \notin OcpRegs /\ Holds(script[t], "config25_lock", pc[t])
    BY <1>1, <1>2 DEF GuardedAt, At, Now
  <2>2. QED BY <1>2, <2>1 DEF Owned, Locks, LockOf
<1>3. CASE At(t, "ocp_write")
  <2>1. Now(t).reg \in OcpRegs /\ Holds(script[t], "mac_ocp_lock", pc[t])
    BY <1>1, <1>3 DEF GuardedAt, At, Now
  <2>2. QED BY <1>3, <2>1 DEF Owned, Locks, LockOf
<1>4. CASE At(t, "put") \/ At(t, "eri_write")
  BY <1>1, <1>4 DEF GuardedAt, At, Now
<1>5. QED BY <1>2, <1>3, <1>4

(* A thread that is about to use what it read in a guarded register.       *)
Uses(t) == At(t, "ocp_data") \/ ((At(t, "wr") \/ At(t, "ocp_write")) /\ Now(t).reg \in Guarded)

(* Who uses a guarded register or the MAC OCP window holds its lock.         *)
LEMMA UserHolds ==
  ASSUME Places, Owned, NEW t \in Threads, Uses(t)
  PROVE  /\ Now(t).reg \in Guarded /\ owner[LockOf(Now(t).reg)] = t
         /\ At(t, "ocp_data") => LockOf(Now(t).reg) = "mac_ocp_lock"
<1>1. ~Idle(t) BY DEF Uses, At
<1>2. CASE At(t, "ocp_data")
  <2>1. Now(t).reg \in OcpRegs /\ Holds(script[t], "mac_ocp_lock", pc[t])
    BY <1>1, <1>2, Midway DEF GuardedAt, At, Now
  <2>2. QED BY <2>1 DEF Owned, Locks, LockOf, Guarded
<1>3. CASE ~At(t, "ocp_data")
  BY <1>1, <1>3, WriterHolds DEF Uses
<1>4. QED BY <1>2, <1>3

(* What was read under a lock is still there after an access of anybody's.   *)
LEMMA KeptByAccess ==
  ASSUME Places, Tables, Owned, GuardedKept, NEW t \in Threads, Access(t)
  PROVE  GuardedKept'
<1>1. Moves(t) /\ Memory(t) BY AccessMoves, AccessMemory
<1>2. script' = script /\ pc'[t] = pc[t] + 1
  BY <1>1, After
<1>3. \A u \in Threads : u # t => pc'[u] = pc[u] /\ (Idle(u)' <=> Idle(u))
  BY <1>1, After
<1>4. ~Idle(t) BY <1>1 DEF Moves
<1> DEFINE Good(u) ==
             /\ At(u, "ocp_data") => ocpdr = Now(u).reg
             /\ (At(u, "wr") \/ At(u, "ocp_write")) /\ Now(u).reg \in Guarded
                  => tmp[u] = mem[Now(u).reg]
<1>5. ASSUME NEW u \in Threads, u # t PROVE Good(u)'
  <2>1. Now(u)' = Now(u) /\ \A op : At(u, op)' <=> At(u, op)
    BY <1>2, <1>3, <1>5 DEF Now, At
  <2>2. tmp'[u] = tmp[u] BY <1>1, <1>5 DEF Memory
  <2>3. CASE ~Uses(u)
    BY <2>1, <2>3 DEF Uses
  <2>4. CASE Uses(u)
    <3> DEFINE r == Now(u).reg
    <3>1. r \in Guarded /\ owner[LockOf(r)] = u BY <2>4, UserHolds
    <3>2. r \in Registers BY <3>1 DEF Guarded, OcpRegs, Registers
    <3>3. Good(u) BY DEF GuardedKept
    <3>4. mem'[r] = mem[r]
      <4>1. CASE At(t, "wr") \/ At(t, "put") \/ At(t, "eri_write") \/ At(t, "ocp_write")
        <5>1. Now(t).reg # r
          BY <1>4, <1>5, <3>1, <4>1, WriterHolds
        <5>2. QED BY <1>1, <3>2, <5>1 DEF Memory
      <4>2. QED BY <1>1, <4>1 DEF Memory
    <3>5. At(u, "ocp_data") => ocpdr' = ocpdr
      <4> SUFFICES ASSUME At(u, "ocp_data") PROVE ocpdr' = ocpdr
        OBVIOUS
      <4>1. owner["mac_ocp_lock"] = u BY <2>4, UserHolds
      <4>2. u # Nobody BY DEF Threads, Nobody
      <4>3. ASSUME At(t, "ocp_addr") \/ At(t, "ocp_write") PROVE FALSE
        <5>1. Holds(script[t], "mac_ocp_lock", pc[t])
          BY <1>4, <4>3, Midway DEF GuardedAt, At
        <5>2. owner["mac_ocp_lock"] = t BY <5>1 DEF Owned, Locks
        <5>3. QED BY <1>5, <4>1, <5>2
      <4>4. QED BY <1>1, <4>1, <4>2, <4>3 DEF Memory
    <3>6. QED BY <2>1, <2>2, <3>3, <3>4, <3>5
  <2>5. QED BY <2>3, <2>4
<1>6. Good(t)'
  <2> DEFINE i == pc[t]
             s == script[t]
  <2>1. i \in 1..Len(s) /\ s \in Seq(Accesses) /\ Disciplined(s)
    BY <1>4, Midway
  <2>2. CASE i + 1 \in 1..Len(s)
    <3>1. GuardedAt(s, i + 1) BY <2>1, <2>2 DEF Disciplined
    <3>2. Now(t)' = s[i + 1] /\ (\A op : At(t, op)' => s[i + 1].op = op)
      BY <1>2 DEF Now, At
    <3>3. \A op : Follows(s, i + 1, op) => At(t, op) /\ Now(t).reg = s[i + 1].reg
      BY <1>4, <2>1 DEF Follows, At, Now
    <3>4. At(t, "ocp_data")' => ocpdr' = s[i + 1].reg
      BY <1>1, <3>1, <3>2, <3>3 DEF GuardedAt, Memory
    <3>5. At(t, "wr")' /\ s[i + 1].reg \in Guarded => tmp'[t] = mem'[s[i + 1].reg]
      <4> SUFFICES ASSUME At(t, "wr")', s[i + 1].reg \in Guarded
                   PROVE  tmp'[t] = mem'[s[i + 1].reg]
        OBVIOUS
      <4>1. At(t, "rd") /\ Now(t).reg = s[i + 1].reg
        BY <3>1, <3>2, <3>3 DEF GuardedAt
      <4>2. mem' = mem /\ tmp'[t] = mem[Now(t).reg]
        BY <1>1, <4>1 DEF Memory, At
      <4>3. QED BY <4>1, <4>2
    <3>6. At(t, "ocp_write")' => tmp'[t] = mem'[s[i + 1].reg]
      <4> SUFFICES ASSUME At(t, "ocp_write")' PROVE tmp'[t] = mem'[s[i + 1].reg]
        OBVIOUS
      <4>1. At(t, "ocp_data") /\ Now(t).reg = s[i + 1].reg /\ s[i + 1].reg \in Registers
        BY <3>1, <3>2, <3>3 DEF GuardedAt, OcpRegs, Registers
      <4>2. ocpdr = Now(t).reg BY <4>1 DEF GuardedKept
      <4>3. mem' = mem /\ tmp'[t] = mem[Now(t).reg]
        BY <1>1, <4>1, <4>2 DEF Memory, At
      <4>4. QED BY <4>1, <4>3
    <3>7. QED BY <3>2, <3>4, <3>5, <3>6
  <2>3. CASE i + 1 \notin 1..Len(s)
    <3>1. Idle(t)' BY <1>2, <2>1, <2>3 DEF Idle
    <3>2. QED BY <3>1 DEF At
  <2>4. QED BY <2>2, <2>3
<1>7. QED BY <1>5, <1>6 DEF GuardedKept

-----------------------------------------------------------------------------
(* A thread that takes up a new script holds nothing and has read nothing. *)
Begins(t, s) ==
    /\ Idle(t) /\ s \in Scripts
    /\ script' = [script EXCEPT ![t] = s] /\ pc' = [pc EXCEPT ![t] = 1]
    /\ UNCHANGED <<config, mem, windows, cfglock, owner, tmp>>
    /\ jumbo' \in BOOLEAN /\ saved_wolopts' \in WolChoices /\ running' \in BOOLEAN

(* The start of a script keeps the invariant.                                *)
LEMMA KeptByStart ==
  ASSUME IInv, NEW t \in Threads, NEW s \in Scripts, Begins(t, s)
  PROVE  IInv'
<1>1. /\ Places /\ Tables /\ Counted /\ Owned /\ GuardedKept
      /\ script \in [Threads -> Scripts] /\ pc \in [Threads -> Nat]
  BY DEF IInv, Places
<1>2. script'[t] = s /\ pc'[t] = 1 BY <1>1 DEF Begins
<1>3. \A u \in Threads : u # t => script'[u] = script[u] /\ pc'[u] = pc[u]
  BY <1>1 DEF Begins
<1>4. Disciplined(s) BY ScriptAssumption
<1>5. s \in Seq(Accesses) BY <1>4 DEF Disciplined
<1>6. Len(s) \in Nat BY <1>5
<1>7. Places'
  BY <1>1, <1>2, <1>3, <1>6 DEF Places, Begins, config
<1>8. Tables'
  BY <1>1 DEF Tables, Begins
<1>9. Counted'
  <2>1. ~Opened(script'[t], pc'[t]) BY <1>2, NothingAtFirst
  <2>2. ~Opened(script[t], pc[t]) BY <1>1, Midway DEF Begins
  <2>3. \A u \in Threads : Inside(u)' = Inside(u)
    BY <1>3, <2>1, <2>2 DEF Inside
  <2>4. QED BY <1>1, <2>3 DEF Counted, Begins, cfglock, Threads
<1>10. Owned'
  <2>1. \A l \in Locks : ~Holds(script'[t], l, pc'[t]) /\ ~Holds(script[t], l, pc[t])
    BY <1>1, <1>2, NothingAtFirst, Midway DEF Begins
  <2>2. \A l \in Locks, u \in Threads :
           Holds(script'[u], l, pc'[u]) <=> Holds(script[u], l, pc[u])
    BY <1>3, <2>1
  <2>3. QED BY <1>1, <2>2 DEF Owned, Begins
<1>11. GuardedKept'
  <2>1. ASSUME NEW u \in Threads, u # t
        PROVE  Now(u)' = Now(u) /\ \A op : At(u, op)' <=> At(u, op)
    BY <1>3, <2>1 DEF Now, At, Idle
  <2>2. ASSUME Idle(t)' PROVE \A op : ~At(t, op)' BY <2>2 DEF At
  <2>3. ASSUME ~Idle(t)'
        PROVE  ~At(t, "ocp_data")' /\ ~At(t, "ocp_write")'
                 /\ ~(At(t, "wr")' /\ Now(t)'.reg \in Guarded)
    <3>1. 1 \in 1..Len(s) BY <1>2, <1>6, <2>3 DEF Idle
    <3>2. GuardedAt(s, 1) BY <1>4, <3>1 DEF Disciplined
    <3>3. QED BY <1>2, <3>2 DEF GuardedAt, Follows, At, Now
  <2>4. mem' = mem /\ tmp' = tmp /\ ocpdr' = ocpdr BY DEF Begins, windows
  <2>5. QED BY <1>1, <2>1, <2>2, <2>3, <2>4 DEF GuardedKept
<1>12. QED BY <1>7, <1>8, <1>9, <1>10, <1>11 DEF IInv

(* What the operations run is one of the scripts.                          *)
LEMMA MainInScripts ==
  ASSUME NEW v \in Chips, NEW s \in MainScripts(v)
  PROVE  s \in Scripts
BY ChipAssumption DEF Scripts

(* What phylib runs is one of the scripts.                                   *)
LEMMA LinkInScripts ==
  ASSUME NEW v \in Chips, NEW s \in LinkScripts(v)
  PROVE  s \in Scripts
BY ChipAssumption DEF Scripts

(* What main and task run is one of the scripts.                             *)
LEMMA MainOps ==
  ASSUME NEW v, NEW b \in Boards(v), NEW j \in BOOLEAN, NEW w \in BOOLEAN, NEW o \in WolChoices,
         NEW up \in BOOLEAN
  PROVE  {rtl8169_set_wol(v, b, o), rtl_rar_set(v), rtl_set_rx_mode, rtl_set_rx_config_features,
          rtl_reset_work(v, b, j), rtl_jumbo_config(v, j), rtl8169_up(v, b, j),
          rtl8169_runtime_suspend(v, b, TRUE),
          rtl8169_down(v, b, w), rtl8169_runtime_resume(v, b, o, j, up),
          rtl8169_resume(v, b, o, j, up)} \subseteq MainScripts(v)
<1> DEFINE wols    == {rtl8169_set_wol(v, c, p) : c \in Boards(v), p \in WolChoices}
           resets  == {rtl_reset_work(v, c, k) : c \in Boards(v), k \in BOOLEAN}
           jumbos  == {rtl_jumbo_config(v, k) : k \in BOOLEAN}
           ups     == {rtl8169_up(v, c, k) : c \in Boards(v), k \in BOOLEAN}
           downs   == {rtl8169_down(v, c, k) : c \in Boards(v), k \in BOOLEAN}
           sleeps  == {rtl8169_runtime_suspend(v, c, TRUE) : c \in Boards(v)}
           runtime == {rtl8169_runtime_resume(v, c, p, k, u) :
                         c \in Boards(v), p \in WolChoices, k \in BOOLEAN, u \in BOOLEAN}
           resumes == {rtl8169_resume(v, c, p, k, u) :
                         c \in Boards(v), p \in WolChoices, k \in BOOLEAN, u \in BOOLEAN}
           plain   == {rtl_rar_set(v), rtl_set_rx_mode, rtl_set_rx_config_features}
<1>1. rtl8169_set_wol(v, b, o) \in wols OBVIOUS
<1>2. rtl_reset_work(v, b, j) \in resets OBVIOUS
<1>3. rtl_jumbo_config(v, j) \in jumbos OBVIOUS
<1>4. rtl8169_up(v, b, j) \in ups OBVIOUS
<1>5. rtl8169_down(v, b, w) \in downs OBVIOUS
<1>6. rtl8169_runtime_suspend(v, b, TRUE) \in sleeps OBVIOUS
<1>7. rtl8169_runtime_resume(v, b, o, j, up) \in runtime OBVIOUS
<1>8. rtl8169_resume(v, b, o, j, up) \in resumes OBVIOUS
<1>9. MainScripts(v) = UNION {wols, plain, resets, jumbos, ups, downs, sleeps, runtime, resumes}
  BY DEF MainScripts
<1>10. {rtl_rar_set(v), rtl_set_rx_mode, rtl_set_rx_config_features} \subseteq plain OBVIOUS
<1> HIDE DEF wols, resets, jumbos, ups, downs, sleeps, runtime, resumes, plain
<1>11. QED BY <1>1, <1>2, <1>3, <1>4, <1>5, <1>6, <1>7, <1>8, <1>9, <1>10

(* What the suspends run is one of the scripts, too, of a closed device none. *)
LEMMA Suspends ==
  ASSUME NEW v \in Chips, NEW b \in Boards(v), NEW w \in BOOLEAN, NEW up \in BOOLEAN
  PROVE  {<<>>, rtl8169_runtime_suspend(v, b, up), rtl8169_net_suspend(v, b, w, up)} \subseteq Scripts
<1>1. <<>> \in Scripts BY DEF Scripts
<1>2. CASE up
  <2>1. rtl8169_runtime_suspend(v, b, up) \in MainScripts(v) /\ rtl8169_down(v, b, w) \in MainScripts(v)
    <3>1. {} \in WolChoices /\ up = TRUE BY <1>2, ScriptAssumption
    <3>2. QED BY <3>1, MainOps
  <2>2. rtl8169_net_suspend(v, b, w, up) = rtl8169_down(v, b, w) BY <1>2 DEF rtl8169_net_suspend, If
  <2>3. QED BY <1>1, <2>1, <2>2, MainInScripts
<1>3. CASE ~up
  BY <1>1, <1>3 DEF rtl8169_runtime_suspend, rtl8169_net_suspend, If
<1>4. QED BY <1>2, <1>3

Operation ==
    \/ rtl_open \/ rtl8169_close
    \/ set_wol \/ set_mac_address \/ rtl_task \/ change_mtu \/ set_rx_mode \/ set_features
    \/ runtime_suspend \/ system_suspend \/ runtime_resume \/ resume \/ phylib

(* Every operation keeps the invariant.                                      *)
LEMMA KeptByOps ==
  ASSUME IInv, Operation
  PROVE  IInv'
<1>1. /\ mac_version \in Chips /\ board \in Boards(mac_version)
      /\ jumbo \in BOOLEAN /\ saved_wolopts \in WolChoices /\ running \in BOOLEAN
  BY DEF IInv, Places
<1>2. "main" \in Threads /\ "task" \in Threads /\ "phy" \in Threads BY DEF Threads
<1>3. (wol # {}) \in BOOLEAN OBVIOUS
<1>4. SUFFICES \E t \in Threads, s \in Scripts : Begins(t, s)
  BY KeptByStart
<1> DEFINE Soft == jumbo' \in BOOLEAN /\ saved_wolopts' \in WolChoices /\ running' \in BOOLEAN
<1>5. ASSUME NEW s, s \in MainScripts(mac_version) \/ s \in Scripts,
             NEW state, Main(s, state) \/ Beside(s), Soft
      PROVE  \E t \in Threads, z \in Scripts : Begins(t, z)
  <2>1. s \in Scripts BY <1>1, <1>5, MainInScripts
  <2>2. CASE Main(s, state)
    BY <1>1, <1>2, <1>5, <2>1, <2>2 DEF Main, Start, Begins
  <2>3. CASE Beside(s)
    BY <1>1, <1>2, <1>5, <2>1, <2>3 DEF Beside, Start, Begins
  <2>4. QED BY <1>5, <2>2, <2>3
<1>6. CASE set_wol
  <2>1. PICK o \in WolChoices :
          /\ Main(rtl8169_set_wol(mac_version, board, o), "up")
          /\ saved_wolopts' = o /\ jumbo' = jumbo /\ running' = running
    BY <1>6 DEF set_wol
  <2>2. QED BY <1>1, <1>5, <2>1, MainOps
<1>7. CASE set_mac_address
  BY <1>1, <1>5, <1>7, MainOps DEF set_mac_address, soft
<1>8. CASE rtl_task
  BY <1>1, <1>5, <1>8, MainOps DEF rtl_task, soft
<1>9. CASE change_mtu
  <2>1. jumbo' \in BOOLEAN BY <1>9 DEF change_mtu
  <2>2. /\ Main(rtl_jumbo_config(mac_version, jumbo'), "up") /\ saved_wolopts' = saved_wolopts
        /\ running' = running
    BY <1>9 DEF change_mtu
  <2>3. rtl_jumbo_config(mac_version, jumbo') \in MainScripts(mac_version)
    BY <1>1, <2>1, MainOps
  <2>4. QED BY <1>1, <1>5, <2>1, <2>2, <2>3
<1>10. CASE set_rx_mode
  <2>1. <<>> \in Scripts BY DEF Scripts
  <2>2. Soft BY <1>1, <1>10 DEF set_rx_mode
  <2>3. \E state : Main(rtl_set_rx_mode, state) \/ Main(<<>>, state) \/ Beside(<<>>)
    BY <1>10 DEF set_rx_mode
  <2>4. QED BY <1>1, <1>5, <2>1, <2>2, <2>3, MainOps
<1>11. CASE set_features
  <2>1. <<>> \in Scripts BY DEF Scripts
  <2>2. Soft BY <1>1, <1>11 DEF set_features
  <2>3. \E state : Main(rtl_set_rx_config_features, state) \/ Main(<<>>, state)
                     \/ Beside(rtl_set_rx_config_features)
    BY <1>11 DEF set_features
  <2>4. QED BY <1>1, <1>5, <2>1, <2>2, <2>3, MainOps
<1>12. CASE runtime_suspend
  BY <1>1, <1>5, <1>12, Suspends DEF runtime_suspend
<1>13. CASE system_suspend
  BY <1>1, <1>3, <1>5, <1>13, Suspends DEF system_suspend
<1>14. CASE runtime_resume
  BY <1>1, <1>5, <1>14, MainOps DEF runtime_resume
<1>15. CASE resume
  BY <1>1, <1>5, <1>15, MainOps DEF resume
<1>16. CASE rtl_open
  BY <1>1, <1>5, <1>16, MainOps DEF rtl_open
<1>17. CASE rtl8169_close
  BY <1>1, <1>3, <1>5, <1>17, MainOps DEF rtl8169_close
<1>18. CASE phylib
  <2>1. PICK s \in LinkScripts(mac_version) : Start("phy", s)
    <3> DEFINE fast  == rtl_link_chg_patch(mac_version, 1000)
               slow  == rtl_link_chg_patch(mac_version, 10)
               bmcr  == WriteBMCR(mac_version, FALSE)
               down  == link_down(mac_version, board)
               downs == {link_down(mac_version, b) : b \in Boards(mac_version)}
               from  == {fast, slow, down} \ {<<>>}
    <3>1. down \in downs BY <1>1
    <3>2. LinkScripts(mac_version) = {fast, slow, bmcr, Paged("a43")} \cup downs
      BY DEF LinkScripts
    <3>3. (\E s \in from : Start("phy", s)) \/ Start("phy", bmcr) \/ Start("phy", Paged("a43"))
      BY <1>18, Zenon DEF phylib
    <3> HIDE DEF fast, slow, bmcr, downs, down
    <3>4. from \cup {bmcr, Paged("a43")} \subseteq LinkScripts(mac_version) BY <3>1, <3>2
    <3> HIDE DEF from
    <3>5. QED BY <3>3, <3>4
  <2>2. s \in Scripts BY <1>1, LinkInScripts
  <2>3. jumbo' = jumbo /\ saved_wolopts' = saved_wolopts /\ running' = running
    BY <1>18 DEF phylib, soft
  <2>4. QED BY <1>1, <1>2, <2>1, <2>2, <2>3 DEF Start, Begins
<1>19. QED BY <1>6, <1>7, <1>8, <1>9, <1>10, <1>11, <1>12, <1>13, <1>14, <1>15, <1>16, <1>17, <1>18
     DEF Operation

(* The invariant holds when the first resume starts.                         *)
LEMMA Initially == Init => IInv
<1> SUFFICES ASSUME Init PROVE IInv
  OBVIOUS
<1>1. /\ mac_version \in Chips /\ board \in Boards(mac_version)
      /\ jumbo = FALSE /\ saved_wolopts = {} /\ {} \in WolChoices /\ running = TRUE
  BY ScriptAssumption DEF Init
<1> DEFINE first(t) == If(t = "main",
               rtl8169_resume(mac_version, board, {}, FALSE, TRUE))
<1>2. first("main") \in Scripts
  BY <1>1, MainOps, MainInScripts DEF If
<1>3. first("phy") \in Scripts /\ first("task") \in Scripts
  BY DEF If, Scripts
<1>4. script = [t \in Threads |-> first(t)] BY DEF Init
<1> HIDE DEF first
<1>5. script \in [Threads -> Scripts] BY <1>2, <1>3, <1>4 DEF Threads
<1>6. pc = [t \in Threads |-> 1] BY DEF Init
<1>7. \A t \in Threads : Disciplined(script[t]) BY <1>5, ScriptAssumption
<1>8. \A t \in Threads : script[t] \in Seq(Accesses) /\ Len(script[t]) \in Nat
  BY <1>7 DEF Disciplined
<1>9. Places
  <2>1. \A t \in Threads : pc[t] = 1 /\ pc[t] \in 1..(Len(script[t]) + 1)
    BY <1>6, <1>8
  <2>2. pc \in [Threads -> Nat] BY <1>6
  <2>3. jumbo \in BOOLEAN /\ saved_wolopts \in WolChoices /\ running \in BOOLEAN BY <1>1
  <2>4. QED BY <1>1, <1>5, <2>1, <2>2, <2>3 DEF Places
<1>10. Tables BY DEF Init, Tables
<1>11. Counted
  <2>1. Inside("main") = 0 /\ Inside("task") = 0 /\ Inside("phy") = 0
    BY <1>6, NothingAtFirst DEF Inside, Threads
  <2>2. QED BY <2>1 DEF Counted, Init
<1>12. Owned
  <2>1. \A l \in Locks, t \in Threads : ~Holds(script[t], l, pc[t])
    BY <1>6, NothingAtFirst
  <2>2. owner = [l \in Locks |-> Nobody] BY DEF Init
  <2>3. Nobody \notin Threads BY DEF Nobody, Threads
  <2>4. QED BY <2>1, <2>2, <2>3 DEF Owned
<1>13. GuardedKept
  <2> SUFFICES ASSUME NEW t \in Threads, ~Idle(t)
               PROVE  ~At(t, "ocp_data") /\ ~At(t, "ocp_write")
                        /\ ~(At(t, "wr") /\ Now(t).reg \in Guarded)
    BY DEF GuardedKept, At
  <2>1. GuardedAt(script[t], 1)
    BY <1>6, <1>9, Midway
  <2>2. QED BY <1>6, <2>1 DEF GuardedAt, Follows, At, Now
<1>14. QED BY <1>9, <1>10, <1>11, <1>12, <1>13 DEF IInv

(* Whatever the threads interleave: the configuration registers are          *)
(* unlocked exactly while a thread is between an unlock and its lock, and    *)
(* what was read under a lock is what the register still holds.              *)
THEOREM InductiveInvariant == Spec => []IInv
<1>1. ASSUME IInv, [Next]_vars PROVE IInv'
  <2>1. CASE \E t \in Threads : Access(t)
    <3>1. PICK t \in Threads : Access(t) BY <2>1
    <3>2. Places' BY <1>1, <3>1, PlacesKept DEF IInv
    <3>3. Tables' BY <1>1, <3>1, AccessMemory DEF IInv
    <3>4. Counted' BY <1>1, <3>1, CountedKept DEF IInv
    <3>5. Owned' BY <1>1, <3>1, OwnedKept DEF IInv
    <3>6. GuardedKept' BY <1>1, <3>1, KeptByAccess DEF IInv
    <3>7. QED BY <3>2, <3>3, <3>4, <3>5, <3>6 DEF IInv
  <2>2. CASE Operation
    BY <1>1, <2>2, KeptByOps
  <2>3. CASE UNCHANGED vars
    BY <1>1, <2>3 DEF IInv, Places, Tables, Counted, Owned, GuardedKept, Inside, At, Now, Idle,
       vars, config, windows, cfglock, soft
  <2>4. QED BY <1>1, <2>1, <2>2, <2>3 DEF Next, Operation, Done
<1>2. QED BY Initially, <1>1, PTL DEF Spec

(* Whatever the threads interleave on any chip, a configuration            *)
(* register is only written while the chip has them unlocked, and at rest  *)
(* they are locked: rtl_unlock_config_regs and rtl_lock_config_regs nest.  *)
THEOREM ConfigOpenOnWrite == Spec => []ConfigWritesLand
<1>1. IInv => ConfigWritesLand
  <2> SUFFICES ASSUME IInv PROVE ConfigWritesLand
    OBVIOUS
  <2>1. Places /\ Counted BY DEF IInv
  <2>2. \A t \in Threads : Opened(script[t], pc[t]) => cfg9346 = "unlocked"
    BY <2>1 DEF Counted, Inside, Threads
  <2>3. ASSUME NEW t \in Threads, At(t, "wr") \/ At(t, "put"), Now(t).reg \in EepromRegs
        PROVE  cfg9346 = "unlocked"
    <3>1. ~Idle(t) BY <2>3 DEF At
    <3>2. GuardedAt(script[t], pc[t]) BY <2>1, <3>1, Midway
    <3>3. QED BY <2>2, <2>3, <3>2 DEF GuardedAt, At, Now
  <2>4. ASSUME Rest PROVE cfg9346 = "locked" /\ cfg9346_usage_count = 0
    <3>1. /\ ~Opened(script["main"], pc["main"]) /\ ~Opened(script["task"], pc["task"])
          /\ ~Opened(script["phy"], pc["phy"])
      BY <2>1, <2>4, Midway DEF Rest, Threads
    <3>2. QED BY <2>1, <3>1 DEF Counted, Inside
  <2>5. QED BY <2>3, <2>4 DEF ConfigWritesLand
<1>2. QED BY <1>1, InductiveInvariant, PTL

(* Whatever the threads interleave on any chip, no update of Config2,      *)
(* Config5 or a MAC OCP register under its lock is lost, and the OCP       *)
(* window shows the register its reader asked for.                         *)
THEOREM GuardedNotLost == Spec => []GuardedKept
BY InductiveInvariant, PTL DEF IInv

-----------------------------------------------------------------------------
(* What the registers hold.                                                 *)
(* What is asked of the device, with ASPM allowed or not: where the driver   *)
(* sets ASPM up (32 and later), what the state of the device says.  Like it  *)
(* are the states that differ in the receive filter alone.                   *)
Manages == mac_version >= 32 /\ board.aspm_manageable /\ mac_version \notin {42, 43}
Device ==
    [v |-> mac_version, board |-> board, aspm |-> Manages, wol |-> wol,
     up |-> power = "up" /\ running, deaf |-> deaf, promisc |-> promisc, rxall |-> rxall]
Like(q) ==
    /\ Suits(q) /\ q.v = mac_version /\ q.board = board /\ q.wol = wol
    /\ q.up = (power = "up" /\ running) /\ q.deaf = deaf

(* What the threads are in the middle of.                                    *)
Typed ==
    /\ mem \in [Registers -> SUBSET Bits] /\ eridr \in SUBSET Bits
    /\ tmp \in [Threads -> SUBSET Bits] /\ arg \in [Threads -> SUBSET Bits]
    /\ wol \in SUBSET WolOpts /\ promisc \in BOOLEAN /\ rxall \in BOOLEAN
    /\ running \in BOOLEAN /\ deaf \in BOOLEAN

Got(t, k) == pc[t] > k /\ script[t][pc[t] - k].op = "get"
ArgOk(t) ==
    /\ ~Got(t, 1) /\ ~Got(t, 2) => arg[t] = {}
    /\ \A k \in {1, 2} : Got(t, k) /\ ~TwoResets => arg[t] = Fetched(Device, script[t][pc[t] - k].reg)

Held(t) ==
    /\ At(t, "eri_data") => eridr = mem[Now(t).reg] \/ faults # {}
    /\ At(t, "wr") \/ (At(t, "eridr") /\ Now(t).clear # Bits)
         => tmp[t] = mem[Now(t).reg] \/ Exposed(Now(t).reg)
    /\ At(t, "eri_write") =>
         \/ Exposed(Now(t).reg)
         \/ /\ tmp[t] = eridr
            /\ \A b \in Bits : b \in eridr <=> \/ b \in Now(t).set
                                               \/ b \in mem[Now(t).reg] /\ b \notin Now(t).clear

Apart ==
    /\ "overlap" \in faults \/ \A t, u \in Threads : t = u \/ Idle(t) \/ Idle(u)
    /\ "resume" \in faults \/ Idle("task")

(* What the threads run spoils nothing.                                      *)
MainOk ==
    /\ \A q : Like(q) => Calm(q, script["main"])
    /\ mac_version >= 32 =>
         Sheltered(script["main"]) \/ (mac_version \in {32, 33} /\ (power # "up" \/ ~running))
TaskLike(s) ==
    /\ \A q : Suits(q) /\ q.v = mac_version /\ q.board = board => Calm(q, s)
    /\ mac_version >= 32 => Sheltered(s)
LinkLike(s) == TaskLike(s) /\ (mac_version < 61 => EriOnly(s))
LinkOk == TaskLike(script["task"]) /\ LinkLike(script["phy"])

(* Every bit that is asked for is as it shall be, unless a thread is still   *)
(* about to write it; what was switched off for the PHY of the link is off.  *)
Settled ==
    \A r, b :
        Asked(Device, r, b) /\ ~Exposed(r) /\ (\A t \in Threads : Clean(script[t], pc[t], r, b))
          => (Has(r, b) <=> Shall(Device, r, b))
StaysOff ==
    \A t \in Threads : ~TwoResets /\ ~Idle(t) =>
        \A r, b : Aspm(r, b) /\ Cleared(script[t], pc[t], r, b) => ~Has(r, b)

WolSaved == power # "runtime" => wol = saved_wolopts

Midst == Typed /\ (\A t \in Threads : ArgOk(t) /\ Held(t)) /\ Apart /\ MainOk /\ LinkOk

-----------------------------------------------------------------------------
(* What an access may do to the registers and to what the threads have read. *)
Data(t) ==
    /\ t \in Threads /\ ~Idle(t) /\ UNCHANGED <<config, script, soft>>
    /\ At(t, "wr") => /\ mem' = [mem EXCEPT ![Now(t).reg] = Changed(t)]
                      /\ arg' = [arg EXCEPT ![t] = {}]
    /\ At(t, "put") => mem' = [mem EXCEPT ![Now(t).reg] = Now(t).set]
    /\ At(t, "eri_write") =>
         mem' = IF Now(t).reg = "eri" THEN mem ELSE [mem EXCEPT ![Now(t).reg] = eridr]
    /\ At(t, "ocp_write") => mem' = [mem EXCEPT ![Now(t).reg] = Changed(t)]
    /\ Now(t).op \notin {"wr", "put", "eri_write", "ocp_write"} => mem' = mem
    /\ At(t, "rd") => tmp'[t] = mem[Now(t).reg]
    /\ At(t, "eri_read") => eridr' = mem[Now(t).reg]
    /\ At(t, "eri_data") => tmp'[t] = eridr \/ faults' # {}
    /\ At(t, "eridr") => eridr' = Changed(t) /\ tmp'[t] = Changed(t)
    /\ At(t, "get") =>
         arg' = [arg EXCEPT ![t] = IF Now(t).reg = "mode" THEN RxMode ELSE RxErrors]
    /\ Now(t).op \notin {"get", "wr"} => arg' = arg
    /\ \A u \in Threads : u # t => tmp'[u] = tmp[u]
    /\ faults \subseteq faults' /\ \A f \in {"overlap", "resume"} : f \in faults' => f \in faults

(* A busy thread is at an access of its script.                              *)
LEMMA NowIs ==
    ASSUME Places, NEW t \in Threads, ~Idle(t)
    PROVE  /\ Now(t) \in Accesses /\ Now(t) = script[t][pc[t]] /\ pc[t] \in 1 .. Len(script[t])
           /\ \A op : At(t, op) <=> Now(t).op = op
<1>1. script[t] \in Seq(Accesses) /\ pc[t] \in 1 .. Len(script[t])
  BY Midway
<1> QED BY <1>1 DEF Now, At

(* The scripts suit the device as it is.                                     *)
LEMMA DeviceSuits ==
    ASSUME Places
    PROVE  /\ mac_version \in Versions /\ mac_version \in Nat /\ board \in Boards(mac_version)
           /\ Suits(Device) /\ Like(Device)
           /\ Device.v = mac_version /\ Device.board = board /\ Device.wol = wol
           /\ Device.up = (power = "up" /\ running) /\ Device.deaf = deaf
           /\ Device.promisc = promisc /\ Device.rxall = rxall /\ Device.aspm = Manages
<1>1. mac_version \in Versions /\ board \in Boards(mac_version)
  BY ChipAssumption DEF Places
<1>2. mac_version \in Nat
  BY <1>1 DEF Versions
<1>3. /\ Device.v = mac_version /\ Device.board = board /\ Device.wol = wol
      /\ Device.up = (power = "up" /\ running) /\ Device.deaf = deaf
      /\ Device.promisc = promisc /\ Device.rxall = rxall /\ Device.aspm = Manages
  BY DEF Device
<1>4. mac_version >= 32 => (Manages <=> board.aspm_manageable /\ mac_version \notin {42, 43})
  BY DEF Manages
<1>5. Suits(Device)
  BY <1>1, <1>3, <1>4 DEF Suits
<1> QED BY <1>1, <1>2, <1>3, <1>5 DEF Like

(* What the threads run spoils nothing of the device as it is.               *)
LEMMA ScriptsCalm ==
    ASSUME Places, MainOk, LinkOk, NEW t \in Threads
    PROVE  /\ Calm(Device, script[t]) /\ Fresh(script[t])
           /\ ~Idle(t) => ReadAt(script[t], pc[t]) /\ FetchedAt(script[t], pc[t])
<1>1. Suits(Device) /\ Like(Device) /\ Device.v = mac_version /\ Device.board = board
  BY DeviceSuits
<1>3. Calm(Device, script["main"])
  BY <1>1 DEF MainOk
<1>4. Calm(Device, script["phy"]) /\ Calm(Device, script["task"])
  BY <1>1 DEF LinkOk, LinkLike, TaskLike
<1>5. Calm(Device, script[t])
  BY <1>3, <1>4 DEF Threads
<1>6. Fresh(script[t])
  BY <1>5 DEF Calm
<1>7. ~Idle(t) => pc[t] \in 1 .. Len(script[t])
  BY Midway
<1> QED BY <1>5, <1>6, <1>7 DEF Fresh

(* An access does what Data says, and the types stay.                        *)
LEMMA AccessData ==
    ASSUME Places, Typed, MainOk, LinkOk, NEW t \in Threads, Access(t)
    PROVE  Data(t) /\ Typed'
<1>1. Moves(t)
  BY AccessMoves
<1>2. ~Idle(t)
  BY <1>1 DEF Moves
<1>3. /\ Now(t) \in Accesses /\ Now(t) = script[t][pc[t]] /\ \A op : At(t, op) <=> Now(t).op = op
  BY <1>2, NowIs
<1>4. Now(t).clear \in SUBSET Bits /\ Now(t).set \in SUBSET Bits
  BY <1>3 DEF Accesses
<1>5. Changed(t) \in SUBSET Bits
  BY <1>4 DEF Changed, Typed
<1>6. RxMode \in SUBSET Bits /\ RxErrors \in SUBSET Bits
  BY DEF RxMode, RxErrors, SetIf, Bits
<1>7. {} \in SUBSET Bits /\ Bits \in SUBSET Bits
  OBVIOUS
<1>8. UNCHANGED <<config, script, soft>>
  BY DEF Access, rtl_unlock_config_regs, rtl_lock_config_regs, Acquire, Release, Read, Write,
     Overwrite, Get, Use, EriAskRead, EriGetData, EriTimeout, EriPutData, EriAskWrite,
     OcpAddress, OcpData, OcpWrite, PhyStop, PhyStart, SelectPage, PhyAccess, phy_select_page,
     phy_restore_page, FwSelect, FwWrite, FwBase, Kept, Step
<1>9. wol' = wol /\ promisc' = promisc /\ rxall' = rxall /\ running' = running /\ deaf' = deaf
  BY <1>8 DEF soft
<1>10. ReadAt(script[t], pc[t])
  BY <1>2, ScriptsCalm
<1>11. Now(t).op \in {"rd", "eri_read"} => mem[Now(t).reg] \in SUBSET Bits
  <2>1. Now(t).op \in {"rd", "eri_read"} => Now(t).reg \in PlainRegs \cup EriRegs
    BY <1>3, <1>10 DEF ReadAt
  <2>2. PlainRegs \cup EriRegs \subseteq Registers
    BY DEF PlainRegs, EriRegs, Registers
  <2> QED BY <2>1, <2>2 DEF Typed
<1>12. CASE Write(t) \/ OcpWrite(t)
  <2>1. mem' \in [Registers -> SUBSET Bits] /\ tmp' \in [Threads -> SUBSET Bits] /\ arg' \in [Threads -> SUBSET Bits]
    BY <1>5, <1>7, <1>12 DEF Write, OcpWrite, Typed
  <2> QED BY <1>2, <1>3, <1>8, <1>9, <1>12, <2>1 DEF Write, OcpWrite, Typed, Data, windows
<1>13. CASE Overwrite(t)
  <2>1. mem' \in [Registers -> SUBSET Bits]
    BY <1>4, <1>13 DEF Overwrite, Typed
  <2> QED BY <1>2, <1>3, <1>8, <1>9, <1>13, <2>1 DEF Overwrite, Typed, Data, windows
<1>14. CASE EriAskWrite(t)
  <2>1. mem' \in [Registers -> SUBSET Bits] /\ tmp' \in [Threads -> SUBSET Bits]
    BY <1>7, <1>14 DEF EriAskWrite, Typed
  <2> QED BY <1>2, <1>3, <1>8, <1>9, <1>14, <2>1 DEF EriAskWrite, Typed, Data, windows
<1>15. CASE Read(t) \/ EriAskRead(t)
  <2>1. mem[Now(t).reg] \in SUBSET Bits
    BY <1>3, <1>11, <1>15 DEF Read, EriAskRead
  <2> QED BY <1>2, <1>3, <1>8, <1>9, <1>15, <2>1 DEF Read, EriAskRead, Typed, Data, windows
<1>16. CASE Get(t)
  <2>1. arg' \in [Threads -> SUBSET Bits]
    BY <1>6, <1>16 DEF Get, Typed
  <2> QED BY <1>2, <1>3, <1>8, <1>9, <1>16, <2>1 DEF Get, Typed, Data, windows
<1>17. CASE EriGetData(t) \/ EriTimeout(t)
  <2>1. tmp' \in [Threads -> SUBSET Bits]
    BY <1>7, <1>17 DEF EriGetData, EriTimeout, Typed
  <2>2. faults \subseteq faults' /\ \A f \in {"overlap", "resume"} : f \in faults' => f \in faults
    BY <1>17 DEF EriGetData, EriTimeout
  <2>3. tmp'[t] = eridr \/ faults' # {}
    BY <1>17 DEF EriGetData, EriTimeout, Typed
  <2> QED BY <1>2, <1>3, <1>8, <1>9, <1>17, <2>1, <2>2, <2>3 DEF EriGetData, EriTimeout, Typed, Data, windows
<1>18. CASE EriPutData(t)
  <2>1. tmp' \in [Threads -> SUBSET Bits] /\ eridr' \in SUBSET Bits
    BY <1>5, <1>18 DEF EriPutData, Typed
  <2> QED BY <1>2, <1>3, <1>8, <1>9, <1>18, <2>1 DEF EriPutData, Typed, Data, windows
<1>19. CASE Use(t) \/ OcpAddress(t)
  BY <1>2, <1>3, <1>8, <1>9, <1>19 DEF Use, OcpAddress, Typed, Data, windows
<1>20. CASE OcpData(t)
  <2>1. tmp' \in [Threads -> SUBSET Bits]
    BY <1>7, <1>20 DEF OcpData, Typed
  <2> QED BY <1>2, <1>3, <1>8, <1>9, <1>20, <2>1 DEF OcpData, Typed, Data, windows
<1>21. CASE rtl_unlock_config_regs(t) \/ rtl_lock_config_regs(t) \/ Acquire(t) \/ Release(t)
             \/ PhyStop(t) \/ PhyStart(t) \/ SelectPage(t) \/ PhyAccess(t) \/ phy_select_page(t)
             \/ phy_restore_page(t) \/ FwSelect(t) \/ FwWrite(t) \/ FwBase(t)
  <2>1. UNCHANGED <<mem, eridr, tmp, arg, faults>> /\ Now(t).op \notin {"wr", "put", "eri_write",
           "ocp_write", "rd", "eri_read", "eri_data", "eridr", "get"}
    BY <1>3, <1>21 DEF rtl_unlock_config_regs, rtl_lock_config_regs, Acquire, Release,
       PhyStop, PhyStart, SelectPage, PhyAccess, phy_select_page, phy_restore_page,
       FwSelect, FwWrite, FwBase, Kept, windows
  <2> QED BY <1>2, <1>3, <1>8, <1>9, <2>1 DEF Typed, Data
<1> QED BY <1>12, <1>13, <1>14, <1>15, <1>16, <1>17, <1>18, <1>19, <1>20, <1>21 DEF Access

-----------------------------------------------------------------------------
(* What stays as it is in an access.                                         *)
LEMMA DeviceStays ==
    ASSUME NEW t, Data(t)
    PROVE  /\ Device' = Device /\ (\A q : Like(q)' <=> Like(q)) /\ script' = script
           /\ mac_version' = mac_version /\ board' = board /\ power' = power /\ running' = running
           /\ TwoResets' <=> TwoResets
           /\ \A r : Exposed(r) => Exposed(r)'
<1>1. UNCHANGED <<mac_version, board, script, wol, power, promisc, rxall, saved_wolopts, running, deaf>>
  BY DEF Data, config, soft
<1>2. faults \subseteq faults' /\ \A f \in {"overlap", "resume"} : f \in faults' => f \in faults
  BY DEF Data
<1>3. Manages' = Manages
  BY <1>1 DEF Manages
<1>4. Device' = Device /\ \A q : Like(q)' <=> Like(q)
  BY <1>1, <1>3 DEF Device, Like
<1>5. TwoResets' <=> TwoResets
  BY <1>1, <1>2 DEF TwoResets
<1>6. \A r : Exposed(r) => Exposed(r)'
  BY <1>1, <1>2, <1>5 DEF Exposed
<1> QED BY <1>1, <1>4, <1>5, <1>6

(* Threads overlap only where faults says so.                                *)
LEMMA ApartKept ==
    ASSUME Places, Apart, NEW t \in Threads, Access(t), Data(t) PROVE Apart'
<1>1. Moves(t)
  BY AccessMoves
<1>2. \A u \in Threads : u # t => (Idle(u)' <=> Idle(u))
  BY <1>1, After
<1>3. ~Idle(t) /\ faults \subseteq faults' /\ "task" \in Threads
  BY DEF Data, Threads
<1>4. "resume" \in faults' \/ Idle("task")'
  BY <1>2, <1>3 DEF Apart
<1>5. "overlap" \in faults' \/ \A u, w \in Threads : u = w \/ Idle(u)' \/ Idle(w)'
  BY <1>2, <1>3 DEF Apart
<1> QED BY <1>4, <1>5 DEF Apart

(* What a thread fetched is what the network core asks now, until it is      *)
(* merged.                                                                   *)
LEMMA ArgKept ==
    ASSUME Places, Typed, MainOk, LinkOk, \A u \in Threads : ArgOk(u),
           NEW t \in Threads, Access(t), Data(t), NEW u \in Threads
    PROVE  ArgOk(u)'
<1>1. Moves(t)
  BY AccessMoves
<1>2. script' = script /\ pc'[t] = pc[t] + 1 /\ \A w \in Threads : w # t => pc'[w] = pc[w]
  BY <1>1, After
<1>3. Device' = Device /\ (TwoResets' <=> TwoResets)
  BY DeviceStays
<1>4. ~Idle(t) /\ pc[t] \in 1 .. Len(script[t]) /\ FetchedAt(script[t], pc[t])
      /\ Now(t) = script[t][pc[t]] /\ Fresh(script[t])
  BY ScriptsCalm, NowIs DEF Data
<1>5. ArgOk(u) /\ ArgOk(t)
  OBVIOUS
<1>6. \A op : At(t, op) <=> Now(t).op = op
  BY <1>4, NowIs
<1>7. arg \in [Threads -> SUBSET Bits]
  BY DEF Typed
<1>8. CASE u # t
  <2>1. arg'[u] = arg[u]
    <3>1. CASE Now(t).op = "get"
      BY <1>6, <1>7, <1>8, <3>1 DEF Data
    <3>2. CASE Now(t).op = "wr"
      BY <1>6, <1>7, <1>8, <3>2 DEF Data
    <3>3. CASE Now(t).op \notin {"get", "wr"}
      BY <3>3 DEF Data
    <3> QED BY <3>1, <3>2, <3>3
  <2>2. \A k : Got(u, k)' <=> Got(u, k)
    BY <1>2, <1>8 DEF Got
  <2> QED BY <1>2, <1>3, <1>5, <1>8, <2>1, <2>2 DEF ArgOk
<1>9. CASE u = t
  <2> DEFINE s == script[t]
             i == pc[t]
  <2>1. i \in Nat /\ i >= 1 /\ pc'[t] = i + 1 /\ s[i] = Now(t)
    BY <1>2, <1>4
  <2>2. Got(t, 1)' <=> Now(t).op = "get"
    BY <1>2, <2>1 DEF Got
  <2>3. Got(t, 2)' <=> Got(t, 1)
    <3>1. (i + 1) - 2 = i - 1 /\ (i + 1 > 2 <=> i > 1)
      BY <2>1
    <3> QED BY <1>2, <2>1, <3>1 DEF Got
  <2>4. Got(t, 1) => Now(t).op = "rd" /\ i - 1 \in 1 .. Len(s)
    <3> SUFFICES ASSUME Got(t, 1) PROVE Now(t).op = "rd" /\ i - 1 \in 1 .. Len(s)
      OBVIOUS
    <3>1. i - 1 \in 1 .. Len(s) /\ s[i - 1].op = "get" /\ (i - 1) + 1 = i
      BY <1>4 DEF Got
    <3>2. FetchedAt(s, i - 1)
      BY <1>4, <3>1 DEF Fresh
    <3> QED BY <2>1, <3>1, <3>2 DEF FetchedAt
  <2>5. Got(t, 2) => Now(t).op = "wr"
    <3> SUFFICES ASSUME Got(t, 2) PROVE Now(t).op = "wr"
      OBVIOUS
    <3>1. i - 2 \in 1 .. Len(s) /\ s[i - 2].op = "get" /\ (i - 2) + 2 = i
      BY <1>4 DEF Got
    <3>2. FetchedAt(s, i - 2)
      BY <1>4, <3>1 DEF Fresh
    <3> QED BY <2>1, <3>1, <3>2 DEF FetchedAt, Merges
  <2> HIDE DEF s, i
  <2>6. CASE Now(t).op = "get"
    <3>1. arg'[t] = IF Now(t).reg = "mode" THEN RxMode ELSE RxErrors
      BY <1>6, <1>7, <2>6 DEF Data
    <3>2. arg'[t] = Fetched(Device, Now(t).reg)
      BY <3>1, DeviceSuits DEF Fetched, RxMode, RxErrors, Mode, Errors
    <3>3. Got(t, 1)' /\ ~Got(t, 2)'
      BY <2>2, <2>3, <2>4, <2>6
    <3>4. script'[t][pc'[t] - 1] = Now(t)
      BY <1>2, <2>1 DEF s, i
    <3> QED BY <1>3, <1>9, <3>2, <3>3, <3>4 DEF ArgOk
  <2>7. CASE Got(t, 1)
    <3>1. Now(t).op = "rd" /\ ~Got(t, 1)' /\ Got(t, 2)'
      BY <2>2, <2>3, <2>4, <2>7
    <3>2. arg'[t] = arg[t]
      BY <3>1 DEF Data
    <3>3. script'[t][pc'[t] - 2] = script[t][pc[t] - 1]
      <4>1. (i + 1) - 2 = i - 1
        BY <2>1
      <4> QED BY <1>2, <2>1, <4>1 DEF s, i
    <3> QED BY <1>3, <1>5, <1>9, <2>7, <3>1, <3>2, <3>3 DEF ArgOk
  <2>8. CASE Now(t).op # "get" /\ ~Got(t, 1)
    <3>1. ~Got(t, 1)' /\ ~Got(t, 2)'
      BY <2>2, <2>3, <2>8
    <3>2. arg'[t] = {}
      <4>1. CASE Now(t).op = "wr"
        BY <1>6, <1>7, <4>1 DEF Data
      <4>2. CASE Now(t).op # "wr"
        BY <1>5, <2>5, <2>8, <4>2 DEF ArgOk, Data
      <4> QED BY <4>1, <4>2
    <3> QED BY <1>9, <3>1, <3>2 DEF ArgOk
  <2> QED BY <2>6, <2>7, <2>8
<1> QED BY <1>8, <1>9

(* Nothing is fetched for a change of another register.                      *)
LEMMA NoArg ==
    ASSUME Places, MainOk, LinkOk, NEW t \in Threads, ArgOk(t), ~Idle(t), Now(t).op \notin {"rd", "wr"}
    PROVE  arg[t] = {}
<1> DEFINE s == script[t]
           i == pc[t]
<1>1. i \in 1 .. Len(s) /\ Now(t) = s[i] /\ Fresh(s)
  BY NowIs, ScriptsCalm
<1>2. ~Got(t, 1)
  <2> SUFFICES ASSUME Got(t, 1) PROVE FALSE
    OBVIOUS
  <2>1. i - 1 \in 1 .. Len(s) /\ s[i - 1].op = "get" /\ (i - 1) + 1 = i
    BY <1>1 DEF Got
  <2>2. FetchedAt(s, i - 1)
    BY <1>1, <2>1 DEF Fresh
  <2> QED BY <1>1, <2>1, <2>2 DEF FetchedAt
<1>3. ~Got(t, 2)
  <2> SUFFICES ASSUME Got(t, 2) PROVE FALSE
    OBVIOUS
  <2>1. i - 2 \in 1 .. Len(s) /\ s[i - 2].op = "get" /\ (i - 2) + 2 = i
    BY <1>1 DEF Got
  <2>2. FetchedAt(s, i - 2)
    BY <1>1, <2>1 DEF Fresh
  <2> QED BY <1>1, <2>1, <2>2 DEF FetchedAt, Merges
<1> QED BY <1>2, <1>3 DEF ArgOk

-----------------------------------------------------------------------------
(* phylib's thread writes registers of the ERI window alone, but on an       *)
(* RTL8125.                                                                  *)
LEMMA LinkWrites ==
    ASSUME Places, MainOk, LinkOk, mac_version < 61, ~Idle("phy")
    PROVE  /\ Now("phy").op \notin {"wr", "put", "get", "ocp_write", "touch"}
           /\ Now("phy").op = "eri_write" => Now("phy").reg \in EriRegs
<1>1. "phy" \in Threads
  BY DEF Threads
<1>2. pc["phy"] \in 1 .. Len(script["phy"]) /\ Now("phy") = script["phy"][pc["phy"]]
  BY <1>1, NowIs
<1>3. ReadAt(script["phy"], pc["phy"]) /\ EriOnly(script["phy"])
  BY <1>1, ScriptsCalm DEF LinkOk, LinkLike
<1> QED BY <1>2, <1>3 DEF EriOnly, ReadAt

(* An access of one thread does not spoil what another has read.             *)
LEMMA HeldBeside ==
    ASSUME Places, Typed, MainOk, LinkOk, Apart, GuardedKept', NEW t \in Threads, Access(t), Data(t),
           NEW u \in Threads, u # t, Held(u)
    PROVE  Held(u)'
<1>1. Moves(t)
  BY AccessMoves
<1>2. script' = script /\ pc'[u] = pc[u] /\ (Idle(u)' <=> Idle(u))
  BY <1>1, After
<1>3. Now(u)' = Now(u) /\ \A op : At(u, op)' <=> At(u, op)
  BY <1>2 DEF Now, At
<1>4. /\ mac_version' = mac_version /\ mac_version \in Nat
      /\ \A r : Exposed(r) => Exposed(r)'
      /\ TwoResets' <=> TwoResets
  BY DeviceStays, DeviceSuits
<1>5. ~Idle(t) /\ faults \subseteq faults' /\ tmp'[u] = tmp[u]
  BY DEF Data
<1>6. CASE Idle(u)
  BY <1>2, <1>6 DEF Held, At
<1>7. CASE ~Idle(u)
  <2>1. "overlap" \in faults'
    BY <1>5, <1>7 DEF Apart, Threads
  <2>2. ReadAt(script[u], pc[u]) /\ Now(u) = script[u][pc[u]] /\ \A op : At(u, op) <=> Now(u).op = op
    BY <1>7, ScriptsCalm, NowIs
  <2>3. \A r \in EriRegs : Exposed(r)'
    BY <2>1 DEF Exposed
  <2>4. At(u, "eridr") /\ Now(u).clear # Bits => Now(u).reg \in EriRegs
    BY <2>2 DEF ReadAt, Follows
  <2>5. At(u, "eri_write") => Now(u).reg \in EriRegs
    BY <2>2 DEF ReadAt
  <2>6. At(u, "wr") => tmp'[u] = mem'[Now(u).reg] \/ Exposed(Now(u).reg)'
    <3> SUFFICES ASSUME At(u, "wr") PROVE tmp'[u] = mem'[Now(u).reg] \/ Exposed(Now(u).reg)'
      OBVIOUS
    <3>1. Now(u).reg \in PlainRegs
      BY <2>2 DEF ReadAt
    <3>2. CASE TwoResets
      <4>1. CASE Now(u).reg \in Guarded
        BY <1>3, <4>1 DEF GuardedKept
      <4>2. CASE Now(u).reg \notin Guarded
        BY <1>3, <1>4, <3>2, <4>2 DEF Exposed
      <4> QED BY <4>1, <4>2
    <3>3. CASE ~TwoResets
      <4>0. mac_version < 61 /\ Idle("task")
        BY <1>4, <1>5, <1>7, <3>3 DEF Apart, TwoResets
      <4>1. u = "main" /\ t = "phy"
        BY <1>5, <1>7, <2>2, <4>0, LinkWrites DEF Threads
      <4>2. Now(t).op \notin {"wr", "put", "ocp_write"} /\ (Now(t).op = "eri_write" => Now(t).reg \in EriRegs)
        BY <1>5, <4>0, <4>1, LinkWrites
      <4>3. \A op : At(t, op) <=> Now(t).op = op
        BY <1>5, NowIs
      <4>4. mem'[Now(u).reg] = mem[Now(u).reg]
        <5>1. CASE Now(t).op = "eri_write"
          <6>1. Now(t).reg # Now(u).reg
            BY <3>1, <4>2, <5>1 DEF PlainRegs
          <6>2. Now(u).reg \in Registers
            BY <3>1 DEF PlainRegs
          <6> QED BY <4>3, <5>1, <6>1, <6>2 DEF Data, Typed
        <5>2. CASE Now(t).op # "eri_write"
          BY <4>2, <5>2 DEF Data
        <5> QED BY <5>1, <5>2
      <4> QED BY <1>3, <1>4, <1>5, <4>4 DEF Held
    <3> QED BY <3>2, <3>3
  <2> QED BY <1>3, <2>1, <2>3, <2>4, <2>5, <2>6 DEF Held
<1> QED BY <1>6, <1>7

(* What a thread reads, it holds until it writes it back.                    *)
LEMMA HeldOwn ==
    ASSUME Places, Typed, MainOk, LinkOk, NEW t \in Threads, Access(t), Data(t), Held(t), ArgOk(t)
    PROVE  Held(t)'
<1> DEFINE s == script[t]
           i == pc[t]
<1>1. Moves(t)
  BY AccessMoves
<1>2. script' = script /\ pc'[t] = i + 1
  BY <1>1, After
<1>3. ~Idle(t) /\ i \in 1 .. Len(s) /\ Now(t) = s[i] /\ Fresh(s) /\ s \in Seq(Accesses)
      /\ \A op : At(t, op) <=> Now(t).op = op
  BY ScriptsCalm, NowIs DEF Data, Fresh
<1>4. \A r : Exposed(r) => Exposed(r)'
  BY DeviceStays
<1>5. CASE i + 1 \notin 1 .. Len(s)
  <2>1. Idle(t)'
    BY <1>2, <1>3, <1>5 DEF Idle
  <2> QED BY <2>1 DEF Held, At
<1>6. CASE i + 1 \in 1 .. Len(s)
  <2>0. PICK a : a = s[i + 1]
    OBVIOUS
  <2>1. ReadAt(s, i + 1)
    BY <1>3, <1>6 DEF Fresh
  <2>2. Now(t)' = a /\ (\A op : At(t, op)' => s[i + 1].op = op)
    BY <1>2, <2>0 DEF Now, At
  <2>3. \A op : Follows(s, i + 1, op) => Now(t).op = op /\ Now(t).reg = a.reg
    BY <1>3, <2>0 DEF Follows
  <2> HIDE DEF s, i
  <2> DEFINE r == a.reg
  <2>4. At(t, "eri_data")' => eridr' = mem'[r] \/ faults' # {}
    <3> SUFFICES ASSUME At(t, "eri_data")' PROVE eridr' = mem'[r]
      OBVIOUS
    <3>1. Now(t).op = "eri_read" /\ Now(t).reg = r
      BY <2>0, <2>1, <2>2, <2>3 DEF ReadAt
    <3> QED BY <1>3, <3>1 DEF Data
  <2>5. At(t, "wr")' => tmp'[t] = mem'[r]
    <3> SUFFICES ASSUME At(t, "wr")' PROVE tmp'[t] = mem'[r]
      OBVIOUS
    <3>1. Now(t).op = "rd" /\ Now(t).reg = r
      BY <2>0, <2>1, <2>2, <2>3 DEF ReadAt
    <3> QED BY <1>3, <3>1 DEF Data
  <2>6. At(t, "eridr")' /\ a.clear # Bits => tmp'[t] = mem'[r] \/ Exposed(r)'
    <3> SUFFICES ASSUME At(t, "eridr")', a.clear # Bits
                 PROVE  tmp'[t] = mem'[r] \/ Exposed(r)'
      OBVIOUS
    <3>1. Now(t).op = "eri_data" /\ Now(t).reg = r /\ r \in EriRegs
      BY <2>0, <2>1, <2>2, <2>3 DEF ReadAt
    <3>2. mem' = mem /\ (tmp'[t] = eridr \/ faults' # {})
      BY <1>3, <3>1 DEF Data
    <3>3. eridr = mem[r] \/ faults # {}
      BY <1>3, <3>1 DEF Held
    <3>4. faults # {} => faults' # {}
      BY DEF Data
    <3> QED BY <3>1, <3>2, <3>3, <3>4 DEF Exposed
  <2>7. At(t, "eri_write")' =>
           \/ Exposed(r)'
           \/ /\ tmp'[t] = eridr'
              /\ \A b \in Bits : b \in eridr' <=> b \in a.set \/ (b \in mem'[r] /\ b \notin a.clear)
    <3> SUFFICES ASSUME At(t, "eri_write")', ~Exposed(r)'
                 PROVE  /\ tmp'[t] = eridr'
                        /\ \A b \in Bits : b \in eridr' <=> b \in a.set \/ (b \in mem'[r] /\ b \notin a.clear)
      OBVIOUS
    <3>1. (i + 1) - 1 = i
      BY <1>3 DEF s, i
    <3>2. Now(t).op = "eridr" /\ Now(t).reg = r /\ Now(t).clear = a.clear /\ Now(t).set = a.set
      BY <1>3, <2>0, <2>1, <2>2, <2>3, <3>1 DEF ReadAt
    <3>3. arg[t] = {}
      BY <1>3, <3>2, NoArg
    <3>4. mem' = mem /\ eridr' = Changed(t) /\ tmp'[t] = Changed(t)
      BY <1>3, <3>2 DEF Data
    <3>5. Now(t).clear # Bits => tmp[t] = mem[r]
      BY <1>3, <1>4, <3>2 DEF Held
    <3>6. Changed(t) = (tmp[t] \ Now(t).clear) \cup Now(t).set
      BY <3>3 DEF Changed
    <3>7. \A b \in Bits : b \in Changed(t) <=> b \in Now(t).set \/ (b \in mem[r] /\ b \notin Now(t).clear)
      <4>1. CASE Now(t).clear = Bits
        BY <3>6, <4>1
      <4>2. CASE Now(t).clear # Bits
        BY <3>5, <3>6, <4>2
      <4> QED BY <4>1, <4>2
    <3> QED BY <3>2, <3>4, <3>7
  <2> QED BY <2>2, <2>4, <2>5, <2>6, <2>7 DEF Held
<1> QED BY <1>5, <1>6

-----------------------------------------------------------------------------
(* What an access leaves of a bit: what it writes where it mentions the bit. *)
LEMMA AccessWrites ==
    ASSUME Places, Typed, MainOk, LinkOk, GuardedKept, NEW t \in Threads, Access(t), Data(t),
           Held(t), ArgOk(t), NEW r \in Registers \ {"eri"}, NEW b \in Bits, ~Exposed(r)
    PROVE  /\ Mentions(Now(t), r, b) => (b \in mem'[r] <=> Gives(Device, Now(t), b))
           /\ ~Mentions(Now(t), r, b) => (b \in mem'[r] <=> b \in mem[r])
<1> DEFINE a == Now(t)
           s == script[t]
           i == pc[t]
<1>1. ~Idle(t) /\ i \in 1 .. Len(s) /\ a = s[i] /\ \A op : At(t, op) <=> a.op = op
  BY NowIs DEF Data
<1>2. ReadAt(s, i) /\ FetchedAt(s, i) /\ Fresh(s) /\ GuardedAt(s, i)
  BY <1>1, ScriptsCalm, Midway
<1>3. r \in Registers /\ r # "eri" /\ mem \in [Registers -> SUBSET Bits]
  BY DEF Typed
<1>4. CASE a.op = "put"
  <2>1. mem' = [mem EXCEPT ![a.reg] = a.set]
    BY <1>1, <1>4 DEF Data
  <2>2. Gives(Device, a, b) <=> b \in a.set
    BY <1>4 DEF Gives, Merges
  <2>3. Mentions(a, r, b) <=> a.reg = r
    BY <1>4 DEF Mentions
  <2> HIDE DEF a
  <2>4. a.reg = r => mem'[r] = a.set
    BY <1>3, <2>1
  <2>5. a.reg # r => mem'[r] = mem[r]
    BY <1>3, <2>1
  <2> QED BY <2>2, <2>3, <2>4, <2>5 DEF a
<1>5. CASE a.op = "eri_write"
  <2>1. mem' = IF a.reg = "eri" THEN mem ELSE [mem EXCEPT ![a.reg] = eridr]
    BY <1>1, <1>5 DEF Data
  <2>2. Gives(Device, a, b) <=> b \in a.set
    BY <1>5 DEF Gives, Merges
  <2>3. Mentions(a, r, b) <=> a.reg = r /\ b \in a.clear \cup a.set
    BY <1>5 DEF Mentions
  <2>4. a.reg = r => (b \in eridr <=> b \in a.set \/ (b \in mem[r] /\ b \notin a.clear))
    BY <1>1, <1>5 DEF Held
  <2> HIDE DEF a
  <2>5. a.reg = r => mem'[r] = eridr
    BY <1>3, <2>1
  <2>6. a.reg # r => mem'[r] = mem[r]
    BY <1>3, <2>1
  <2> QED BY <2>2, <2>3, <2>4, <2>5, <2>6 DEF a
<1>6. CASE a.op = "ocp_write"
  <2>1. mem' = [mem EXCEPT ![a.reg] = Changed(t)]
    BY <1>1, <1>6 DEF Data
  <2>2. Gives(Device, a, b) <=> b \in a.set
    BY <1>6 DEF Gives, Merges
  <2>3. Mentions(a, r, b) <=> a.reg = r /\ b \in a.clear \cup a.set
    BY <1>6 DEF Mentions
  <2>4. arg[t] = {}
    BY <1>1, <1>6, NoArg
  <2>5. a.reg \in Guarded
    BY <1>1, <1>2, <1>6 DEF GuardedAt, Guarded
  <2>6. tmp[t] = mem[a.reg]
    BY <1>1, <1>6, <2>5 DEF GuardedKept
  <2>7. Changed(t) = (mem[a.reg] \ a.clear) \cup a.set
    BY <2>4, <2>6 DEF Changed
  <2> HIDE DEF a
  <2>8. a.reg = r => mem'[r] = (mem[r] \ a.clear) \cup a.set
    BY <1>3, <2>1, <2>7
  <2>9. a.reg # r => mem'[r] = mem[r]
    BY <1>3, <2>1
  <2> QED BY <2>2, <2>3, <2>8, <2>9 DEF a
<1>7. CASE a.op = "wr"
  <2>1. mem' = [mem EXCEPT ![a.reg] = Changed(t)]
    BY <1>1, <1>7 DEF Data
  <2>2. Mentions(a, r, b) <=> a.reg = r /\ b \in a.clear \cup a.set
    BY <1>7 DEF Mentions
  <2>3. a.reg # r => mem'[r] = mem[r]
    BY <1>3, <2>1
  <2>4. CASE a.reg # r
    BY <2>2, <2>3, <2>4
  <2>5. CASE a.reg = r
    <3>1. tmp[t] = mem[r]
      BY <1>1, <1>7, <2>5 DEF Held
    <3>2. mem'[r] = (mem[r] \ a.clear) \cup a.set \cup arg[t]
      BY <1>3, <2>1, <2>5, <3>1 DEF Changed
    <3>3. \A reg \in {"mode", "features"} : Merges(a, reg) =>
            arg[t] = Fetched(Device, reg) /\ arg[t] \subseteq a.clear
      <4> SUFFICES ASSUME NEW reg \in {"mode", "features"}, Merges(a, reg)
                   PROVE  arg[t] = Fetched(Device, reg) /\ arg[t] \subseteq a.clear
        OBVIOUS
      <4>1. i > 2 /\ s[i - 2].op = "get" /\ s[i - 2].reg = reg
        BY <1>1, <1>2 DEF FetchedAt
      <4>2. r = "RxConfig"
        BY <2>5 DEF Merges
      <4>3. ~TwoResets
        BY <4>2 DEF Exposed, Guarded, OcpRegs
      <4>4. arg[t] = Fetched(Device, reg)
        BY <4>1, <4>3 DEF ArgOk, Got
      <4>5. Mode(Device) \subseteq ModeBits /\ Errors(Device) \subseteq ErrorBits
        BY OnlyReception
      <4> QED BY <4>4, <4>5 DEF Merges, Fetched
    <3>4. ASSUME ~Merges(a, "mode"), ~Merges(a, "features") PROVE arg[t] = {}
      <4>1. ~Got(t, 1)
        <5> SUFFICES ASSUME Got(t, 1) PROVE FALSE
          OBVIOUS
        <5>1. i - 1 \in 1 .. Len(s) /\ s[i - 1].op = "get" /\ (i - 1) + 1 = i
          BY <1>1 DEF Got
        <5>2. FetchedAt(s, i - 1)
          BY <1>2, <5>1 DEF Fresh
        <5> QED BY <1>1, <1>7, <5>1, <5>2 DEF FetchedAt
      <4>2. ~Got(t, 2)
        <5> SUFFICES ASSUME Got(t, 2) PROVE FALSE
          OBVIOUS
        <5>1. i - 2 \in 1 .. Len(s) /\ s[i - 2].op = "get" /\ (i - 2) + 2 = i
          BY <1>1 DEF Got
        <5>2. FetchedAt(s, i - 2)
          BY <1>2, <5>1 DEF Fresh
        <5>3. Merges(a, s[i - 2].reg) /\ s[i - 2].reg \in {"mode", "features"}
          BY <1>1, <5>1, <5>2 DEF FetchedAt
        <5> QED BY <3>4, <5>3
      <4> QED BY <4>1, <4>2 DEF ArgOk
    <3>5. Gives(Device, a, b) <=> b \in a.set \/ b \in arg[t]
      <4>1. CASE Merges(a, "mode")
        <5>1. ~Merges(a, "features")
          BY <4>1, OnlyReception DEF Merges
        <5> QED BY <3>3, <4>1, <5>1 DEF Gives, Fetched
      <4>2. CASE Merges(a, "features")
        <5>1. ~Merges(a, "mode")
          BY <4>2, OnlyReception DEF Merges
        <5> QED BY <3>3, <4>2, <5>1 DEF Gives, Fetched
      <4>3. CASE ~Merges(a, "mode") /\ ~Merges(a, "features")
        BY <3>4, <4>3 DEF Gives
      <4> QED BY <4>1, <4>2, <4>3
    <3>6. arg[t] \subseteq a.clear
      BY <3>3, <3>4
    <3> HIDE DEF a
    <3> QED BY <2>2, <2>5, <3>2, <3>5, <3>6 DEF a
  <2> QED BY <2>4, <2>5
<1>8. CASE a.op \notin {"wr", "put", "eri_write", "ocp_write"}
  BY <1>8 DEF Data, Mentions
<1> QED BY <1>4, <1>5, <1>6, <1>7, <1>8

(* The bits that are asked for.                                              *)
LEMMA AskedAre ==
    ASSUME NEW q, NEW r, NEW b, Asked(q, r, b)
    PROVE  r \in Registers \ {"eri"} /\ b \in Bits
BY DEF Asked, Wakes, Magic, Power, Link, Unicast, Broadcast, Multicast, Aspm, Filter, Gate, Reception,
   Registers, Bits

(* ASPM's bits are in registers with a lock.                                 *)
LEMMA AspmGuarded ==
    ASSUME NEW r, NEW b, Aspm(r, b)
    PROVE  r \in Guarded /\ r \notin EriRegs /\ r \in Registers \ {"eri"} /\ b \in Bits /\ ~Exposed(r)
           /\ \A q : Asked(q, r, b) /\ r # "RxConfig"
BY OnlyAspm, AskedAre DEF Aspm, Guarded, EriRegs, Exposed

(* An access leaves settled what is settled, and settles what it writes      *)
(* last.                                                                     *)
LEMMA SettledKept ==
    ASSUME Places, Typed, MainOk, LinkOk, GuardedKept, NEW t \in Threads, Access(t), Data(t),
           Held(t), ArgOk(t), Settled
    PROVE  Settled'
<1>1. Moves(t)
  BY AccessMoves
<1>2. script' = script /\ pc'[t] = pc[t] + 1 /\ \A u \in Threads : u # t => pc'[u] = pc[u]
  BY <1>1, After
<1>3. Device' = Device /\ \A r : Exposed(r) => Exposed(r)'
  BY DeviceStays
<1>4. ~Idle(t) /\ pc[t] \in 1 .. Len(script[t]) /\ Now(t) = script[t][pc[t]]
  BY NowIs DEF Data
<1> SUFFICES ASSUME NEW r, NEW b, Asked(Device, r, b), ~Exposed(r)',
                    \A u \in Threads : Clean(script[u], pc'[u], r, b)
             PROVE  Has(r, b)' <=> Shall(Device, r, b)
  BY <1>2, <1>3 DEF Settled
<1>5. r \in Registers \ {"eri"} /\ b \in Bits /\ ~Exposed(r)
  BY <1>3, AskedAre
<1>6. Has(r, b)' <=> b \in mem'[r]
  BY DEF Has
<1>7. Calm(Device, script[t]) /\ Len(script[t]) \in Nat
  BY ScriptsCalm DEF Fresh
<1>8. Clean(script[t], pc[t] + 1, r, b)
  BY <1>2
<1>9. CASE Mentions(Now(t), r, b)
  <2>1. b \in mem'[r] <=> Gives(Device, Now(t), b)
    BY <1>5, <1>9, AccessWrites
  <2>2. ~Clean(script[t], 1, r, b)
    BY <1>4, <1>9 DEF Clean
  <2>3. Ends(Device, script[t], 1, r, b)
    BY <1>7, <2>2 DEF Calm, Safe
  <2>4. PICK j \in 1 .. Len(script[t]) :
            /\ Mentions(script[t][j], r, b) /\ (Gives(Device, script[t][j], b) <=> Shall(Device, r, b))
            /\ \A k \in (j + 1) .. Len(script[t]) : ~Mentions(script[t][k], r, b)
    BY <2>3 DEF Ends
  <2>5. j = pc[t]
    <3>1. j < pc[t] => pc[t] \in (j + 1) .. Len(script[t])
      BY <1>4, <1>7
    <3>2. pc[t] < j => j \in (pc[t] + 1) .. Len(script[t])
      BY <1>4, <1>7
    <3> QED BY <1>4, <1>7, <1>8, <1>9, <2>4, <3>1, <3>2 DEF Clean
  <2> QED BY <1>4, <1>6, <2>1, <2>4, <2>5
<1>10. CASE ~Mentions(Now(t), r, b)
  <2>1. b \in mem'[r] <=> b \in mem[r]
    BY <1>5, <1>10, AccessWrites
  <2>2. Clean(script[t], pc[t], r, b)
    <3>1. \A j \in pc[t] .. Len(script[t]) : j = pc[t] \/ j \in (pc[t] + 1) .. Len(script[t])
      BY <1>4, <1>7
    <3> QED BY <1>4, <1>8, <1>10, <3>1 DEF Clean
  <2>3. \A u \in Threads : Clean(script[u], pc[u], r, b)
    BY <1>2, <2>2
  <2>4. Has(r, b) <=> Shall(Device, r, b)
    BY <1>5, <2>3 DEF Settled
  <2> QED BY <1>6, <2>1, <2>4 DEF Has
<1> QED BY <1>9, <1>10

(* What a script has switched off stays off until it switches it on.         *)
LEMMA StaysOffKept ==
    ASSUME Places, Typed, MainOk, LinkOk, GuardedKept, Apart, NEW t \in Threads, Access(t), Data(t),
           Held(t), ArgOk(t), StaysOff
    PROVE  StaysOff'
<1>1. Moves(t)
  BY AccessMoves
<1>2. /\ script' = script /\ pc'[t] = pc[t] + 1
      /\ \A u \in Threads : u # t => pc'[u] = pc[u] /\ (Idle(u)' <=> Idle(u))
  BY <1>1, After
<1>3. TwoResets' <=> TwoResets
  BY DeviceStays
<1>4. ~Idle(t) /\ pc[t] \in 1 .. Len(script[t]) /\ Now(t) = script[t][pc[t]]
  BY NowIs DEF Data
<1> SUFFICES ASSUME NEW u \in Threads, ~TwoResets, ~Idle(u)', NEW r, NEW b, Aspm(r, b),
                    Cleared(script[u], pc'[u], r, b)
             PROVE  ~Has(r, b)'
  BY <1>2, <1>3 DEF StaysOff
<1>5. r \in Guarded /\ r \notin EriRegs /\ r \in Registers \ {"eri"} /\ b \in Bits /\ ~Exposed(r) /\ r # "RxConfig"
  BY AspmGuarded
<1>6. Has(r, b)' <=> b \in mem'[r]
  BY DEF Has
<1>7. PICK j \in 1 .. (pc'[u] - 1) :
            /\ Mentions(script[u][j], r, b) /\ b \notin script[u][j].set
            /\ \A k \in (j + 1) .. (pc'[u] - 1) : ~Mentions(script[u][k], r, b)
  BY DEF Cleared
<1>8. CASE u = t
  <2>1. pc'[u] - 1 = pc[t]
    BY <1>2, <1>4, <1>8
  <2>2. CASE j = pc[t]
    <3>1. Mentions(Now(t), r, b) /\ b \notin Now(t).set
      BY <1>4, <1>7, <1>8, <2>2
    <3>2. ~Gives(Device, Now(t), b)
      BY <1>5, <3>1 DEF Gives, Merges, Mentions
    <3> QED BY <1>5, <1>6, <3>1, <3>2, AccessWrites
  <2>3. CASE j # pc[t]
    <3>1. pc[t] \in (j + 1) .. pc[t] /\ j \in 1 .. (pc[t] - 1)
      BY <1>4, <1>7, <2>1, <2>3
    <3>2. ~Mentions(Now(t), r, b)
      BY <1>4, <1>7, <1>8, <2>1, <3>1
    <3>3. \A k \in (j + 1) .. (pc[t] - 1) : k \in (j + 1) .. (pc'[u] - 1)
      BY <1>4, <2>1
    <3>4. Cleared(script[t], pc[t], r, b)
      BY <1>7, <1>8, <3>1, <3>3 DEF Cleared
    <3>5. ~Has(r, b)
      BY <1>4, <3>4 DEF StaysOff
    <3> QED BY <1>5, <1>6, <3>2, <3>5, AccessWrites DEF Has
  <2> QED BY <2>2, <2>3
<1>9. CASE u # t
  <2>1. ~Idle(u) /\ pc'[u] = pc[u]
    BY <1>2, <1>9
  <2>2. ~Has(r, b)
    BY <2>1 DEF StaysOff
  <2>3. "overlap" \in faults /\ Idle("task")
    BY <1>4, <1>9, <2>1 DEF Apart, TwoResets
  <2>4. mac_version < 61
    BY <2>3, DeviceSuits DEF TwoResets
  <2>5. CASE t = "phy"
    <3>1. ~Mentions(Now(t), r, b)
      BY <1>4, <1>5, <2>4, <2>5, LinkWrites DEF Mentions
    <3> QED BY <1>5, <1>6, <2>2, <3>1, AccessWrites DEF Has
  <2>6. CASE u = "phy"
    <3>1. EriOnly(script[u]) /\ Fresh(script[u])
      BY <2>4, <2>6, ScriptsCalm DEF LinkOk, LinkLike
    <3>2. pc[u] \in 1 .. Len(script[u])
      BY <2>1, NowIs
    <3>3. j \in 1 .. Len(script[u])
      BY <1>7, <2>1, <3>2
    <3>4. ReadAt(script[u], j) /\ script[u][j].op \notin {"wr", "put", "ocp_write"}
      BY <3>1, <3>3 DEF Fresh, EriOnly
    <3>5. script[u][j].reg \in EriRegs
      BY <1>7, <3>4 DEF Mentions, ReadAt
    <3> QED BY <1>5, <1>7, <3>5 DEF Mentions
  <2> QED BY <1>4, <1>9, <2>1, <2>3, <2>5, <2>6 DEF Threads
<1> QED BY <1>8, <1>9

(* An access keeps the scripts' good sense.                                  *)
LEMMA OkKept ==
    ASSUME NEW t, Data(t), MainOk, LinkOk, WolSaved PROVE MainOk' /\ LinkOk' /\ WolSaved'
<1>1. /\ (\A q : Like(q)' <=> Like(q)) /\ script' = script
      /\ mac_version' = mac_version /\ board' = board /\ power' = power /\ running' = running
  BY DeviceStays
<1>2. wol' = wol /\ saved_wolopts' = saved_wolopts
  BY DEF Data, soft
<1>3. MainOk'
  BY <1>1 DEF MainOk
<1>4. LinkOk'
  BY <1>1 DEF LinkOk, LinkLike, TaskLike
<1> QED BY <1>1, <1>2, <1>3, <1>4 DEF WolSaved

(* The whole of it, on top of the discipline of the locks.                   *)
Whole == Midst /\ Settled /\ StaysOff /\ WolSaved

(* All of it, by one access.                                                 *)
LEMMA WholeKeptByAccess ==
    ASSUME IInv, IInv', Whole, NEW t \in Threads, Access(t) PROVE Whole'
<1>1. Places /\ GuardedKept /\ GuardedKept'
  BY DEF IInv
<1>2. /\ Typed /\ (\A u \in Threads : ArgOk(u) /\ Held(u)) /\ Apart /\ MainOk /\ LinkOk
      /\ Settled /\ StaysOff /\ WolSaved
  BY DEF Whole, Midst
<1>3. Data(t) /\ Typed'
  BY <1>1, <1>2, AccessData
<1>4. Apart'
  BY <1>1, <1>2, <1>3, ApartKept
<1>5. MainOk' /\ LinkOk' /\ WolSaved'
  BY <1>2, <1>3, OkKept
<1>6. ASSUME NEW u \in Threads PROVE ArgOk(u)' /\ Held(u)'
  <2>1. ArgOk(u)'
    BY <1>1, <1>2, <1>3, ArgKept
  <2>2. CASE u = t
    <3>1. Held(t) /\ ArgOk(t)
      BY <1>2
    <3>2. Held(t)'
      BY <1>1, <1>2, <1>3, <3>1, HeldOwn
    <3> QED BY <2>1, <2>2, <3>2
  <2>3. CASE u # t
    <3>1. Held(u)
      BY <1>2
    <3>2. Held(u)'
      BY <1>1, <1>2, <1>3, <2>3, <3>1, HeldBeside
    <3> QED BY <2>1, <3>2
  <2> QED BY <2>2, <2>3
<1>7. Held(t) /\ ArgOk(t)
  BY <1>2
<1>8. Settled'
  BY <1>1, <1>2, <1>3, <1>7, SettledKept
<1>9. StaysOff'
  BY <1>1, <1>2, <1>3, <1>7, StaysOffKept
<1> QED BY <1>3, <1>4, <1>5, <1>6, <1>8, <1>9 DEF Whole, Midst

-----------------------------------------------------------------------------
(* A thread at rest has nothing in hand.                                     *)
LEMMA IdleArg ==
    ASSUME Places, MainOk, LinkOk, NEW t \in Threads, ArgOk(t), Idle(t)
    PROVE  /\ arg[t] = {} /\ ~Got(t, 1) /\ ~Got(t, 2)
           /\ \A r, b : Clean(script[t], pc[t], r, b)
<1> DEFINE s == script[t]
           i == pc[t]
<1>1. Fresh(s) /\ i = Len(s) + 1 /\ Len(s) \in Nat
  BY ScriptsCalm, Midway DEF Fresh
<1>2. ~Got(t, 1)
  <2> SUFFICES ASSUME Got(t, 1) PROVE FALSE
    OBVIOUS
  <2>1. i - 1 \in 1 .. Len(s) /\ s[i - 1].op = "get" /\ i - 1 = Len(s)
    BY <1>1 DEF Got
  <2>2. FetchedAt(s, i - 1)
    BY <1>1, <2>1 DEF Fresh
  <2> QED BY <1>1, <2>1, <2>2 DEF FetchedAt
<1>3. ~Got(t, 2)
  <2> SUFFICES ASSUME Got(t, 2) PROVE FALSE
    OBVIOUS
  <2>1. i - 2 \in 1 .. Len(s) /\ s[i - 2].op = "get" /\ (i - 2) + 2 = Len(s) + 1
    BY <1>1 DEF Got
  <2>2. FetchedAt(s, i - 2)
    BY <1>1, <2>1 DEF Fresh
  <2> QED BY <1>1, <2>1, <2>2 DEF FetchedAt
<1>4. \A r, b : Clean(s, i, r, b)
  BY <1>1 DEF Clean
<1> QED BY <1>2, <1>3, <1>4 DEF ArgOk

(* A thread that takes up a script which leaves what is asked for as it      *)
(* shall be, or alone if that has not changed.                               *)
Renews(s) ==
    \A r, b : Asked(Device', r, b) /\ ~Exposed(r)' =>
        \/ Ends(Device', s, 1, r, b)
        \/ Asked(Device, r, b) /\ (Shall(Device', r, b) <=> Shall(Device, r, b))

Flags ==
    /\ wol \in SUBSET WolOpts /\ promisc \in BOOLEAN /\ rxall \in BOOLEAN
    /\ running \in BOOLEAN /\ deaf \in BOOLEAN

(* All of it, by the start of a script that renews what is newly asked for.  *)
LEMMA WholeKeptByStart ==
    ASSUME IInv, Whole, NEW t \in Threads, NEW s, Start(t, s), Fresh(s), Renews(s),
           MainOk', LinkOk', WolSaved', Flags',
           (promisc' = promisc /\ rxall' = rxall) \/ t \in {"main", "task"}
    PROVE  Whole'
<1>1. Places /\ Typed /\ (\A u \in Threads : ArgOk(u) /\ Held(u)) /\ Apart /\ MainOk /\ LinkOk
      /\ Settled /\ StaysOff
  BY DEF IInv, Whole, Midst
<1>2. /\ script \in [Threads -> Scripts] /\ pc \in [Threads -> Nat]
  BY <1>1 DEF Places
<1>3. /\ Idle(t) /\ script'[t] = s /\ pc'[t] = 1
      /\ \A u \in Threads : u # t => script'[u] = script[u] /\ pc'[u] = pc[u] /\ (Idle(u)' <=> Idle(u))
  BY <1>2 DEF Start, Idle
<1>4. /\ mac_version' = mac_version /\ board' = board /\ mem' = mem /\ eridr' = eridr /\ tmp' = tmp /\ arg' = arg
  BY DEF Start, config, windows
<1>5. /\ faults \subseteq faults'
      /\ (\E u \in Threads : u # t /\ ~Idle(u)) => "overlap" \in faults'
      /\ t = "task" => "resume" \in faults'
  BY DEF Start, SetIf
<1>6. /\ \A r : Exposed(r) => Exposed(r)'
      /\ TwoResets => TwoResets'
  BY <1>4, <1>5 DEF Exposed, TwoResets
<1>7. Len(s) \in Nat /\ mac_version \in Nat
  BY <1>1, DeviceSuits DEF Fresh
<1>8. Typed'
  BY <1>1, <1>4 DEF Typed, Flags
<1>9. ArgOk(t)'
  <2>1. arg[t] = {}
    BY <1>1, <1>3, IdleArg
  <2>2. ~Got(t, 1)' /\ ~Got(t, 2)'
    BY <1>3 DEF Got
  <2> QED BY <1>4, <2>1, <2>2 DEF ArgOk
<1>10. ASSUME NEW u \in Threads, u # t PROVE ArgOk(u)'
  <2>1. \A k : Got(u, k)' <=> Got(u, k)
    BY <1>3, <1>10 DEF Got
  <2>2. ArgOk(u)
    BY <1>1
  <2>3. CASE Idle(u)
    <3>1. arg[u] = {} /\ ~Got(u, 1) /\ ~Got(u, 2)
      BY <1>1, <2>3, IdleArg
    <3> QED BY <1>4, <2>1, <3>1 DEF ArgOk
  <2>4. CASE promisc' = promisc /\ rxall' = rxall
    <3>1. \A reg : Fetched(Device, reg)' = Fetched(Device, reg)
      BY <2>4 DEF Fetched, Device, Mode, Errors
    <3> QED BY <1>3, <1>4, <1>6, <1>10, <2>1, <2>2, <3>1 DEF ArgOk
  <2>5. CASE TwoResets'
    BY <1>4, <2>1, <2>2, <2>5 DEF ArgOk
  <2>6. CASE ~Idle(u) /\ t \in {"main", "task"} /\ ~TwoResets'
    <3>1. "resume" \notin faults' /\ "overlap" \in faults' /\ mac_version < 61
      BY <1>4, <1>5, <1>7, <1>10, <2>6 DEF TwoResets
    <3>2. u = "phy"
      BY <1>1, <1>5, <1>10, <2>6, <3>1 DEF Threads, Apart
    <3>3. EriOnly(script[u]) /\ pc[u] \in 1 .. Len(script[u])
      BY <1>1, <2>6, <3>1, <3>2, NowIs DEF LinkOk, LinkLike
    <3>4. ASSUME NEW k \in {1, 2} PROVE ~Got(u, k)
      <4>1. pc[u] > k => pc[u] - k \in 1 .. Len(script[u])
        BY <3>3
      <4> QED BY <3>3, <4>1 DEF EriOnly, Got
    <3>5. ~Got(u, 1) /\ ~Got(u, 2)
      BY <3>4
    <3> QED BY <1>4, <2>1, <2>2, <3>5 DEF ArgOk
  <2> QED BY <2>3, <2>4, <2>5, <2>6
<1>11. Held(t)'
  <2>1. CASE Idle(t)'
    BY <2>1 DEF Held, At
  <2>2. CASE ~Idle(t)'
    <3>1. 1 \in 1 .. Len(s)
      BY <1>3, <1>7, <2>2 DEF Idle
    <3>2. ReadAt(s, 1)
      BY <3>1 DEF Fresh
    <3>3. Now(t)' = s[1] /\ \A op : At(t, op)' => s[1].op = op
      BY <1>3 DEF Now, At
    <3> QED BY <3>2, <3>3 DEF Held, ReadAt, Follows
  <2> QED BY <2>1, <2>2
<1>12. ASSUME NEW u \in Threads, u # t PROVE Held(u)'
  <2>1. Now(u)' = Now(u) /\ \A op : At(u, op)' <=> At(u, op)
    BY <1>3, <1>12 DEF Now, At
  <2>2. Held(u)
    BY <1>1
  <2> QED BY <1>4, <1>5, <1>6, <2>1, <2>2 DEF Held
<1>13. Apart'
  <2>1. "resume" \in faults' \/ Idle("task")'
    BY <1>1, <1>3, <1>5 DEF Apart, Threads
  <2>2. "overlap" \in faults' \/ \A u, w \in Threads : u = w \/ Idle(u)' \/ Idle(w)'
    BY <1>3, <1>5
  <2> QED BY <2>1, <2>2 DEF Apart
<1>14. Settled'
  <2> SUFFICES ASSUME NEW r, NEW b, Asked(Device', r, b), ~Exposed(r)',
                      \A u \in Threads : Clean(script'[u], pc'[u], r, b)
               PROVE  Has(r, b)' <=> Shall(Device', r, b)
    BY DEF Settled
  <2>1. Clean(s, 1, r, b)
    BY <1>3
  <2>2. ~Ends(Device', s, 1, r, b)
    BY <2>1 DEF Clean, Ends
  <2>3. Asked(Device, r, b) /\ (Shall(Device', r, b) <=> Shall(Device, r, b))
    BY <2>2 DEF Renews
  <2>4. \A u \in Threads : Clean(script[u], pc[u], r, b)
    BY <1>1, <1>3, IdleArg
  <2>5. Has(r, b) <=> Shall(Device, r, b)
    BY <1>1, <1>6, <2>3, <2>4 DEF Settled
  <2> QED BY <1>4, <2>3, <2>5 DEF Has
<1>15. StaysOff'
  <2> SUFFICES ASSUME NEW u \in Threads, ~TwoResets', ~Idle(u)', NEW r, NEW b, Aspm(r, b),
                      Cleared(script'[u], pc'[u], r, b)
               PROVE  ~Has(r, b)'
    BY DEF StaysOff
  <2>1. u # t
    BY <1>3 DEF Cleared
  <2>2. ~Has(r, b)
    BY <1>1, <1>3, <1>6, <2>1 DEF StaysOff
  <2> QED BY <1>4, <2>2 DEF Has
<1>16. \A u \in Threads : ArgOk(u)' /\ Held(u)'
  BY <1>9, <1>10, <1>11, <1>12
<1> QED BY <1>8, <1>13, <1>14, <1>15, <1>16 DEF Whole, Midst

-----------------------------------------------------------------------------
(* What shall be, when only part of what is asked for changes.               *)
LEMMA AlikeAspm ==
    ASSUME NEW p, NEW q, p.v = q.v, p.aspm = q.aspm, NEW r, NEW b, Aspm(r, b) \/ Filter(q, r, b)
    PROVE  Asked(p, r, b) /\ (Shall(q, r, b) <=> Shall(p, r, b))
<1>1. CASE Aspm(r, b)
  BY <1>1, OnlyAspm
<1>2. CASE Filter(q, r, b)
  BY <1>2 DEF Filter, Asked, Shall
<1> QED BY <1>1, <1>2

(* What set_wol does not change.                                             *)
LEMMA AlikeWol ==
    ASSUME NEW p, NEW q, p.v = q.v, p.board = q.board, p.aspm = q.aspm, p.up = q.up, p.deaf = q.deaf,
           p.promisc = q.promisc, p.rxall = q.rxall, NEW r, NEW b, Asked(q, r, b), ~Wakes(q, r, b)
    PROVE  Asked(p, r, b) /\ (Shall(q, r, b) <=> Shall(p, r, b))
<1>1. Wakes(p, r, b) <=> Wakes(q, r, b)
  BY DEF Wakes, Magic, Power
<1>2. Filter(p, r, b) <=> Filter(q, r, b)
  BY DEF Filter
<1>3. Receives(p) <=> Receives(q)
  BY DEF Receives
<1>4. (Gate(p, r, b) <=> Gate(q, r, b)) /\ (Reception(p, r, b) <=> Reception(q, r, b))
  BY <1>3 DEF Gate, Reception
<1>5. Mode(p) = Mode(q) /\ Errors(p) = Errors(q)
  BY DEF Mode, Errors
<1>6. /\ ~Magic(q, r, b) /\ ~Power(q, r, b) /\ ~Link(r, b) /\ ~Unicast(r, b) /\ ~Broadcast(r, b) /\ ~Multicast(r, b)
      /\ ~Magic(p, r, b) /\ ~Power(p, r, b)
  BY <1>1 DEF Wakes
<1>7. Asked(p, r, b)
  BY <1>1, <1>2, <1>4 DEF Asked
<1> QED BY <1>2, <1>4, <1>5, <1>6, <1>7 DEF Shall, Allowed

(* What a suspend does not change.                                           *)
LEMMA AlikePower ==
    ASSUME NEW p, NEW q, p.v = q.v, p.board = q.board, p.aspm = q.aspm, p.wol = q.wol,
           NEW r, NEW b, Asked(q, r, b), r \notin {"RxConfig", "MISC"}
    PROVE  Asked(p, r, b) /\ (Shall(q, r, b) <=> Shall(p, r, b))
<1>1. /\ Magic(p, r, b) <=> Magic(q, r, b)
      /\ Power(p, r, b) <=> Power(q, r, b)
      /\ Filter(p, r, b) <=> Filter(q, r, b)
  BY DEF Magic, Power, Filter
<1>2. ~Gate(p, r, b) /\ ~Gate(q, r, b) /\ ~Reception(p, r, b) /\ ~Reception(q, r, b)
  BY DEF Gate, Reception
<1>3. Asked(p, r, b)
  BY <1>1, <1>2 DEF Asked, Wakes
<1> QED BY <1>1, <1>2, <1>3 DEF Shall, Allowed

(* What a change of the receive filter does not change.                      *)
LEMMA AlikeRx ==
    ASSUME NEW p, NEW q, p.v = q.v, p.board = q.board, p.aspm = q.aspm, p.wol = q.wol, p.up = q.up,
           p.deaf = q.deaf, NEW r, NEW b, Asked(q, r, b)
    PROVE  /\ Asked(p, r, b)
           /\ p.rxall = q.rxall /\ b \notin ModeBits => (Shall(q, r, b) <=> Shall(p, r, b))
           /\ p.promisc = q.promisc /\ b \notin ErrorBits => (Shall(q, r, b) <=> Shall(p, r, b))
           /\ r # "RxConfig" \/ ~q.up => (Shall(q, r, b) <=> Shall(p, r, b))
<1>1. /\ Magic(p, r, b) <=> Magic(q, r, b)
      /\ Power(p, r, b) <=> Power(q, r, b)
      /\ Filter(p, r, b) <=> Filter(q, r, b)
      /\ Receives(p) <=> Receives(q)
  BY DEF Magic, Power, Filter, Receives
<1>2. (Gate(p, r, b) <=> Gate(q, r, b)) /\ (Reception(p, r, b) <=> Reception(q, r, b))
  BY <1>1 DEF Gate, Reception
<1>3. Asked(p, r, b)
  BY <1>1, <1>2 DEF Asked, Wakes
<1>4. /\ Mode(p) \subseteq ModeBits /\ Errors(p) \subseteq ErrorBits
      /\ Mode(q) \subseteq ModeBits /\ Errors(q) \subseteq ErrorBits
  BY OnlyReception
<1>5. /\ p.rxall = q.rxall => Errors(p) = Errors(q)
      /\ p.promisc = q.promisc => Mode(p) = Mode(q)
  BY DEF Mode, Errors
<1>6. r # "RxConfig" => ~Reception(p, r, b) /\ ~Reception(q, r, b)
  BY DEF Reception
<1> DEFINE P == b \in Mode(p) \cup Errors(p)
           O == b \in Mode(q) \cup Errors(q)
<1>7. /\ p.rxall = q.rxall /\ b \notin ModeBits => (P <=> O)
      /\ p.promisc = q.promisc /\ b \notin ErrorBits => (P <=> O)
      /\ ~q.up /\ Reception(q, r, b) => P /\ O
  <2>1. ~q.up /\ Reception(q, r, b) => b = "AcceptOk"
    BY DEF Reception
  <2>2. "AcceptOk" \in Mode(p) /\ "AcceptOk" \in Mode(q)
    BY DEF Mode
  <2> QED BY <1>4, <1>5, <2>1, <2>2
<1>8. /\ Shall(p, r, b) <=> \/ Magic(q, r, b) /\ "MAGIC" \in q.wol
                            \/ Power(q, r, b) /\ q.wol # {}
                            \/ Link(r, b) /\ "PHY" \in q.wol
                            \/ Unicast(r, b) /\ "UCAST" \in q.wol
                            \/ Broadcast(r, b) /\ "BCAST" \in q.wol
                            \/ Multicast(r, b) /\ "MCAST" \in q.wol
                            \/ Aspm(r, b) /\ q.aspm
                            \/ Filter(q, r, b)
                            \/ Reception(q, r, b) /\ P
      /\ Shall(q, r, b) <=> \/ Magic(q, r, b) /\ "MAGIC" \in q.wol
                            \/ Power(q, r, b) /\ q.wol # {}
                            \/ Link(r, b) /\ "PHY" \in q.wol
                            \/ Unicast(r, b) /\ "UCAST" \in q.wol
                            \/ Broadcast(r, b) /\ "BCAST" \in q.wol
                            \/ Multicast(r, b) /\ "MCAST" \in q.wol
                            \/ Aspm(r, b) /\ q.aspm
                            \/ Filter(q, r, b)
                            \/ Reception(q, r, b) /\ O
  BY <1>1, <1>2 DEF Shall, Allowed
<1> HIDE DEF P, O
<1> QED BY <1>2, <1>3, <1>6, <1>7, <1>8


(* The device in the next state, in terms of the variables.                  *)
LEMMA DeviceNext ==
    ASSUME IInv, Whole, UNCHANGED config
    PROVE  /\ Device.v = mac_version /\ Device.board = board /\ Device.wol = wol
           /\ Device.up = (power = "up" /\ running) /\ Device.deaf = deaf
           /\ Device.promisc = promisc /\ Device.rxall = rxall
           /\ Device'.v = mac_version /\ Device'.board = board /\ Device'.wol = wol'
           /\ Device'.up = (power' = "up" /\ running') /\ Device'.deaf = deaf'
           /\ Device'.promisc = promisc' /\ Device'.rxall = rxall'
           /\ Device'.aspm = Device.aspm /\ Suits(Device')
           /\ \A q : Like(q)' => /\ Suits(q) /\ q.v = mac_version /\ q.board = board /\ q.wol = wol'
                                 /\ q.up = (power' = "up" /\ running') /\ q.deaf = deaf'
           /\ \A d : d = Device' => Like(d)'
           /\ mac_version' = mac_version /\ board' = board
           /\ mac_version \in Nat /\ mac_version \in Versions /\ board \in Boards(mac_version)
           /\ Flags /\ WolSaved /\ saved_wolopts \in WolChoices /\ jumbo \in BOOLEAN
<1>1. /\ Device.v = mac_version /\ Device.board = board /\ Device.wol = wol
      /\ Device.up = (power = "up" /\ running) /\ Device.deaf = deaf
      /\ Device.promisc = promisc /\ Device.rxall = rxall /\ Device.aspm = Manages
      /\ mac_version \in Nat /\ mac_version \in Versions /\ board \in Boards(mac_version) /\ Suits(Device)
  BY DeviceSuits DEF IInv
<1>2. mac_version' = mac_version /\ board' = board
  BY DEF config
<1>3. Manages' = Manages
  BY <1>2 DEF Manages
<1>4. /\ Device'.v = mac_version' /\ Device'.board = board' /\ Device'.wol = wol'
      /\ Device'.up = (power' = "up" /\ running') /\ Device'.deaf = deaf'
      /\ Device'.promisc = promisc' /\ Device'.rxall = rxall' /\ Device'.aspm = Manages'
  BY DEF Device
<1>5. Device'.v = mac_version /\ Device'.board = board /\ Device'.aspm = Device.aspm
  BY <1>1, <1>2, <1>3, <1>4
<1>6. Suits(Device')
  BY <1>1, <1>5 DEF Suits
<1>7. \A q : Like(q)' => /\ Suits(q) /\ q.v = mac_version /\ q.board = board /\ q.wol = wol'
                         /\ q.up = (power' = "up" /\ running') /\ q.deaf = deaf'
  BY <1>2 DEF Like
<1>8. ASSUME NEW d, d = Device' PROVE Like(d)'
  BY <1>2, <1>4, <1>5, <1>6, <1>8 DEF Like
<1>9. Flags /\ WolSaved
  BY DEF Whole, Midst, Typed, Flags
<1>10. saved_wolopts \in WolChoices /\ jumbo \in BOOLEAN
  BY DEF IInv, Places
<1> QED BY <1>1, <1>2, <1>4, <1>5, <1>6, <1>7, <1>8, <1>9, <1>10

(* main starts a script.                                                     *)
LEMMA MainStarts ==
    ASSUME IInv, Whole, NEW s, NEW state, Main(s, state), \A q : Like(q)' => Calm(q, s),
           mac_version >= 32 =>
             Sheltered(s) \/ (mac_version \in {32, 33} /\ (power' # "up" \/ ~running')),
           Renews(s), WolSaved', Flags'
    PROVE  Whole'
<1>1. Start("main", s) /\ {"main", "task", "phy"} \subseteq Threads
  BY DEF Main, Threads
<1>2. UNCHANGED config
  BY <1>1 DEF Start
<1>3. mac_version' = mac_version /\ board' = board
  BY <1>2 DEF config
<1>4. script \in [Threads -> Scripts]
  BY DEF IInv, Places
<1>5. script'["main"] = s /\ script'["phy"] = script["phy"] /\ script'["task"] = script["task"]
  BY <1>1, <1>4 DEF Start
<1>6. LinkOk'
  BY <1>3, <1>5 DEF Whole, Midst, LinkOk, LinkLike, TaskLike
<1>7. MainOk'
  BY <1>3, <1>5 DEF MainOk
<1>8. Calm(Device', s)
  <2>1. PICK d : d = Device'
    OBVIOUS
  <2>2. Like(d)'
    BY <1>2, <2>1, DeviceNext
  <2> QED BY <2>1, <2>2
<1>9. Fresh(s)
  BY <1>8 DEF Calm
<1> QED BY <1>1, <1>6, <1>7, <1>9, WholeKeptByStart

(* Scripts that write none of the bits asked for or what they shall be, and  *)
(* leave the PHY of the link alone.                                          *)
LEMMA PlainStarts ==
    ASSUME IInv, Whole, NEW s, NEW state, Main(s, state), \A q : Like(q)' => Plain(q, s),
           Renews(s), WolSaved', Flags'
    PROVE  Whole'
<1>1. UNCHANGED config
  BY DEF Main, Start
<1>2. PICK d : d = Device'
  OBVIOUS
<1>3. Plain(d, s)
  BY <1>1, <1>2, DeviceNext
<1>4. Sheltered(s)
  BY <1>3, NoEphySheltered DEF Plain
<1>5. \A q : Like(q)' => Calm(q, s)
  BY DEF Plain
<1> QED BY <1>4, <1>5, MainStarts

(* Beside a resume: registers without a lock are exposed then.               *)
LEMMA TaskStarts ==
    ASSUME IInv, Whole, NEW s, Beside(s), TaskLike(s), UNCHANGED <<saved_wolopts, wol, power, running, deaf>>,
           promisc' \in BOOLEAN, rxall' \in BOOLEAN
    PROVE  Whole'
<1>1. Start("task", s) /\ {"main", "task", "phy"} \subseteq Threads
  BY DEF Beside, Threads
<1>2. UNCHANGED config
  BY <1>1 DEF Start
<1>3. mac_version' = mac_version /\ board' = board
  BY <1>2 DEF config
<1>4. script \in [Threads -> Scripts]
  BY DEF IInv, Places
<1>5. script'["task"] = s /\ script'["phy"] = script["phy"] /\ script'["main"] = script["main"]
  BY <1>1, <1>4 DEF Start
<1>6. LinkOk'
  BY <1>3, <1>5 DEF Whole, Midst, LinkOk, LinkLike, TaskLike
<1>7. MainOk'
  <2>1. MainOk
    BY DEF Whole, Midst
  <2>2. \A q : Like(q)' <=> Like(q)
    BY <1>3 DEF Like
  <2> QED BY <1>3, <1>5, <2>1, <2>2 DEF MainOk
<1>8. Suits(Device) /\ Device.v = mac_version /\ Device.board = board
  BY DeviceSuits DEF IInv
<1>9. Fresh(s)
  BY <1>8 DEF TaskLike, Calm
<1>10. "resume" \in faults'
  BY <1>1 DEF Start, SetIf
<1>11. WolSaved' /\ Flags'
  BY <1>2, DeviceNext DEF WolSaved, Flags
<1>12. Renews(s)
  <2> SUFFICES ASSUME NEW r, NEW b, Asked(Device', r, b), ~Exposed(r)'
               PROVE  Asked(Device, r, b) /\ (Shall(Device', r, b) <=> Shall(Device, r, b))
    BY DEF Renews
  <2>1. r # "RxConfig"
    BY <1>10 DEF Exposed, TwoResets, Guarded, OcpRegs
  <2>2. /\ Device.v = Device'.v /\ Device.board = Device'.board /\ Device.aspm = Device'.aspm
        /\ Device.wol = Device'.wol /\ Device.up = Device'.up /\ Device.deaf = Device'.deaf
    BY <1>2, DeviceNext
  <2> QED BY <2>1, <2>2, AlikeRx
<1> QED BY <1>1, <1>6, <1>7, <1>9, <1>11, <1>12, WholeKeptByStart

(* Nothing need be renewed while nothing else is asked for.                  *)
LEMMA RenewsSame == ASSUME NEW s, Device' = Device PROVE Renews(s)
BY DEF Renews

(* What is asked for stays while the variables it is made of do.             *)
LEMMA SoftSame ==
    ASSUME IInv, Whole, UNCHANGED config, wol' = wol, (power' = "up" /\ running') = (power = "up" /\ running),
           deaf' = deaf, promisc' = promisc, rxall' = rxall
    PROVE  Device' = Device
<1>1. mac_version' = mac_version /\ board' = board
  BY DEF config
<1>2. Manages' = Manages
  BY <1>1 DEF Manages
<1> QED BY <1>1, <1>2 DEF Device

(* A closed device is put down as it is: nothing is run.                     *)
LEMMA NothingStarts ==
    ASSUME IInv, Whole, NEW state, Main(<<>>, state), Device' = Device, WolSaved', Flags'
    PROVE  Whole'
<1>1. \A q : Plain(q, <<>>)
  BY EmptyPlain
<1> QED BY <1>1, RenewsSame, PlainStarts

(* ethtool -s wol.                                                           *)
LEMMA WholeSetWol == ASSUME IInv, Whole, set_wol PROVE Whole'
<1>1. PICK opts \in WolChoices :
        /\ Main(rtl8169_set_wol(mac_version, board, opts), "up")
        /\ saved_wolopts' = opts /\ wol' = opts
        /\ UNCHANGED <<jumbo, promisc, rxall, power, running, deaf>>
  BY DEF set_wol
<1> DEFINE s == rtl8169_set_wol(mac_version, board, opts)
<1>2. Main(s, "up") /\ UNCHANGED config
  BY <1>1 DEF Main, Start
<1>3. opts \in SUBSET WolOpts
  BY ChipAssumption
<1>4. ASSUME NEW q, q.v = mac_version, q.board = board, q.wol = opts
      PROVE  Plain(q, s) /\ \A r, b : Wakes(q, r, b) => Ends(q, s, 1, r, b)
  <2>1. rtl8169_set_wol(q.v, q.board, q.wol) = s
    BY <1>4
  <2> HIDE DEF s
  <2> QED BY <1>3, <1>4, <2>1, SetWolIs
<1> HIDE DEF s
<1>5. /\ Device.v = Device'.v /\ Device.board = Device'.board /\ Device.aspm = Device'.aspm
      /\ Device.up = Device'.up /\ Device.deaf = Device'.deaf
      /\ Device.promisc = Device'.promisc /\ Device.rxall = Device'.rxall
      /\ Device'.v = mac_version /\ Device'.board = board /\ Device'.wol = opts
  BY <1>1, <1>2, DeviceNext
<1>6. Renews(s)
  <2>1. ASSUME NEW r, NEW b, Asked(Device', r, b), ~Ends(Device', s, 1, r, b)
        PROVE  Asked(Device, r, b) /\ (Shall(Device', r, b) <=> Shall(Device, r, b))
    <3>1. ~Wakes(Device', r, b)
      BY <1>4, <1>5, <2>1
    <3> QED BY <1>5, <2>1, <3>1, AlikeWol
  <2> QED BY <2>1 DEF Renews
<1>7. Flags'
  BY <1>1, <1>2, <1>3, DeviceNext DEF Flags
<1>8. WolSaved'
  BY <1>1 DEF WolSaved
<1>9. \A q : Like(q)' => Plain(q, s)
  BY <1>1, <1>2, <1>4, DeviceNext
<1> QED BY <1>2, <1>6, <1>7, <1>8, <1>9, PlainStarts

(* ndo_set_mac_address and ndo_change_mtu.                                   *)
LEMMA WholeSetMac == ASSUME IInv, Whole, set_mac_address \/ change_mtu PROVE Whole'
<1>0. PICK j : j = jumbo'
  OBVIOUS
<1>1. PICK s \in {rtl_rar_set(mac_version), rtl_jumbo_config(mac_version, j)} :
        Main(s, "up") /\ UNCHANGED <<saved_wolopts, wol, promisc, rxall, power, running, deaf>>
  <2>1. CASE set_mac_address
    BY <2>1 DEF set_mac_address, soft
  <2>2. CASE change_mtu
    BY <1>0, <2>2 DEF change_mtu
  <2> QED BY <2>1, <2>2
<1>2. \A q : Plain(q, s)
  BY <1>1, RarSetPlain, JumboPlain
<1>3. UNCHANGED config
  BY <1>1 DEF Main, Start
<1>4. Renews(s)
  BY <1>1, <1>3, SoftSame, RenewsSame
<1>5. WolSaved' /\ Flags'
  BY <1>1, <1>3, DeviceNext DEF WolSaved, Flags
<1> QED BY <1>1, <1>2, <1>4, <1>5, PlainStarts

(* ndo_set_rx_mode: of a device closed or asleep nothing is written.         *)
LEMMA WholeRxMode == ASSUME IInv, Whole, set_rx_mode PROVE Whole'
<1>1. UNCHANGED <<saved_wolopts, wol, jumbo, rxall, power, running, deaf>> /\ promisc' = ~promisc
  BY DEF set_rx_mode
<1>2. UNCHANGED config
  BY DEF set_rx_mode, Main, Beside, Start
<1>3. /\ Device.v = Device'.v /\ Device.board = Device'.board /\ Device.aspm = Device'.aspm
      /\ Device.wol = Device'.wol /\ Device.up = Device'.up /\ Device.deaf = Device'.deaf
      /\ Device.rxall = Device'.rxall /\ Device'.up = (power = "up" /\ running)
  BY <1>1, <1>2, DeviceNext
<1>4. WolSaved' /\ Flags'
  BY <1>1, <1>2, DeviceNext DEF WolSaved, Flags
<1>5. CASE Main(rtl_set_rx_mode, "up")
  <2> DEFINE s == rtl_set_rx_mode
  <2>1. Main(s, "up")
    BY <1>5
  <2>2. /\ \A q : Plain(q, s)
        /\ \A q, b : Asked(q, "RxConfig", b) /\ b \in ModeBits => Ends(q, s, 1, "RxConfig", b)
    BY RxPlain, RxModeIs
  <2> HIDE DEF s
  <2>3. Renews(s)
    <3>1. ASSUME NEW r, NEW b, Asked(Device', r, b), ~Ends(Device', s, 1, r, b)
          PROVE  Asked(Device, r, b) /\ (Shall(Device', r, b) <=> Shall(Device, r, b))
      <4>1. r # "RxConfig" \/ b \notin ModeBits
        BY <2>2, <3>1
      <4> QED BY <1>3, <3>1, <4>1, AlikeRx
    <3> QED BY <3>1 DEF Renews
  <2> QED BY <1>4, <2>1, <2>2, <2>3, PlainStarts
<1>6. CASE (~running /\ Main(<<>>, "up")) \/ Main(<<>>, "runtime")
  <2>1. ~Device'.up
    BY <1>3, <1>6 DEF Main
  <2>2. Renews(<<>>)
    <3>1. ASSUME NEW r, NEW b, Asked(Device', r, b)
          PROVE  Asked(Device, r, b) /\ (Shall(Device', r, b) <=> Shall(Device, r, b))
      BY <1>3, <2>1, <3>1, AlikeRx
    <3> QED BY <3>1 DEF Renews
  <2>3. \A q : Plain(q, <<>>)
    BY EmptyPlain
  <2>4. PICK state : Main(<<>>, state)
    BY <1>6
  <2> QED BY <1>4, <2>2, <2>3, <2>4, PlainStarts
<1>7. CASE Beside(<<>>)
  <2>1. TaskLike(<<>>)
    BY EmptyPlain, NoEphySheltered DEF TaskLike, Plain
  <2> QED BY <1>1, <1>4, <1>7, <2>1, TaskStarts DEF Flags
<1> QED BY <1>5, <1>6, <1>7 DEF set_rx_mode

(* ndo_set_features: of a device asleep nothing is written.                  *)
LEMMA WholeFeatures == ASSUME IInv, Whole, set_features PROVE Whole'
<1> DEFINE s == rtl_set_rx_config_features
<1>1. UNCHANGED <<saved_wolopts, wol, jumbo, promisc, power, running, deaf>> /\ rxall' = ~rxall
  BY DEF set_features
<1>2. UNCHANGED config
  BY DEF set_features, Main, Beside, Start
<1>3. /\ Device.v = Device'.v /\ Device.board = Device'.board /\ Device.aspm = Device'.aspm
      /\ Device.wol = Device'.wol /\ Device.up = Device'.up /\ Device.deaf = Device'.deaf
      /\ Device.promisc = Device'.promisc /\ Device'.up = (power = "up" /\ running)
  BY <1>1, <1>2, DeviceNext
<1>4. WolSaved' /\ Flags'
  BY <1>1, <1>2, DeviceNext DEF WolSaved, Flags
<1>5. Main(s, "up") \/ Main(<<>>, "runtime") \/ Beside(s)
  BY DEF set_features
<1>6. /\ \A q : Plain(q, s)
      /\ \A q, b : Asked(q, "RxConfig", b) /\ b \in ErrorBits => Ends(q, s, 1, "RxConfig", b)
  BY RxPlain, RxFeaturesIs
<1> HIDE DEF s
<1>7. CASE Main(s, "up")
  <2>1. Renews(s)
    <3>1. ASSUME NEW r, NEW b, Asked(Device', r, b), ~Ends(Device', s, 1, r, b)
          PROVE  Asked(Device, r, b) /\ (Shall(Device', r, b) <=> Shall(Device, r, b))
      <4>1. r # "RxConfig" \/ b \notin ErrorBits
        BY <1>6, <3>1
      <4> QED BY <1>3, <3>1, <4>1, AlikeRx
    <3> QED BY <3>1 DEF Renews
  <2> QED BY <1>4, <1>6, <1>7, <2>1, PlainStarts
<1>8. CASE Main(<<>>, "runtime")
  <2>1. ~Device'.up
    BY <1>3, <1>8 DEF Main
  <2>2. Renews(<<>>)
    <3>1. ASSUME NEW r, NEW b, Asked(Device', r, b)
          PROVE  Asked(Device, r, b) /\ (Shall(Device', r, b) <=> Shall(Device, r, b))
      BY <1>3, <2>1, <3>1, AlikeRx
    <3> QED BY <3>1 DEF Renews
  <2>3. \A q : Plain(q, <<>>)
    BY EmptyPlain
  <2> QED BY <1>4, <1>8, <2>2, <2>3, PlainStarts
<1>9. CASE Beside(s)
  <2>1. TaskLike(s)
    <3>1. PICK q : q = Device
      OBVIOUS
    <3>2. Sheltered(s)
      BY <1>6, <3>1, NoEphySheltered DEF Plain
    <3> QED BY <1>6, <3>2 DEF TaskLike, Plain
  <2> QED BY <1>1, <1>4, <1>9, <2>1, TaskStarts DEF Flags
<1> QED BY <1>5, <1>7, <1>8, <1>9

(* rtl_task's reset, beside a resume as well.                                *)
LEMMA WholeReset == ASSUME IInv, Whole, rtl_task PROVE Whole'
<1> DEFINE s == rtl_reset_work(mac_version, board, jumbo)
<1>1. (Main(s, "up") \/ Beside(s)) /\ UNCHANGED soft
  BY DEF rtl_task
<1>2. UNCHANGED config
  BY DEF rtl_task, Main, Beside, Start
<1>3. ASSUME NEW q, Suits(q), q.v = mac_version, q.board = board
      PROVE  Calm(q, s) /\ (mac_version >= 32 => Sheltered(s))
  <2>1. rtl_reset_work(q.v, q.board, jumbo) = s
    BY <1>3
  <2> HIDE DEF s
  <2> QED BY <1>3, <2>1, ResetIs
<1> HIDE DEF s
<1>4. UNCHANGED <<saved_wolopts, wol, promisc, rxall, power, running, deaf>>
  BY <1>1 DEF soft
<1>5. Suits(Device) /\ Device.v = mac_version /\ Device.board = board
  BY DeviceSuits DEF IInv
<1>6. TaskLike(s)
  BY <1>3, <1>5 DEF TaskLike
<1>7. WolSaved' /\ Flags'
  BY <1>2, <1>4, DeviceNext DEF WolSaved, Flags
<1>8. CASE Main(s, "up")
  <2>1. Renews(s)
    BY <1>2, <1>4, SoftSame, RenewsSame
  <2>2. \A q : Like(q)' => Calm(q, s)
    BY <1>2, <1>6, DeviceNext DEF TaskLike
  <2> QED BY <1>6, <1>7, <1>8, <2>1, <2>2, MainStarts DEF TaskLike
<1>9. CASE Beside(s)
  BY <1>4, <1>6, <1>7, <1>9, TaskStarts DEF Flags
<1> QED BY <1>1, <1>8, <1>9

(* Taking the device down, to close it or to suspend it: what wakes is kept, *)
(* and the receiver is opened again for it, or shut.                         *)
LEMMA DownStarts ==
    ASSUME IInv, Whole, Main(rtl8169_down(mac_version, board, wol # {}), "up"),
           wol' = wol, promisc' = promisc, rxall' = rxall, power' # "up" \/ ~running', running' \in BOOLEAN,
           deaf' = (wol = {}), WolSaved'
    PROVE  Whole'
<1>0. PICK w \in BOOLEAN : w = (wol # {})
  OBVIOUS
<1> DEFINE s == rtl8169_down(mac_version, board, w)
<1>1. Main(s, "up") /\ UNCHANGED config
  BY <1>0 DEF Main, Start
<1>2. ASSUME NEW q, q.v = mac_version, q.board = board, ~q.up, q.wol = wol, q.deaf = (wol = {})
      PROVE  /\ Calm(q, s)
             /\ mac_version \notin {32, 33} => NoEphy(s)
             /\ \A r, b : Asked(q, r, b) /\ r \in {"RxConfig", "MISC"} => Ends(q, s, 1, r, b)
  <2>1. rtl8169_down(q.v, q.board, w) = s /\ (w <=> ~q.deaf)
    BY <1>0, <1>2
  <2> HIDE DEF s
  <2> QED BY <1>2, <2>1, DownIs
<1> HIDE DEF s
<1>3. /\ Device'.v = mac_version /\ Device'.board = board /\ ~Device'.up /\ Device'.wol = wol
      /\ Device'.deaf = (wol = {})
      /\ Device.v = Device'.v /\ Device.aspm = Device'.aspm /\ Device.board = Device'.board
      /\ Device.wol = Device'.wol
  BY <1>1, DeviceNext
<1>4. /\ mac_version \notin {32, 33} => NoEphy(s)
      /\ \A r, b : Asked(Device', r, b) /\ r \in {"RxConfig", "MISC"} => Ends(Device', s, 1, r, b)
  BY <1>2, <1>3
<1>5. Renews(s)
  <2>1. ASSUME NEW r, NEW b, Asked(Device', r, b), ~Ends(Device', s, 1, r, b)
        PROVE  Asked(Device, r, b) /\ (Shall(Device', r, b) <=> Shall(Device, r, b))
    BY <1>3, <1>4, <2>1, AlikePower
  <2> QED BY <2>1 DEF Renews
<1>6. Flags'
  BY <1>1, DeviceNext DEF Flags
<1>7. Sheltered(s) \/ (mac_version \in {32, 33} /\ (power' # "up" \/ ~running'))
  BY <1>4, NoEphySheltered
<1>8. \A q : Like(q)' => Calm(q, s)
  BY <1>1, <1>2, DeviceNext
<1> QED BY <1>1, <1>5, <1>6, <1>7, <1>8, MainStarts

(* Closing the device.                                                       *)
LEMMA WholeClose == ASSUME IInv, Whole, rtl8169_close PROVE Whole'
<1>1. /\ Main(rtl8169_down(mac_version, board, wol # {}), "up")
      /\ running' = FALSE /\ deaf' = (wol = {})
      /\ UNCHANGED <<saved_wolopts, wol, jumbo, promisc, rxall, power>>
  BY DEF rtl8169_close
<1>2. UNCHANGED config
  BY <1>1 DEF Main, Start
<1>3. WolSaved'
  BY <1>1, <1>2, DeviceNext DEF WolSaved
<1> QED BY <1>1, <1>3, DownStarts

(* The suspend of the system, of an open device or a closed one.             *)
LEMMA WholeSuspend == ASSUME IInv, Whole, system_suspend PROVE Whole'
<1>1. /\ Main(rtl8169_net_suspend(mac_version, board, wol # {}, running), "up")
      /\ power' = "system" /\ deaf' = (IF running THEN wol = {} ELSE deaf)
      /\ UNCHANGED <<saved_wolopts, wol, jumbo, promisc, rxall, running>>
  BY DEF system_suspend
<1>2. UNCHANGED config
  BY <1>1 DEF Main, Start
<1>3. WolSaved' /\ Flags /\ power = "up"
  BY <1>1, <1>2, DeviceNext DEF WolSaved, Main
<1>4. CASE running
  <2>1. running = TRUE
    BY <1>3, <1>4 DEF Flags
  <2>2. Main(rtl8169_down(mac_version, board, wol # {}), "up")
    BY <1>1, <2>1 DEF rtl8169_net_suspend, If
  <2> QED BY <1>1, <1>3, <2>1, <2>2, DownStarts
<1>5. CASE ~running
  <2>1. running = FALSE
    BY <1>3, <1>5 DEF Flags
  <2>2. Main(<<>>, "up")
    BY <1>1, <2>1 DEF rtl8169_net_suspend, If
  <2>3. Device' = Device
    BY <1>1, <1>2, <2>1, SoftSame
  <2>4. Flags'
    BY <1>1, <1>3, <2>1 DEF Flags
  <2> QED BY <1>3, <2>2, <2>3, <2>4, NothingStarts
<1> QED BY <1>4, <1>5

(* The runtime suspend: of an open device it asks for the link alone.        *)
LEMMA WholeRuntimeSuspend == ASSUME IInv, Whole, runtime_suspend PROVE Whole'
<1>0. /\ Main(rtl8169_runtime_suspend(mac_version, board, running), "up")
      /\ wol' = (IF running THEN {"PHY"} ELSE wol)
      /\ deaf' = (deaf /\ ~running) /\ power' = "runtime"
      /\ UNCHANGED <<saved_wolopts, jumbo, promisc, rxall, running>>
  BY DEF runtime_suspend
<1>1. UNCHANGED config
  BY <1>0 DEF Main, Start
<1>2. WolSaved' /\ Flags
  BY <1>0, <1>1, DeviceNext DEF WolSaved
<1>3. Flags'
  BY <1>0, <1>2 DEF Flags, WolOpts
<1>4. CASE ~running
  <2>1. running = FALSE
    BY <1>2, <1>4 DEF Flags
  <2>2. Main(<<>>, "up")
    BY <1>0, <2>1 DEF rtl8169_runtime_suspend, If
  <2>3. wol' = wol /\ deaf' = deaf
    BY <1>0, <1>2, <2>1 DEF Flags
  <2>4. Device' = Device
    BY <1>0, <1>1, <2>1, <2>3, SoftSame
  <2> QED BY <1>2, <1>3, <2>2, <2>4, NothingStarts
<1>5. CASE running
  <2> DEFINE s == rtl8169_runtime_suspend(mac_version, board, TRUE)
  <2>1. running = TRUE
    BY <1>2, <1>5 DEF Flags
  <2>2. Main(s, "up") /\ wol' = {"PHY"} /\ deaf' = FALSE
    BY <1>0, <2>1
  <2>3. ASSUME NEW q, q.v = mac_version, q.board = board, ~q.up, ~q.deaf, q.wol = {"PHY"}
        PROVE  /\ Calm(q, s)
               /\ mac_version \notin {32, 33} => NoEphy(s)
               /\ \A r, b : Asked(q, r, b) => Ends(q, s, 1, r, b) \/ Aspm(r, b) \/ Filter(q, r, b)
    <3>1. rtl8169_runtime_suspend(q.v, q.board, TRUE) = s
      BY <2>3
    <3> HIDE DEF s
    <3> QED BY <2>3, <3>1, RuntimeSuspendIs
  <2> HIDE DEF s
  <2>4. /\ Device'.v = mac_version /\ Device'.board = board /\ ~Device'.up /\ ~Device'.deaf
        /\ Device'.wol = {"PHY"} /\ Device.v = Device'.v /\ Device.aspm = Device'.aspm
    BY <1>0, <1>1, <2>2, DeviceNext
  <2>5. /\ mac_version \notin {32, 33} => NoEphy(s)
        /\ \A r, b : Asked(Device', r, b) => Ends(Device', s, 1, r, b) \/ Aspm(r, b) \/ Filter(Device', r, b)
    BY <2>3, <2>4
  <2>6. Renews(s)
    <3>1. ASSUME NEW r, NEW b, Asked(Device', r, b), ~Ends(Device', s, 1, r, b)
          PROVE  Asked(Device, r, b) /\ (Shall(Device', r, b) <=> Shall(Device, r, b))
      BY <2>4, <2>5, <3>1, AlikeAspm
    <3> QED BY <3>1 DEF Renews
  <2>7. Sheltered(s) \/ (mac_version \in {32, 33} /\ power' # "up")
    BY <1>0, <2>5, NoEphySheltered
  <2>8. \A q : Like(q)' => Calm(q, s)
    BY <1>0, <1>1, <2>2, <2>3, DeviceNext
  <2> QED BY <1>2, <1>3, <2>2, <2>6, <2>7, <2>8, MainStarts
<1> QED BY <1>4, <1>5

(* Opening the device renews what is asked of the receiver and of ASPM.      *)
LEMMA WholeOpen == ASSUME IInv, Whole, rtl_open PROVE Whole'
<1> DEFINE s == rtl8169_up(mac_version, board, jumbo)
<1>1. Main(s, "up") /\ UNCHANGED config /\ running' = TRUE /\ deaf' = FALSE
      /\ UNCHANGED <<saved_wolopts, wol, jumbo, promisc, rxall, power>>
  BY DEF rtl_open, Main, Start
<1>2. ASSUME NEW q, Suits(q), q.v = mac_version, q.board = board
      PROVE  Calm(q, s) /\ Renewed(q, s) /\ (mac_version >= 32 => Sheltered(s))
  <2>1. rtl8169_up(q.v, q.board, jumbo) = s
    BY <1>2
  <2> HIDE DEF s
  <2> QED BY <1>2, <2>1, UpIs
<1> HIDE DEF s
<1>3. /\ Device'.v = mac_version /\ Device'.board = board /\ Suits(Device')
      /\ Device.v = Device'.v /\ Device.aspm = Device'.aspm /\ Device.board = Device'.board
      /\ Device.wol = Device'.wol
  BY <1>1, DeviceNext
<1>4. Renewed(Device', s) /\ (mac_version >= 32 => Sheltered(s))
  BY <1>2, <1>3
<1>5. Renews(s)
  <2>1. ASSUME NEW r, NEW b, Asked(Device', r, b), ~Ends(Device', s, 1, r, b)
        PROVE  Asked(Device, r, b) /\ (Shall(Device', r, b) <=> Shall(Device, r, b))
    <3>1. r # "RxConfig"
      BY <1>4, <2>1 DEF Renewed
    <3>2. ~Gate(Device', r, b)
      BY <1>4, <2>1 DEF Renewed, Gate
    <3>3. r = "MISC" => Gate(Device', r, b)
      BY <2>1 DEF Asked, Wakes, Magic, Power, Link, Unicast, Broadcast, Multicast, Aspm, Filter, Reception
    <3> QED BY <1>3, <2>1, <3>1, <3>2, <3>3, AlikePower
  <2> QED BY <2>1 DEF Renews
<1>6. WolSaved' /\ Flags'
  BY <1>1, DeviceNext DEF WolSaved, Flags
<1>7. \A q : Like(q)' => Calm(q, s)
  BY <1>1, <1>2, DeviceNext
<1> QED BY <1>1, <1>4, <1>5, <1>6, <1>7, MainStarts

(* Both resumes, of an open device.                                          *)
LEMMA WholeResumeOpen == ASSUME IInv, Whole, runtime_resume \/ resume, running PROVE Whole'
<1>0. running = TRUE
  <2>1. Flags
    BY DEF Whole, Midst, Typed, Flags
  <2> QED BY <2>1 DEF Flags
<1>1. PICK s : /\ \/ /\ s = rtl8169_runtime_resume(mac_version, board, saved_wolopts, jumbo, TRUE)
                     /\ Main(s, "runtime") /\ deaf' = (deaf /\ ~running)
                  \/ /\ s = rtl8169_resume(mac_version, board, saved_wolopts, jumbo, TRUE)
                     /\ Main(s, "system") /\ deaf' = ((deaf \/ mac_version = 37) /\ ~running)
               /\ wol' = saved_wolopts /\ UNCHANGED <<saved_wolopts, jumbo, promisc, rxall, running>>
  <2>1. CASE runtime_resume
    BY <1>0, <2>1, Zenon DEF runtime_resume
  <2>2. CASE resume
    BY <1>0, <2>2, Zenon DEF resume
  <2> QED BY <2>1, <2>2, Zenon
<1>2. UNCHANGED config /\ deaf' = FALSE
  BY <1>1 DEF Main, Start
<1>3. /\ saved_wolopts \in SUBSET WolOpts
      /\ Device'.v = mac_version /\ Device'.board = board /\ Device'.wol = saved_wolopts /\ Suits(Device')
      /\ Device.v = Device'.v /\ Device.aspm = Device'.aspm
  BY <1>1, <1>2, DeviceNext, ChipAssumption
<1>4. ASSUME NEW q, Suits(q), q.v = mac_version, q.board = board, q.wol = saved_wolopts
      PROVE  Calm(q, s) /\ Remakes(q, s) /\ (mac_version >= 32 => Sheltered(s))
  <2>1. s \in {rtl8169_runtime_resume(q.v, q.board, q.wol, jumbo, TRUE),
               rtl8169_resume(q.v, q.board, q.wol, jumbo, TRUE)}
    BY <1>1, <1>4
  <2> QED BY <1>3, <1>4, <2>1, ResumeIs
<1>5. Remakes(Device', s) /\ (mac_version >= 32 => Sheltered(s))
  BY <1>3, <1>4
<1>6. Renews(s)
  <2>1. ASSUME NEW r, NEW b, Asked(Device', r, b), ~Ends(Device', s, 1, r, b)
        PROVE  Asked(Device, r, b) /\ (Shall(Device', r, b) <=> Shall(Device, r, b))
    BY <1>3, <1>5, <2>1, AlikeAspm DEF Remakes
  <2> QED BY <2>1 DEF Renews
<1>7. WolSaved' /\ Flags'
  BY <1>1, <1>2, <1>3, DeviceNext DEF WolSaved, Flags
<1>8. \A q : Like(q)' => Calm(q, s)
  BY <1>1, <1>2, <1>4, DeviceNext
<1>9. PICK state : Main(s, state)
  BY <1>1
<1> HIDE <1>1
<1> QED BY <1>5, <1>6, <1>7, <1>8, <1>9, MainStarts, Zenon

(* Both resumes, of a closed device.                                         *)
LEMMA WholeResumeClosed == ASSUME IInv, Whole, runtime_resume \/ resume, ~running PROVE Whole'
<1>0. running = FALSE /\ deaf \in BOOLEAN
  <2>1. Flags
    BY DEF Whole, Midst, Typed, Flags
  <2> QED BY <2>1 DEF Flags
<1>1. PICK s : /\ \/ /\ s = rtl8169_runtime_resume(mac_version, board, saved_wolopts, jumbo, FALSE)
                     /\ Main(s, "runtime") /\ deaf' = deaf
                  \/ /\ s = rtl8169_resume(mac_version, board, saved_wolopts, jumbo, FALSE)
                     /\ Main(s, "system") /\ deaf' = (deaf \/ mac_version = 37)
               /\ wol' = saved_wolopts /\ UNCHANGED <<saved_wolopts, jumbo, promisc, rxall, running>>
  BY <1>0 DEF runtime_resume, resume
<1>2. UNCHANGED config
  BY <1>1 DEF Main, Start
<1>3. /\ saved_wolopts \in SUBSET WolOpts
      /\ Device'.v = mac_version /\ Device'.board = board /\ Device'.wol = saved_wolopts
      /\ Device'.deaf = deaf' /\ Device.deaf = deaf /\ Device'.up = FALSE /\ Device.up = FALSE
      /\ Device.v = Device'.v /\ Device.aspm = Device'.aspm /\ Device.board = Device'.board
      /\ Device.promisc = Device'.promisc /\ Device.rxall = Device'.rxall
  BY <1>0, <1>1, <1>2, DeviceNext, ChipAssumption
<1>4. ASSUME NEW q, q.v = mac_version, q.board = board, q.wol = saved_wolopts, ~q.up, q.deaf = deaf'
      PROVE  Plain(q, s) /\ \A r, b : Wakes(q, r, b) => Ends(q, s, 1, r, b)
  <2>1. \/ s = rtl8169_runtime_resume(q.v, q.board, q.wol, jumbo, FALSE)
        \/ s = rtl8169_resume(q.v, q.board, q.wol, jumbo, FALSE) /\ (q.v = 37 => q.deaf)
    BY <1>1, <1>4
  <2> QED BY <1>3, <1>4, <2>1, ClosedResumeIs
<1>5. \A r, b : Wakes(Device', r, b) => Ends(Device', s, 1, r, b)
  BY <1>3, <1>4
<1>6. Renews(s)
  <2> SUFFICES ASSUME NEW r, NEW b, Asked(Device', r, b), ~Ends(Device', s, 1, r, b)
               PROVE  Asked(Device, r, b) /\ (Shall(Device', r, b) <=> Shall(Device, r, b))
    BY DEF Renews
  <2>1. ~Wakes(Device', r, b)
    BY <1>5
  <2>2. CASE deaf' = deaf
    BY <1>3, <2>1, <2>2, AlikeWol
  <2>3. CASE deaf' # deaf
    <3>1. ~Receives(Device')
      BY <1>0, <1>1, <1>3, <2>3 DEF Receives
    <3>2. Aspm(r, b) \/ Filter(Device', r, b)
      BY <1>3, <2>1, <3>1 DEF Asked, Gate, Reception
    <3> QED BY <1>3, <3>2, AlikeAspm
  <2> QED BY <2>2, <2>3
<1>7. WolSaved' /\ Flags'
  BY <1>0, <1>1, <1>2, <1>3, DeviceNext DEF WolSaved, Flags
<1>8. \A q : Like(q)' => Plain(q, s)
  BY <1>0, <1>1, <1>2, <1>4, DeviceNext
<1>9. PICK state : Main(s, state)
  BY <1>1
<1> HIDE <1>1
<1> QED BY <1>6, <1>7, <1>8, <1>9, PlainStarts

(* phylib's calls.                                                           *)
LEMMA WholeLink == ASSUME IInv, Whole, phylib PROVE Whole'
<1> DEFINE fast == rtl_link_chg_patch(mac_version, 1000)
           slow == rtl_link_chg_patch(mac_version, 10)
           bmcr == WriteBMCR(mac_version, FALSE)
           past == Paged("a43")
           down == link_down(mac_version, board)
<1>1. PICK s \in {fast, slow, bmcr, past, down} : Start("phy", s) /\ UNCHANGED soft
  <2> DEFINE from == {fast, slow, down} \ {<<>>}
  <2>1. (\E s \in from : Start("phy", s)) \/ Start("phy", bmcr) \/ Start("phy", past)
    BY Zenon DEF phylib
  <2>2. UNCHANGED soft
    BY DEF phylib
  <2> HIDE DEF fast, slow, bmcr, past, down
  <2> QED BY <2>1, <2>2
<1>2. UNCHANGED config /\ {"phy", "task", "main"} \subseteq Threads
  BY <1>1 DEF Start, Threads
<1>3. mac_version \in Versions /\ board \in Boards(mac_version) /\ mac_version' = mac_version /\ board' = board
  BY <1>2, DeviceNext
<1>4. LinkLike(s)
  <2>1. \/ \E speed : s = rtl_link_chg_patch(mac_version, speed)
        \/ s = bmcr \/ s = past \/ s = down
    <3>1. (\E speed : fast = rtl_link_chg_patch(mac_version, speed))
          /\ (\E speed : slow = rtl_link_chg_patch(mac_version, speed))
      OBVIOUS
    <3> HIDE DEF fast, slow, bmcr, past, down
    <3> QED BY <3>1
  <2>2. Linkable(mac_version, board, s)
    BY <1>3, <2>1, LinkIs, Zenon
  <2> QED BY <2>2 DEF LinkLike, TaskLike, Linkable
<1> HIDE DEF fast, slow, bmcr, past, down
<1>5. UNCHANGED <<saved_wolopts, wol, power, promisc, rxall, running, deaf>>
  BY <1>1 DEF soft
<1>6. script \in [Threads -> Scripts]
  BY DEF IInv, Places
<1>7. script'["phy"] = s /\ script'["main"] = script["main"] /\ script'["task"] = script["task"]
  BY <1>1, <1>2, <1>6 DEF Start
<1>8. LinkOk'
  BY <1>3, <1>4, <1>7 DEF Whole, Midst, LinkOk, LinkLike, TaskLike
<1>9. MainOk'
  <2>1. MainOk
    BY DEF Whole, Midst
  <2>2. \A q : Like(q)' <=> Like(q)
    BY <1>3, <1>5 DEF Like
  <2> QED BY <1>3, <1>5, <1>7, <2>1, <2>2 DEF MainOk
<1>10. Suits(Device) /\ Device.v = mac_version /\ Device.board = board
  BY DeviceSuits DEF IInv
<1>11. Fresh(s)
  BY <1>4, <1>10 DEF LinkLike, TaskLike, Calm
<1>12. Renews(s)
  BY <1>2, <1>5, SoftSame, RenewsSame
<1>13. WolSaved' /\ Flags'
  BY <1>2, <1>5, DeviceNext DEF WolSaved, Flags
<1>14. Start("phy", s)
  BY <1>1
<1> QED BY <1>2, <1>5, <1>8, <1>9, <1>11, <1>12, <1>13, <1>14, WholeKeptByStart

(* The first resume makes all that is asked for so.                          *)
LEMMA WholeInit == Init => Whole
<1> SUFFICES ASSUME Init PROVE Whole
  OBVIOUS
<1>1. IInv
  BY Initially
<1>2. /\ wol = {} /\ saved_wolopts = {} /\ promisc = FALSE /\ rxall = FALSE /\ power = "up"
      /\ running = TRUE /\ deaf = FALSE
      /\ mem = [r \in Registers |-> {}] /\ eridr = {} /\ faults = {}
      /\ pc = [t \in Threads |-> 1] /\ tmp = [t \in Threads |-> {}] /\ arg = [t \in Threads |-> {}]
  BY DEF Init
<1>3. /\ Device.v = mac_version /\ Device.board = board /\ Suits(Device) /\ mac_version \in Nat
      /\ Device.aspm = Manages /\ Device.wol = {}
  BY <1>1, <1>2, DeviceSuits DEF IInv
<1> DEFINE s == rtl8169_resume(mac_version, board, {}, FALSE, TRUE)
<1>4. script["main"] = s /\ script["phy"] = <<>> /\ script["task"] = <<>>
  BY DEF Init, If, Threads
<1>5. ASSUME NEW q, Suits(q), q.v = mac_version, q.board = board, q.wol = {}
      PROVE  Calm(q, s) /\ Remakes(q, s) /\ (mac_version >= 32 => Sheltered(s))
  <2>1. s \in {rtl8169_runtime_resume(q.v, q.board, q.wol, FALSE, TRUE),
               rtl8169_resume(q.v, q.board, q.wol, FALSE, TRUE)}
    BY <1>5
  <2>2. q.wol \subseteq WolOpts
    BY <1>5
  <2> HIDE DEF s
  <2> QED BY <1>5, <2>1, <2>2, ResumeIs
<1> HIDE DEF s
<1>6. Calm(Device, s) /\ Remakes(Device, s) /\ (mac_version >= 32 => Sheltered(s))
  BY <1>3, <1>5
<1>7. \A t \in Threads : pc[t] = 1
  BY <1>2
<1>8. MainOk
  <2>1. \A q : Like(q) => Suits(q) /\ q.v = mac_version /\ q.board = board /\ q.wol = {}
    BY <1>2 DEF Like
  <2> QED BY <1>4, <1>5, <1>6, <2>1 DEF MainOk
<1>9. LinkOk
  <2>1. (\A q : Calm(q, <<>>)) /\ Sheltered(<<>>) /\ EriOnly(<<>>)
    BY EmptyPlain, EmptyEriOnly, NoEphySheltered DEF Plain
  <2> QED BY <1>4, <2>1 DEF LinkOk, LinkLike, TaskLike
<1>10. Typed
  BY <1>2 DEF Typed
<1>11. ASSUME NEW t \in Threads PROVE ArgOk(t) /\ Held(t)
  <2>1. ~Got(t, 1) /\ ~Got(t, 2) /\ arg[t] = {}
    BY <1>2, <1>7 DEF Got
  <2>2. ~Idle(t) => ReadAt(script[t], 1) /\ GuardedAt(script[t], 1) /\ Now(t) = script[t][1]
    BY <1>1, <1>7, <1>8, <1>9, ScriptsCalm, Midway DEF IInv, Now
  <2>3. ~At(t, "eri_data") /\ ~At(t, "wr") /\ ~At(t, "eri_write")
        /\ ~(At(t, "eridr") /\ Now(t).clear # Bits)
    BY <1>7, <2>2 DEF At, ReadAt, Follows
  <2> QED BY <2>1, <2>3 DEF ArgOk, Held
<1>12. Apart
  <2>1. pc["phy"] = 1 /\ pc["task"] = 1 /\ Len(<<>>) = 0
    BY <1>7 DEF Threads
  <2>2. Idle("phy") /\ Idle("task")
    BY <1>4, <2>1 DEF Idle
  <2> QED BY <2>2 DEF Apart, Threads
<1>13. Settled
  <2> SUFFICES ASSUME NEW r, NEW b, Asked(Device, r, b), \A t \in Threads : Clean(script[t], pc[t], r, b)
               PROVE  Has(r, b) <=> Shall(Device, r, b)
    BY DEF Settled
  <2>1. Clean(s, 1, r, b)
    BY <1>4, <1>7 DEF Threads
  <2>2. ~Ends(Device, s, 1, r, b)
    BY <2>1 DEF Clean, Ends
  <2>3. mac_version < 32 /\ Aspm(r, b)
    BY <1>3, <1>6, <2>2 DEF Remakes
  <2>4. ~Manages
    BY <1>3, <2>3 DEF Manages
  <2>5. ~Shall(Device, r, b)
    BY <1>3, <2>3, <2>4, OnlyAspm
  <2>6. ~Has(r, b)
    <3>1. r \in Registers
      BY AskedAre
    <3> QED BY <1>2, <3>1 DEF Has
  <2> QED BY <2>5, <2>6
<1>14. StaysOff
  <2>1. \A t \in Threads : \A r, b : ~Cleared(script[t], 1, r, b)
    BY DEF Cleared
  <2> QED BY <1>7, <2>1 DEF StaysOff
<1>15. WolSaved
  BY <1>2 DEF WolSaved
<1> QED BY <1>8, <1>9, <1>10, <1>11, <1>12, <1>13, <1>14, <1>15 DEF Whole, Midst

(* Whatever the threads interleave on any chip, what they are in the middle  *)
(* of and what the registers hold agree, rtl_task's reset beside a resume    *)
(* included, but for the registers Exposed names.                            *)
THEOREM RegistersWhole == Spec => [](IInv /\ Whole)
<1>1. Init => IInv /\ Whole
  BY Initially, WholeInit
<1>2. ASSUME IInv, IInv', Whole, [Next]_vars PROVE Whole'
  <2>1. CASE \E t \in Threads : Access(t)
    BY <1>2, <2>1, WholeKeptByAccess
  <2>2. CASE set_wol
    BY <1>2, <2>2, WholeSetWol
  <2>3. CASE set_mac_address \/ change_mtu
    BY <1>2, <2>3, WholeSetMac
  <2>4. CASE rtl_task
    BY <1>2, <2>4, WholeReset
  <2>5. CASE rtl_open
    BY <1>2, <2>5, WholeOpen
  <2>6. CASE set_rx_mode
    BY <1>2, <2>6, WholeRxMode
  <2>7. CASE set_features
    BY <1>2, <2>7, WholeFeatures
  <2>8. CASE rtl8169_close
    BY <1>2, <2>8, WholeClose
  <2>9. CASE runtime_suspend
    BY <1>2, <2>9, WholeRuntimeSuspend
  <2>10. CASE system_suspend
    BY <1>2, <2>10, WholeSuspend
  <2>11. CASE runtime_resume \/ resume
    BY <1>2, <2>11, WholeResumeOpen, WholeResumeClosed
  <2>12. CASE phylib
    BY <1>2, <2>12, WholeLink
  <2>13. CASE UNCHANGED vars
    BY <1>2, <2>13 DEF Whole, Midst, Settled, StaysOff, WolSaved, Typed, ArgOk, Held, Apart, MainOk,
       LinkOk, LinkLike, TaskLike, Like, Got, TwoResets, Device, Manages, Exposed, Has, At, Now, Idle,
       vars, config, windows, cfglock, soft, pages
  <2> QED BY <1>2, <2>1, <2>2, <2>3, <2>4, <2>5, <2>6, <2>7, <2>8, <2>9, <2>10, <2>11, <2>12, <2>13
          DEF Next, Done
<1> QED BY <1>1, <1>2, InductiveInvariant, PTL DEF Spec

(* What is asked for is there at rest.                                       *)
LEMMA AtRest ==
    ASSUME IInv, Whole, Rest, NEW r, NEW b, Asked(Device, r, b), ~Exposed(r)
    PROVE  Has(r, b) <=> Shall(Device, r, b)
<1>1. Places /\ MainOk /\ LinkOk /\ (\A t \in Threads : ArgOk(t)) /\ Settled
  BY DEF IInv, Whole, Midst
<1>2. \A t \in Threads : Clean(script[t], pc[t], r, b)
  BY <1>1, IdleArg DEF Rest
<1> QED BY <1>1, <1>2 DEF Settled

(* Whatever the threads interleave on any chip: what a write puts back is    *)
(* what its register holds, but for ERI registers beside phylib or after a   *)
(* read that timed out, and for registers without a lock after two resets at *)
(* once: on an RTL8125 in the link handler, on any chip in rtl_task beside a *)
(* resume.                                                                   *)
THEOREM NoUpdateLost == Spec => []NoLostUpdate
<1>1. IInv /\ Whole => NoLostUpdate
  BY DEF Whole, Midst, Held, NoLostUpdate
<1> QED BY <1>1, RegistersWhole, PTL

(* Whatever the threads interleave on any chip: at rest the registers that   *)
(* wake the system hold what was last asked of set_wol, after any number of  *)
(* resets, suspends and resumes of the device, open or closed.               *)
THEOREM WolIsAsAsked == Spec => []WolAsAsked
<1>1. IInv /\ Whole => WolAsAsked
  <2> SUFFICES ASSUME IInv, Whole, Rest PROVE WolAsAsked
    BY DEF WolAsAsked
  <2>1. /\ Device.v = mac_version /\ Device.board = board /\ Device.wol = wol
        /\ wol \subseteq WolOpts /\ WolSaved
    BY DeviceSuits DEF IInv, Whole, Midst, Typed
  <2>2. ASSUME NEW r, NEW b, NEW o, Wakes(Device, r, b), Shall(Device, r, b) <=> Wants(o)
        PROVE  Shows(r, b, o)
    <3>1. Asked(Device, r, b)
      BY <2>2 DEF Asked
    <3> QED BY <2>2, <3>1, AtRest DEF Shows
  <2>3. /\ Wants({"PHY"}) <=> "PHY" \in wol
        /\ Wants({"UCAST"}) <=> "UCAST" \in wol
        /\ Wants({"BCAST"}) <=> "BCAST" \in wol
        /\ Wants({"MCAST"}) <=> "MCAST" \in wol
        /\ Wants({"MAGIC"}) <=> "MAGIC" \in wol
        /\ Wants(WolOpts) <=> wol # {}
    BY <2>1 DEF Wants
  <2>4. /\ Wakes(Device, "Config3", "LinkUp") /\ Wakes(Device, "Config5", "UWF")
        /\ Wakes(Device, "Config5", "BWF") /\ Wakes(Device, "Config5", "MWF")
        /\ Wakes(Device, "Config5", "LanWake")
        /\ rtl_is_8125(mac_version) => Wakes(Device, "ocp_c0b6", "b0")
        /\ rtl_is_8168evl_up(mac_version) => Wakes(Device, "eri_dc", "MagicPacket_v2")
        /\ ~rtl_is_8125(mac_version) /\ ~rtl_is_8168evl_up(mac_version) =>
             Wakes(Device, "Config3", "MagicPacket")
        /\ PmeConfig1(mac_version) => Wakes(Device, "Config1", "PMEnable")
        /\ PmeConfig2(mac_version) => Wakes(Device, "Config2", "PME_SIGNAL")
    BY <2>1 DEF Wakes, Link, Unicast, Broadcast, Multicast, Power, Magic
  <2>5. /\ Shows("Config3", "LinkUp", {"PHY"}) /\ Shows("Config5", "UWF", {"UCAST"})
        /\ Shows("Config5", "BWF", {"BCAST"}) /\ Shows("Config5", "MWF", {"MCAST"})
        /\ Shows("Config5", "LanWake", WolOpts)
    BY <2>1, <2>2, <2>3, <2>4, ShallWake
  <2>6. /\ rtl_is_8125(mac_version) => Shows("ocp_c0b6", "b0", {"MAGIC"})
        /\ rtl_is_8168evl_up(mac_version) => Shows("eri_dc", "MagicPacket_v2", {"MAGIC"})
        /\ ~rtl_is_8125(mac_version) /\ ~rtl_is_8168evl_up(mac_version) =>
             Shows("Config3", "MagicPacket", {"MAGIC"})
    BY <2>1, <2>2, <2>3, <2>4, ShallWake
  <2>7. /\ PmeConfig1(mac_version) => Shows("Config1", "PMEnable", WolOpts)
        /\ PmeConfig2(mac_version) => Shows("Config2", "PME_SIGNAL", WolOpts)
    BY <2>1, <2>2, <2>3, <2>4, ShallWake
  <2> QED BY <2>1, <2>5, <2>6, <2>7 DEF WolAsAsked, WolSaved
<1> QED BY <1>1, RegistersWhole, PTL

(* Whatever the threads interleave on any chip: ASPM and the clock request   *)
(* are off while the PHY of the PCIe link is accessed, but for the           *)
(* power-down of 32 and 33 and for two resets at once: on an RTL8125 in the  *)
(* link handler, on any chip in rtl_task beside a resume.  Below 32 nothing  *)
(* ever switches them on.                                                    *)
THEOREM EphyUntouchedByAspm == Spec => []EphyWithoutAspm
<1>1. IInv /\ Whole => EphyWithoutAspm
  <2> SUFFICES ASSUME IInv, Whole, NEW t \in Threads, At(t, "touch"), Now(t).reg = "ephy",
                      ~(mac_version \in {32, 33} /\ (power # "up" \/ ~running)), ~TwoResets
               PROVE  ~Has("Config5", "ASPM_en") /\ ~Has("Config2", "ClkReqEn")
    BY DEF EphyWithoutAspm
  <2>1. /\ Places /\ MainOk /\ LinkOk /\ Settled /\ StaysOff
        /\ \A u \in Threads : ArgOk(u) /\ Held(u)
    BY DEF IInv, Whole, Midst
  <2>2. Aspm("Config5", "ASPM_en") /\ Aspm("Config2", "ClkReqEn")
    BY DEF Aspm
  <2>3. mac_version \in Nat /\ Device.aspm = Manages /\ Suits(Device)
    BY <2>1, DeviceSuits
  <2>4. ~Idle(t)
    BY DEF At
  <2>5. CASE mac_version >= 32
    <3>1. Sheltered(script[t])
      BY <2>1, <2>5 DEF MainOk, LinkOk, LinkLike, TaskLike, Threads
    <3>2. pc[t] \in 1 .. Len(script[t]) /\ Now(t) = script[t][pc[t]] /\ Now(t).op = "touch"
      BY <2>1, <2>4, NowIs
    <3>3. \A r, b : Aspm(r, b) => Cleared(script[t], pc[t], r, b)
      BY <3>1, <3>2 DEF Sheltered
    <3>4. \A r, b : Aspm(r, b) => ~Has(r, b)
      BY <2>1, <2>4, <3>3 DEF StaysOff
    <3> QED BY <2>2, <3>4
  <2>6. CASE mac_version < 32
    <3> DEFINE D(a) == [Device EXCEPT !.aspm = a]
    <3>1. ASSUME NEW a PROVE Suits(D(a)) /\ Like(D(a)) /\ D(a).aspm = a
      <4>1. /\ D(a).aspm = a /\ D(a).v = mac_version /\ D(a).board = board /\ D(a).wol = wol
            /\ D(a).up = (power = "up" /\ running) /\ D(a).deaf = deaf
        BY DEF Device
      <4>2. mac_version \in Versions /\ board \in Boards(mac_version) /\ ~(mac_version >= 32)
        BY <2>1, <2>6, DeviceSuits
      <4> HIDE DEF D
      <4> QED BY <4>1, <4>2 DEF Suits, Like
    <3>2. ASSUME NEW u \in Threads, NEW r, NEW b, Aspm(r, b) PROVE Clean(script[u], pc[u], r, b)
      <4>1. PICK yes, no : yes = D(TRUE) /\ no = D(FALSE)
        OBVIOUS
      <4>2. Suits(yes) /\ Like(yes) /\ yes.aspm /\ Suits(no) /\ Like(no) /\ ~no.aspm
        BY <3>1, <4>1
      <4> HIDE DEF D
      <4>3. Calm(yes, script[u]) /\ Calm(no, script[u])
        BY <2>1, <4>2 DEF MainOk, LinkOk, LinkLike, TaskLike, Like, Threads
      <4>4. /\ Asked(yes, r, b) /\ Shall(yes, r, b) /\ r # "RxConfig"
            /\ Asked(no, r, b) /\ ~Shall(no, r, b)
        BY <3>2, <4>2, OnlyAspm
      <4>5. Clean(script[u], 1, r, b)
        BY <4>3, <4>4, CalmTwice
      <4>6. pc[u] \in Nat /\ pc[u] >= 1
        BY <2>1 DEF Places
      <4> QED BY <4>5, <4>6 DEF Clean
    <3>3. ~Manages
      BY <2>3, <2>6 DEF Manages
    <3>4. ASSUME NEW r, NEW b, Aspm(r, b) PROVE ~Has(r, b)
      <4>1. Asked(Device, r, b) /\ ~Shall(Device, r, b) /\ ~Exposed(r)
        BY <2>3, <3>3, <3>4, OnlyAspm, AspmGuarded
      <4> QED BY <2>1, <3>2, <3>4, <4>1 DEF Settled
    <3> QED BY <2>2, <3>4
  <2> QED BY <2>3, <2>5, <2>6
<1> QED BY <1>1, RegistersWhole, PTL

(* Whatever the threads interleave on any chip: an open device that is up at *)
(* rest has ASPM as the system allows it, the receive filter the network     *)
(* core asked last, and its packet filter on.                                *)
THEOREM UpIsAsAsked == Spec => []UpAsAsked
<1>1. IInv /\ Whole => UpAsAsked
  <2> SUFFICES ASSUME IInv, Whole, Rest, power = "up", running PROVE UpAsAsked
    BY DEF UpAsAsked
  <2>1. /\ Device.v = mac_version /\ Device.up /\ Device.promisc = promisc /\ Device.rxall = rxall
        /\ Device.aspm = Manages /\ mac_version \in Nat
    BY DeviceSuits DEF IInv
  <2>2. mac_version >= 32 => /\ Has("Config5", "ASPM_en") <=> Manages
                             /\ Has("Config2", "ClkReqEn") <=> Manages
    <3>1. ASSUME NEW r, NEW b, Aspm(r, b) PROVE Has(r, b) <=> Manages
      <4>1. Asked(Device, r, b) /\ (Shall(Device, r, b) <=> Manages) /\ ~Exposed(r)
        BY <2>1, <3>1, OnlyAspm, AspmGuarded
      <4> QED BY <4>1, AtRest
    <3> QED BY <3>1 DEF Aspm
  <2>3. ASSUME ~Exposed("RxConfig") PROVE mem["RxConfig"] = RxMode \cup RxErrors
    <3>1. RxMode = Mode(Device) /\ RxErrors = Errors(Device)
      BY <2>1 DEF RxMode, RxErrors, Mode, Errors
    <3>2. mem["RxConfig"] \subseteq Bits
      BY DEF Whole, Midst, Typed, Registers
    <3>3. RxMode \subseteq Bits /\ RxErrors \subseteq Bits
      BY DEF RxMode, RxErrors, SetIf, Bits
    <3>4. ASSUME NEW b \in Bits PROVE b \in mem["RxConfig"] <=> b \in RxMode \cup RxErrors
      <4>1. Reception(Device, "RxConfig", b)
        BY <2>1 DEF Reception
      <4>2. Asked(Device, "RxConfig", b) /\ (Shall(Device, "RxConfig", b) <=> b \in RxMode \cup RxErrors)
        BY <3>1, <4>1, OnlyReception
      <4> QED BY <2>3, <4>2, AtRest DEF Has
    <3> QED BY <3>2, <3>3, <3>4
  <2>4. ASSUME mac_version \in (34..38) \cup (40..53), ~Exposed("eri_dc") PROVE Has("eri_dc", "filter")
    <3>1. Filter(Device, "eri_dc", "filter")
      BY <2>1, <2>4 DEF Filter
    <3>2. Asked(Device, "eri_dc", "filter") /\ Shall(Device, "eri_dc", "filter")
      BY <3>1 DEF Asked, Shall
    <3> QED BY <2>4, <3>2, AtRest
  <2> QED BY <2>2, <2>3, <2>4 DEF UpAsAsked, Manages
<1> QED BY <1>1, RegistersWhole, PTL

(* Whatever the threads interleave on any chip: a device put down that shall *)
(* wake the system has its PLL running, and, unless it was closed while      *)
(* nothing was to wake the system, accepts packets with the receiver open.   *)
THEOREM CanWake == Spec => []WakesWhenAsked
<1>1. IInv /\ Whole => WakesWhenAsked
  <2> SUFFICES ASSUME IInv, Whole, Rest, power # "up", wol # {}, ~board.dash PROVE WakesWhenAsked
    BY DEF WakesWhenAsked
  <2>1. /\ Device.v = mac_version /\ ~Device.up /\ Device.board = board /\ Device.wol = wol
        /\ mac_version \in Nat /\ Device.deaf = deaf
    BY DeviceSuits DEF IInv
  <2>2. ~deaf => Receives(Device)
    BY <2>1 DEF Receives
  <2>3. ASSUME mac_version >= 25, ~deaf, ~Exposed("RxConfig") PROVE Has("RxConfig", "AcceptOk")
    <3>1. Reception(Device, "RxConfig", "AcceptOk") /\ "AcceptOk" \in Mode(Device)
      BY <2>1, <2>2, <2>3 DEF Reception, Mode
    <3>2. Asked(Device, "RxConfig", "AcceptOk") /\ Shall(Device, "RxConfig", "AcceptOk")
      BY <3>1, OnlyReception
    <3> QED BY <2>3, <3>2, AtRest
  <2>4. ASSUME mac_version >= 40, ~deaf, ~Exposed("MISC") PROVE ~Has("MISC", "RXDV_GATED_EN")
    <3>1. Asked(Device, "MISC", "RXDV_GATED_EN")
      BY <2>1, <2>2, <2>4 DEF Asked, Gate
    <3>2. ~Shall(Device, "MISC", "RXDV_GATED_EN")
      BY DEF Shall, Magic, Power, Link, Unicast, Broadcast, Multicast, Aspm, Filter, Reception
    <3> QED BY <2>4, <3>1, <3>2, AtRest
  <2>5. ASSUME HasD3Pll(mac_version), ~Exposed("PMCH") PROVE Has("PMCH", "D3_NO_PLL_DOWN")
    <3>1. Asked(Device, "PMCH", "D3_NO_PLL_DOWN")
      BY <2>1, <2>5 DEF Asked, Wakes, Power
    <3>2. Shall(Device, "PMCH", "D3_NO_PLL_DOWN")
      BY <2>1, <2>5, ShallWake
    <3> QED BY <2>5, <3>1, <3>2, AtRest
  <2> QED BY <2>3, <2>4, <2>5 DEF WakesWhenAsked
<1> QED BY <1>1, RegistersWhole, PTL

-----------------------------------------------------------------------------
(* The page of the PHY.  Each thread's script has notes, one before each     *)
(* access, of what it relies on; those of the thread that may touch the PHY  *)
(* now (phylib while it owns the bus, else main) say where the page is.      *)
Here(N, t) == N[t][pc[t]]
Last(N, t) == N[t][Len(script[t]) + 1]
Kind       == IF power = "up" /\ running THEN KindUp(mac_version) ELSE "off"
User       == IF owner["mdio_lock"] = "phy" THEN "phy" ELSE "main"
Turners    == {"main", "phy"}
Meets(m, p, o, f) == p \in m.now /\ o \in m.old /\ ("fw" \in m.has => f = p)
Charted(N) ==
    /\ \A t \in Turners : /\ Noted(mac_version, script[t], N[t])
                          /\ "bus" \in Here(N, t).has <=> owner["mdio_lock"] = t
    /\ Last(N, "main") = AtHome(mac_version, Kind)
    /\ Last(N, "phy") = AtHome(mac_version, "beside") /\ Here(N, "phy").phylib = "beside"
    /\ phy_on => Here(N, "main").phylib # "off"
    /\ ~Idle("phy") => phy_on
    /\ FwBesidePhylib \/ Meets(Here(N, User), page, oldpage, fwpage)

(* What an access does to the page, and to phylib.                           *)
Paging(t) ==
    /\ Now(t).op \notin {"page", "save", "restore", "fw_page", "fw_data", "fw_base"} => UNCHANGED pages
    /\ At(t, "page") => page' = Now(t).reg /\ UNCHANGED <<oldpage, fwpage>>
    /\ At(t, "save") => page' = Now(t).reg /\ oldpage' = page /\ fwpage' = fwpage
    /\ At(t, "restore") => page' = oldpage /\ oldpage' = "0" /\ fwpage' = fwpage
    /\ At(t, "fw_page") => page' \in {"0", "fw"} /\ fwpage' = page' /\ oldpage' = oldpage
    /\ At(t, "fw_data") => UNCHANGED <<page, oldpage>>
    /\ At(t, "fw_base") => page' = "0" /\ UNCHANGED <<oldpage, fwpage>>
    /\ \/ phy_on' = phy_on /\ ~At(t, "phy_stop")
       \/ At(t, "phy_start") /\ phy_on'
       \/ At(t, "phy_stop") /\ ~phy_on' /\ Idle("phy")

(* An access does to the page and to phylib what Paging says.                *)
LEMMA AccessPages ==
    ASSUME Places, NEW t \in Threads, Access(t)
    PROVE  Paging(t)
<1>1. Moves(t)
  BY AccessMoves
<1>2. \A op : At(t, op) <=> Now(t).op = op
  BY <1>1, NowIs DEF Moves
<1>3. CASE SelectPage(t) \/ PhyAccess(t) \/ phy_select_page(t) \/ phy_restore_page(t)
  BY <1>2, <1>3 DEF SelectPage, PhyAccess, phy_select_page, phy_restore_page, Kept, Paging, pages
<1>4. CASE FwSelect(t) \/ FwWrite(t) \/ FwBase(t)
  BY <1>2, <1>4 DEF FwSelect, FwWrite, FwBase, Kept, Paging, pages
<1>5. CASE PhyStop(t) \/ PhyStart(t)
  BY <1>2, <1>5 DEF PhyStop, PhyStart, Paging
<1>6. CASE rtl_unlock_config_regs(t) \/ rtl_lock_config_regs(t) \/ Acquire(t) \/ Release(t)
             \/ Read(t) \/ Write(t) \/ Overwrite(t) \/ Get(t) \/ Use(t)
  BY <1>2, <1>6 DEF rtl_unlock_config_regs, rtl_lock_config_regs, Acquire, Release, Read, Write,
     Overwrite, Get, Use, Paging, pages
<1>7. CASE EriAskRead(t) \/ EriGetData(t) \/ EriTimeout(t) \/ EriPutData(t) \/ EriAskWrite(t)
             \/ OcpAddress(t) \/ OcpData(t) \/ OcpWrite(t)
  BY <1>2, <1>7 DEF EriAskRead, EriGetData, EriTimeout, EriPutData, EriAskWrite,
     OcpAddress, OcpData, OcpWrite, Paging, pages
<1> QED BY <1>3, <1>4, <1>5, <1>6, <1>7 DEF Access

(* A page that fits the note before an access fits the one after it.         *)
LEMMA PageTurns ==
    ASSUME NEW t, NEW v, NEW a, NEW m, NEW n, a = Now(t), Paging(t), \A op : At(t, op) <=> a.op = op,
           Leads(v, a, m, n), Meets(m, page, oldpage, fwpage)
    PROVE  Meets(n, page', oldpage', fwpage')
<1>1. Turns(a, m, n)
  BY DEF Leads
<1>2. ASSUME a.op \notin {"page", "save", "restore", "fw_page", "fw_data", "fw_base"} PROVE Meets(n, page', oldpage', fwpage')
  <2>1. page' = page /\ oldpage' = oldpage /\ fwpage' = fwpage
    BY <1>2 DEF Paging, pages
  <2> QED BY <1>1, <1>2, <2>1 DEF Turns, Meets
<1>3. ASSUME a.op \in {"page", "save", "restore", "fw_page", "fw_data", "fw_base"} PROVE Meets(n, page', oldpage', fwpage')
  <2>1. a.op \in PhyOps /\ ("fw" \in n.has => a.op = "fw_page")
    BY <1>1, <1>3 DEF Turns, PhyOps
  <2> QED BY <1>1, <1>3, <2>1 DEF Turns, Meets, Paging
<1> QED BY <1>2, <1>3

(* The owner of the lock of the bus through an access, as the notes have it. *)
LEMMA BusTurns ==
    ASSUME Places, Owned, NEW t \in Threads, Access(t)
    PROVE  /\ owner'["mdio_lock"] = t <=>
                \/ Now(t).op = "acquire" /\ Now(t).reg = "mdio_lock"
                \/ owner["mdio_lock"] = t /\ ~(Now(t).op = "release" /\ Now(t).reg = "mdio_lock")
           /\ \A u \in Threads : u # t => (owner'["mdio_lock"] = u <=> owner["mdio_lock"] = u)
<1>1. Moves(t) /\ ~Idle(t)
  BY AccessMoves DEF Moves
<1>2. PairedAt(script[t], pc[t]) /\ Now(t) = script[t][pc[t]] /\ \A op : At(t, op) <=> Now(t).op = op
  BY <1>1, Midway, NowIs
<1>3. /\ Now(t).op = "acquire" => Now(t).reg \in Locks
      /\ Now(t).op = "release" => Now(t).reg \in Locks /\ owner[Now(t).reg] = t
  BY <1>2 DEF PairedAt, Owned
<1>4. "mdio_lock" \in Locks /\ DOMAIN owner = Locks /\ Nobody \notin Threads
  BY DEF Locks, Owned, Nobody, Threads
<1>5. \/ /\ Now(t).op = "acquire" /\ owner[Now(t).reg] = Nobody
         /\ owner' = [owner EXCEPT ![Now(t).reg] = t]
      \/ Now(t).op = "release" /\ owner' = [owner EXCEPT ![Now(t).reg] = Nobody]
      \/ Now(t).op # "acquire" /\ Now(t).op # "release" /\ owner' = owner
  BY <1>2, AccessOwns
<1> QED BY <1>3, <1>4, <1>5

-----------------------------------------------------------------------------
(* A busy thread goes from one note to the next.                             *)
LEMMA NotesLead ==
    ASSUME Places, NEW N, NEW t \in Threads, Noted(mac_version, script[t], N[t])
    PROVE  /\ Sound(mac_version, Here(N, t))
           /\ Idle(t) => Here(N, t) = Last(N, t)
           /\ ~Idle(t) => /\ Leads(mac_version, Now(t), Here(N, t), N[t][pc[t] + 1])
                          /\ Sound(mac_version, N[t][pc[t] + 1])
<1>1. pc[t] \in 1 .. (Len(script[t]) + 1) /\ script[t] \in Seq(Accesses)
  BY Midway DEF Places
<1>2. Idle(t) => pc[t] = Len(script[t]) + 1
  BY Midway
<1>3. ASSUME ~Idle(t) PROVE /\ pc[t] \in 1 .. Len(script[t]) /\ pc[t] + 1 \in 1 .. (Len(script[t]) + 1)
                            /\ Now(t) = script[t][pc[t]]
  <2>1. pc[t] \in 1 .. Len(script[t]) /\ Now(t) = script[t][pc[t]]
    BY <1>3, NowIs
  <2> QED BY <1>1, <2>1
<1> QED BY <1>1, <1>2, <1>3 DEF Noted, Here, Last

(* While phylib works and main does not own the bus, main counts on the page *)
(* at rest alone, and is not about to touch the PHY.                         *)
LEMMA MainBeside ==
    ASSUME Places, Apart, ~FwBesidePhylib, NEW N, Charted(N), ~Idle("phy"), owner["mdio_lock"] # "main"
    PROVE  /\ Here(N, "main").now = Home(mac_version) /\ Here(N, "main").old = Names
           /\ Here(N, "main").has = {}
           /\ ~Idle("main") => Now("main").op \notin PhyOps
<1>1. "main" \in Threads /\ "phy" \in Threads /\ "main" # "phy" /\ "main" \in Turners
  BY DEF Threads, Turners
<1> DEFINE v == mac_version
           m == Here(N, "main")
<1>2. /\ Sound(v, m) /\ (Idle("main") => m = Last(N, "main"))
      /\ ~Idle("main") => Leads(v, Now("main"), m, N["main"][pc["main"] + 1])
  BY <1>1, NotesLead DEF Charted
<1>3. "bus" \notin m.has /\ m.phylib # "off"
  BY <1>1 DEF Charted
<1>4. CASE Idle("main")
  <2>1. m = AtHome(v, Kind)
    BY <1>2, <1>4 DEF Charted
  <2> QED BY <1>4, <2>1, NoteIs DEF AtHome
<1>5. CASE ~Idle("main")
  <2>1. v # 52
    BY <1>1, <1>5 DEF Apart, FwBesidePhylib
  <2>2. m.phylib = "beside"
    <3>1. m.phylib \in PhylibKinds
      BY <1>2 DEF Sound, Notes
    <3> QED BY <1>2, <1>3, <2>1, <3>1 DEF Sound, PhylibKinds
  <2>3. m = Note(Home(v), {}, "beside")
    BY <1>2, <1>3, <2>2 DEF Sound
  <2>4. Now("main").op \notin PhyOps
    BY <1>2, <1>3, <1>5, <2>2 DEF Leads, Keeps
  <2> QED BY <2>3, <2>4, NoteIs
<1> QED BY <1>4, <1>5

-----------------------------------------------------------------------------
(* The page, through an access of main.                                      *)
LEMMA PageByMain ==
    ASSUME Places, Owned, Apart, NEW N, Charted(N), Access("main"), faults \subseteq faults',
           mac_version' = mac_version, ~FwBesidePhylib'
    PROVE  Meets(Here(N, User)', page', oldpage', fwpage')
<1> DEFINE n == N["main"][pc["main"] + 1]
           v == mac_version
<1>1. "main" \in Threads /\ "phy" \in Threads /\ "main" # "phy" /\ Turners = {"main", "phy"}
  BY DEF Threads, Turners
<1>2. Moves("main") /\ ~Idle("main") /\ Paging("main")
  BY <1>1, AccessMoves, AccessPages DEF Moves
<1>3. pc'["main"] = pc["main"] + 1 /\ pc'["phy"] = pc["phy"]
  BY <1>1, <1>2, After
<1>4. owner'["mdio_lock"] = "phy" <=> owner["mdio_lock"] = "phy"
  BY <1>1, BusTurns
<1>5. ~FwBesidePhylib
  BY DEF FwBesidePhylib
<1>6. CASE owner["mdio_lock"] = "phy"
  <2>1. ~Idle("phy")
    <3>1. Holds(script["phy"], "mdio_lock", pc["phy"])
      BY <1>1, <1>6 DEF Owned, Locks
    <3> QED BY <1>1, <3>1, Midway DEF Locks
  <2>2. Now("main").op \notin PhyOps
    BY <1>1, <1>2, <1>5, <1>6, <2>1, MainBeside
  <2>3. UNCHANGED pages
    BY <1>2, <2>2 DEF Paging, PhyOps
  <2>4. Meets(Here(N, "phy"), page, oldpage, fwpage)
    BY <1>5, <1>6 DEF Charted, User
  <2> QED BY <1>3, <1>4, <1>6, <2>3, <2>4 DEF Here, User, pages
<1>7. CASE owner["mdio_lock"] # "phy"
  <2>1. Meets(Here(N, "main"), page, oldpage, fwpage)
    BY <1>5, <1>7 DEF Charted, User
  <2>2. Leads(v, Now("main"), Here(N, "main"), n)
    BY <1>1, <1>2, NotesLead DEF Charted
  <2>3. \A op : At("main", op) <=> Now("main").op = op
    BY <1>1, <1>2, NowIs
  <2>4. Meets(n, page', oldpage', fwpage')
    BY <1>2, <2>1, <2>2, <2>3, PageTurns
  <2> QED BY <1>3, <1>4, <1>7, <2>4 DEF Here, User
<1> QED BY <1>6, <1>7

(* A script of phylib's stays beside main, and without the bus counts on the *)
(* page at rest alone.                                                       *)
LEMMA PhyBeside ==
    ASSUME Places, NEW N, Charted(N), ~Idle("phy"), Paging("phy")
    PROVE  LET n == N["phy"][pc["phy"] + 1]
           IN  /\ n.phylib = "beside"
               /\ "bus" \notin n.has => n = Note(Home(mac_version), {}, "beside")
               /\ owner["mdio_lock"] # "phy" => /\ Here(N, "phy") = Note(Home(mac_version), {}, "beside")
                                                /\ Now("phy").op \notin PhyOps
<1> DEFINE n == N["phy"][pc["phy"] + 1]
           m == Here(N, "phy")
           a == Now("phy")
<1>1. "phy" \in Threads /\ "phy" \in Turners
  BY DEF Threads, Turners
<1>2. Sound(mac_version, m) /\ Sound(mac_version, n) /\ Leads(mac_version, a, m, n)
  BY <1>1, NotesLead DEF Charted
<1>3. m.phylib = "beside" /\ ("bus" \in m.has <=> owner["mdio_lock"] = "phy")
  BY <1>1 DEF Charted
<1>4. a.op # "phy_stop"
  BY <1>1, NowIs DEF Paging
<1>5. n.phylib = "beside"
  BY <1>2, <1>3, <1>4 DEF Leads, Keeps
<1>6. "bus" \notin m.has => a.op \notin PhyOps
  BY <1>2, <1>3 DEF Leads, Keeps
<1> QED BY <1>2, <1>3, <1>5, <1>6 DEF Sound

(* The page, through an access of phylib's.                                  *)
LEMMA PageByPhy ==
    ASSUME Places, Owned, Apart, NEW N, Charted(N), Access("phy"), faults \subseteq faults',
           mac_version' = mac_version, ~FwBesidePhylib'
    PROVE  Meets(Here(N, User)', page', oldpage', fwpage')
<1> DEFINE n == N["phy"][pc["phy"] + 1]
           m == Here(N, "phy")
           a == Now("phy")
           v == mac_version
<1>1. "main" \in Threads /\ "phy" \in Threads /\ "main" # "phy" /\ Turners = {"main", "phy"}
  BY DEF Threads, Turners
<1>2. Moves("phy") /\ ~Idle("phy") /\ Paging("phy")
  BY <1>1, AccessMoves, AccessPages DEF Moves
<1>3. pc'["phy"] = pc["phy"] + 1 /\ pc'["main"] = pc["main"]
  BY <1>1, <1>2, After
<1>4. /\ owner'["mdio_lock"] = "main" <=> owner["mdio_lock"] = "main"
      /\ owner'["mdio_lock"] = "phy" <=> \/ a.op = "acquire" /\ a.reg = "mdio_lock"
                                         \/ /\ owner["mdio_lock"] = "phy"
                                            /\ ~(a.op = "release" /\ a.reg = "mdio_lock")
  BY <1>1, BusTurns
<1>5. ~FwBesidePhylib
  BY DEF FwBesidePhylib
<1>6. /\ n.phylib = "beside"
      /\ "bus" \notin n.has => n = Note(Home(v), {}, "beside")
      /\ owner["mdio_lock"] # "phy" => m = Note(Home(v), {}, "beside") /\ a.op \notin PhyOps
  BY <1>2, PhyBeside
<1>7. Leads(v, a, m, n) /\ ("bus" \in m.has <=> owner["mdio_lock"] = "phy")
  BY <1>1, <1>2, NotesLead DEF Charted
<1>8. Meets(Here(N, User), page, oldpage, fwpage)
  BY <1>5 DEF Charted
<1>9. CASE owner["mdio_lock"] = "main"
  <2>1. UNCHANGED pages
    BY <1>2, <1>6, <1>9 DEF Paging, PhyOps
  <2> QED BY <1>1, <1>3, <1>4, <1>8, <1>9, <2>1 DEF Here, User, pages
<1>10. CASE owner["mdio_lock"] # "main"
  <2>1. /\ Here(N, "main").now = Home(v) /\ Here(N, "main").old = Names
        /\ Here(N, "main").has = {}
    BY <1>2, <1>5, <1>10, MainBeside
  <2>2. Meets(m, page, oldpage, fwpage)
    <3>1. CASE owner["mdio_lock"] = "phy"
      BY <1>8, <3>1 DEF User
    <3>2. CASE owner["mdio_lock"] # "phy"
      <4>1. m.now = Home(v) /\ m.old = Names /\ m.has = {}
        BY <1>6, <3>2, NoteIs
      <4> QED BY <1>8, <2>1, <3>2, <4>1 DEF User, Meets
    <3> QED BY <3>1, <3>2
  <2>3. \A op : At("phy", op) <=> a.op = op
    BY <1>1, <1>2, NowIs
  <2>4. Meets(n, page', oldpage', fwpage')
    BY <1>2, <1>7, <2>2, <2>3, PageTurns
  <2>5. CASE owner'["mdio_lock"] = "phy"
    BY <1>3, <2>4, <2>5 DEF Here, User
  <2>6. CASE owner'["mdio_lock"] # "phy"
    <3>1. "bus" \notin n.has
      BY <1>4, <1>7, <2>6 DEF Leads, Keeps
    <3>2. n.now = Home(v) /\ n.old = Names /\ n.has = {}
      BY <1>6, <3>1, NoteIs
    <3>3. Here(N, User)' = Here(N, "main")
      BY <1>3, <2>6 DEF Here, User
    <3>4. Meets(Here(N, "main"), page', oldpage', fwpage')
      BY <2>1, <2>4, <3>2 DEF Meets
    <3> QED BY <3>3, <3>4
  <2> QED BY <2>5, <2>6
<1> QED BY <1>9, <1>10

(* The notes through an access.                                              *)
LEMMA ChartedByAccess ==
    ASSUME IInv, Whole, "resume" \notin faults, NEW N, Charted(N), NEW t \in Threads, Access(t)
    PROVE  Charted(N)'
<1>1. Places /\ Owned /\ Apart /\ Typed /\ MainOk /\ LinkOk
  BY DEF IInv, Whole, Midst
<1>2. Moves(t) /\ ~Idle(t) /\ Paging(t)
  BY <1>1, AccessMoves, AccessPages DEF Moves
<1>3. Data(t)
  BY <1>1, AccessData
<1>4. /\ script' = script /\ mac_version' = mac_version /\ power' = power /\ running' = running
      /\ faults \subseteq faults'
  BY <1>3, DeviceStays DEF Data
<1>5. pc'[t] = pc[t] + 1 /\ \A u \in Threads : u # t => pc'[u] = pc[u] /\ (Idle(u)' <=> Idle(u))
  BY <1>1, <1>2, After
<1>6. /\ "main" \in Threads /\ "phy" \in Threads /\ "main" # "phy"
      /\ Turners = {"main", "phy"} /\ t \in Turners
  BY <1>1, <1>2 DEF Threads, Turners, Apart
<1> DEFINE m == Here(N, t)
           n == N[t][pc[t] + 1]
<1>7. Here(N, t)' = n /\ \A u \in Threads : u # t => Here(N, u)' = Here(N, u)
  BY <1>5 DEF Here
<1>8. Leads(mac_version, Now(t), m, n)
  BY <1>1, <1>2, <1>6, NotesLead DEF Charted
<1>9. \A op : At(t, op) <=> Now(t).op = op
  BY <1>1, <1>2, NowIs
<1>10. ASSUME NEW u \in Turners
       PROVE  Noted(mac_version, script[u], N[u])' /\ ("bus" \in Here(N, u)'.has <=> owner'["mdio_lock"] = u)
  <2>1. /\ Noted(mac_version, script[u], N[u]) /\ ("bus" \in Here(N, u).has <=> owner["mdio_lock"] = u)
        /\ u \in Threads
    BY <1>6 DEF Charted
  <2>2. Noted(mac_version, script[u], N[u])'
    BY <1>4, <2>1
  <2>3. CASE u # t
    BY <1>1, <1>7, <2>1, <2>2, <2>3, BusTurns
  <2>4. CASE u = t
    <3>1. "bus" \in n.has <=> owner'["mdio_lock"] = t
      BY <1>1, <1>8, <2>1, <2>4, BusTurns DEF Leads, Keeps
    <3> QED BY <1>7, <2>2, <2>4, <3>1
  <2> QED BY <2>3, <2>4
<1>11. Last(N, "main")' = AtHome(mac_version, Kind)' /\ Last(N, "phy")' = AtHome(mac_version, "beside")'
  BY <1>4 DEF Charted, Last, Kind
<1>12. Here(N, "phy")'.phylib = "beside"
  <2>1. CASE t = "phy"
    BY <1>1, <1>2, <1>7, <2>1, PhyBeside
  <2>2. CASE t # "phy"
    BY <1>6, <1>7, <2>2 DEF Charted
  <2> QED BY <2>1, <2>2
<1>13. phy_on' => Here(N, "main")'.phylib # "off"
  <2>1. phy_on => Here(N, "main").phylib # "off"
    BY DEF Charted
  <2>2. CASE t = "main"
    <3>1. /\ Now("main").op = "phy_start" => n.phylib # "off"
          /\ Here(N, "main").phylib # "off" => n.phylib = Here(N, "main").phylib \/ Now("main").op = "phy_stop"
      BY <1>8, <2>2 DEF Leads, Keeps
    <3> QED BY <1>2, <1>7, <1>9, <2>1, <2>2, <3>1 DEF Paging
  <2>3. CASE t = "phy"
    <3>1. phy_on
      BY <1>2, <2>3 DEF Charted
    <3> QED BY <1>6, <1>7, <2>1, <2>3, <3>1
  <2> QED BY <1>6, <2>2, <2>3
<1>14. ~Idle("phy")' => phy_on'
  <2>1. ~Idle("phy") => phy_on
    BY DEF Charted
  <2>2. ~Idle("phy")' => ~Idle("phy")
    BY <1>2, <1>5, <1>6
  <2>3. phy_on => phy_on' \/ Idle("phy")
    BY <1>2 DEF Paging
  <2> QED BY <2>1, <2>2, <2>3
<1>15. FwBesidePhylib' \/ Meets(Here(N, User), page, oldpage, fwpage)'
  BY <1>1, <1>4, <1>6, PageByMain, PageByPhy
<1> QED BY <1>10, <1>11, <1>12, <1>13, <1>14, <1>15 DEF Charted

-----------------------------------------------------------------------------
(* A new script begins where the last one of its thread has left the page.   *)
LEMMA ChartedByStart ==
    ASSUME IInv, NEW N, Charted(N), NEW t \in Turners, NEW s, Start(t, s),
           NEW n, Walk(mac_version, Last(N, t), s, n),
           t = "main" => n = AtHome(mac_version, Kind'),
           t = "phy" => n = AtHome(mac_version, "beside") /\ phy_on /\ UNCHANGED <<power, running>>
    PROVE  \E R : Charted(R)'
<1>1. /\ "main" \in Threads /\ "phy" \in Threads /\ "main" # "phy"
      /\ Turners = {"main", "phy"} /\ t \in Threads
  BY DEF Threads, Turners
<1>2. /\ Places /\ script \in [Threads -> Scripts] /\ pc \in [Threads -> Nat]
  BY DEF IInv, Places
<1>3. /\ Idle(t) /\ UNCHANGED <<config, owner, pages, phy_on>> /\ faults \subseteq faults'
      /\ script'[t] = s /\ pc'[t] = 1
      /\ \A u \in Threads : u # t => script'[u] = script[u] /\ pc'[u] = pc[u]
  BY <1>1, <1>2 DEF Start
<1>4. /\ mac_version' = mac_version /\ owner' = owner /\ phy_on' = phy_on
      /\ page' = page /\ oldpage' = oldpage /\ fwpage' = fwpage
  BY <1>3 DEF config, pages
<1>5. PICK K : Noted(mac_version, s, K) /\ K[1] = Last(N, t) /\ K[Len(s) + 1] = n
  BY DEF Walk
<1> DEFINE R == [u \in Turners |-> IF u = t THEN K ELSE N[u]]
<1>6. R[t] = K /\ \A u \in Turners : u # t => R[u] = N[u]
  OBVIOUS
<1>7. Here(N, t) = Last(N, t)
  BY <1>1, <1>2, <1>3, NotesLead DEF Charted
<1> HIDE DEF R
<1>8. \A u \in Turners : Here(R, u)' = Here(N, u)
  BY <1>1, <1>3, <1>5, <1>6, <1>7 DEF Here
<1>9. ASSUME NEW u \in Turners
      PROVE  Noted(mac_version, script[u], R[u])' /\ ("bus" \in Here(R, u)'.has <=> owner'["mdio_lock"] = u)
  <2>1. Noted(mac_version, script[u], N[u]) /\ ("bus" \in Here(N, u).has <=> owner["mdio_lock"] = u)
    BY DEF Charted
  <2>2. Noted(mac_version', script'[u], R[u])
    BY <1>1, <1>3, <1>4, <1>5, <1>6, <2>1
  <2> QED BY <1>4, <1>8, <2>1, <2>2
<1>10. Last(R, t)' = n /\ \A u \in Turners : u # t => Last(R, u)' = Last(N, u)
  BY <1>1, <1>3, <1>5, <1>6 DEF Last
<1>11. Last(R, "main")' = AtHome(mac_version, Kind)' /\ Last(R, "phy")' = AtHome(mac_version, "beside")'
  <2>1. power' = power /\ running' = running => Kind' = Kind
    BY <1>4 DEF Kind
  <2> QED BY <1>1, <1>4, <1>10, <2>1 DEF Charted
<1>12. Here(R, "phy")'.phylib = "beside" /\ (phy_on' => Here(R, "main")'.phylib # "off")
  BY <1>1, <1>4, <1>8 DEF Charted
<1>13. ~Idle("phy")' => phy_on'
  <2>1. t = "main" => (Idle("phy")' <=> Idle("phy"))
    BY <1>1, <1>3 DEF Idle
  <2> QED BY <1>1, <1>4, <2>1 DEF Charted
<1>14. FwBesidePhylib' \/ Meets(Here(R, User), page, oldpage, fwpage)'
  <2>1. FwBesidePhylib => FwBesidePhylib'
    BY <1>3, <1>4 DEF FwBesidePhylib
  <2>2. User' = User /\ User \in Turners
    BY <1>1, <1>4 DEF User
  <2>3. Here(R, User)' = Here(N, User)
    BY <1>8, <2>2 DEF Here
  <2> QED BY <1>4, <2>1, <2>3 DEF Charted
<1>15. Charted(R)'
  BY <1>9, <1>11, <1>12, <1>13, <1>14 DEF Charted
<1> QED BY <1>15

(* Every operation starts a script that has notes.                           *)
LEMMA ChartedByOps ==
    ASSUME IInv, Whole, NEW N, Charted(N), Operation
    PROVE  "resume" \in faults' \/ \E R : Charted(R)'
<1> DEFINE v == mac_version
           Goal == "resume" \in faults' \/ \E R : Charted(R)'
<1>1. v \in Versions /\ "main" \in Turners /\ "phy" \in Turners
  BY DeviceSuits DEF IInv, Turners
<1>2. Last(N, "main") = AtHome(v, Kind) /\ Last(N, "phy") = AtHome(v, "beside") /\ running \in BOOLEAN
  BY DEF Charted, Whole, Midst, Typed
<1>3. ASSUME NEW s, NEW state, Main(s, state), Walk(v, AtHome(v, Kind), s, AtHome(v, Kind'))
      PROVE  Goal
  BY <1>1, <1>2, <1>3, ChartedByStart DEF Main
<1>4. ASSUME NEW s, NEW state, Main(s, state), UNCHANGED <<power, running>>, Homely(v, s)
      PROVE  Goal
  <2>1. mac_version' = mac_version
    BY <1>4 DEF Main, Start, config
  <2>2. Kind \in Kinds(v) /\ Kind' = Kind
    BY <1>4, <2>1 DEF Kind, Kinds
  <2>3. Walk(v, AtHome(v, Kind), s, AtHome(v, Kind'))
    BY <1>4, <2>2 DEF Homely
  <2> QED BY <1>3, <1>4, <2>3
<1>5. ASSUME NEW s, Beside(s) PROVE Goal
  BY <1>5 DEF Beside, Start, SetIf
<1>6. \A s : Homely(v, <<>>)
  BY HomelyIf
<1> SUFFICES Goal
  OBVIOUS
<1> HIDE DEF Goal
<1>7. CASE set_wol
  <2>1. PICK opts : Main(rtl8169_set_wol(v, board, opts), "up") /\ UNCHANGED <<power, running>>
    BY <1>7 DEF set_wol
  <2> QED BY <1>4, <2>1, WolSteady, SteadyHomely
<1>8. CASE set_mac_address
  <2>1. Homely(v, rtl_rar_set(v))
    BY PartsSteady, SteadyHomely
  <2> QED BY <1>4, <1>8, <2>1 DEF set_mac_address, soft
<1>9. CASE set_rx_mode
  <2>1. Homely(v, rtl_set_rx_mode)
    BY PartsSteady, SteadyHomely
  <2>2. /\ \E state : Main(rtl_set_rx_mode, state) \/ Main(<<>>, state) \/ Beside(<<>>)
        /\ UNCHANGED <<power, running>>
    BY <1>9 DEF set_rx_mode
  <2> QED BY <1>4, <1>5, <1>6, <2>1, <2>2
<1>10. CASE set_features
  <2>1. Homely(v, rtl_set_rx_config_features)
    BY PartsSteady, SteadyHomely
  <2>2. /\ \E state : \/ Main(rtl_set_rx_config_features, state) \/ Main(<<>>, state)
                     \/ Beside(rtl_set_rx_config_features)
        /\ UNCHANGED <<power, running>>
    BY <1>10 DEF set_features
  <2> QED BY <1>4, <1>5, <1>6, <2>1, <2>2
<1>11. CASE rtl_task
  <2>1. /\ \/ Main(rtl_reset_work(v, board, jumbo), "up")
           \/ Beside(rtl_reset_work(v, board, jumbo))
        /\ UNCHANGED <<power, running>>
    BY <1>11 DEF rtl_task, soft
  <2> QED BY <1>4, <1>5, <2>1, ResetHomely
<1>12. CASE change_mtu
  <2>1. \A j : Homely(v, rtl_jumbo_config(v, j))
    BY PartsSteady, SteadyHomely
  <2> QED BY <1>4, <1>12, <2>1 DEF change_mtu
<1>13. ASSUME NEW s, NEW state, Main(s, state), power = "up", running, Falls(v, s), power' # "up" \/ ~running'
       PROVE  Goal
  <2>1. Kind = KindUp(v) /\ Kind' = "off"
    BY <1>13 DEF Kind
  <2> QED BY <1>3, <1>13, <2>1 DEF Falls
<1>14. ASSUME NEW s, NEW state, Main(s, state), power # "up" \/ ~running, Rises(v, s), power' = "up", running'
       PROVE  Goal
  <2>1. mac_version' = mac_version
    BY <1>14 DEF Main, Start, config
  <2>2. Kind = "off" /\ Kind' = KindUp(v)
    BY <1>14, <2>1 DEF Kind
  <2> QED BY <1>3, <1>14, <2>2 DEF Rises
<1>15. ASSUME NEW s, NEW state, Main(s, state), ~running, ~running',
              Walk(v, AtHome(v, "off"), s, AtHome(v, "off"))
       PROVE  Goal
  <2>1. Kind = "off" /\ Kind' = "off"
    BY <1>15 DEF Kind
  <2> QED BY <1>3, <1>15, <2>1
<1>16. Walk(v, AtHome(v, "off"), <<>>, AtHome(v, "off"))
  BY <1>6 DEF Homely, Kinds
<1>17. CASE rtl_open
  <2>1. /\ Main(rtl8169_up(v, board, jumbo), "up") /\ ~running /\ running' /\ power' = power /\ power = "up"
    BY <1>17 DEF rtl_open, Main
  <2> QED BY <1>1, <1>14, <2>1, UpRises
<1>18. CASE rtl8169_close
  <2>1. Main(rtl8169_down(v, board, wol # {}), "up") /\ running /\ ~running' /\ power = "up"
    BY <1>18 DEF rtl8169_close, Main
  <2> QED BY <1>1, <1>13, <2>1, DownFalls
<1>19. CASE runtime_suspend \/ system_suspend
  <2>1. /\ \/ Main(rtl8169_runtime_suspend(v, board, running), "up")
           \/ Main(rtl8169_net_suspend(v, board, wol # {}, running), "up")
        /\ power = "up" /\ power' # "up" /\ running' = running
    <3>1. CASE runtime_suspend
      BY <1>19, <3>1 DEF runtime_suspend, Main
    <3>2. CASE system_suspend
      BY <1>19, <3>2 DEF system_suspend, Main
    <3> QED BY <1>19, <3>1, <3>2, Zenon
  <2>2. CASE running
    <3>1. running = TRUE
      BY <1>2, <2>2
    <3>2. \/ Main(rtl8169_runtime_suspend(v, board, TRUE), "up")
          \/ Main(rtl8169_down(v, board, wol # {}), "up")
      BY <2>1, <3>1, Zenon DEF rtl8169_net_suspend, If
    <3> QED BY <1>1, <1>13, <2>1, <2>2, <3>2, DownFalls
  <2>3. CASE ~running
    <3>1. running = FALSE
      BY <1>2, <2>3
    <3>2. Main(<<>>, "up")
      BY <2>1, <3>1, Zenon DEF rtl8169_runtime_suspend, rtl8169_net_suspend, If
    <3> QED BY <1>15, <1>16, <2>1, <2>3, <3>2
  <2> QED BY <2>2, <2>3
<1>20. CASE runtime_resume \/ resume
  <2>1. /\ \E state : /\ \/ Main(rtl8169_runtime_resume(v, board, saved_wolopts, jumbo, running), state)
                         \/ Main(rtl8169_resume(v, board, saved_wolopts, jumbo, running), state)
                      /\ state # "up"
        /\ power' = "up" /\ running' = running
    <3>1. CASE runtime_resume
      BY <3>1 DEF runtime_resume
    <3>2. CASE resume
      BY <3>2 DEF resume
    <3> QED BY <1>20, <3>1, <3>2, Zenon
  <2>2. PICK state : /\ \/ Main(rtl8169_runtime_resume(v, board, saved_wolopts, jumbo, running), state)
                        \/ Main(rtl8169_resume(v, board, saved_wolopts, jumbo, running), state)
                     /\ power = state /\ state # "up"
    BY <2>1 DEF Main
  <2>3. CASE running
    <3>1. running = TRUE
      BY <1>2, <2>3
    <3>2. \/ Main(rtl8169_runtime_resume(v, board, saved_wolopts, jumbo, TRUE), state)
          \/ Main(rtl8169_resume(v, board, saved_wolopts, jumbo, TRUE), state)
      BY <2>2, <3>1, Zenon
    <3> QED BY <1>1, <1>14, <2>1, <2>2, <2>3, <3>2, UpRises
  <2>4. CASE ~running
    <3>1. running = FALSE
      BY <1>2, <2>4
    <3>2. \/ Main(rtl8169_runtime_resume(v, board, saved_wolopts, jumbo, FALSE), state)
          \/ Main(rtl8169_resume(v, board, saved_wolopts, jumbo, FALSE), state)
      BY <2>2, <3>1, Zenon
    <3> QED BY <1>1, <1>15, <2>1, <2>4, <3>2, UpRises
  <2> QED BY <2>3, <2>4
<1>21. CASE phylib
  <2> DEFINE fast == rtl_link_chg_patch(mac_version, 1000)
             slow == rtl_link_chg_patch(mac_version, 10)
             bmcr == WriteBMCR(mac_version, FALSE)
             past == Paged("a43")
             down == link_down(mac_version, board)
  <2>1. PICK s \in {fast, slow, bmcr, past, down} : Start("phy", s)
    <3> DEFINE from == {fast, slow, down} \ {<<>>}
    <3>1. (\E s \in from : Start("phy", s)) \/ Start("phy", bmcr) \/ Start("phy", past)
      BY <1>21, Zenon DEF phylib
    <3> HIDE DEF fast, slow, bmcr, past, down
    <3> QED BY <3>1
  <2>2. phy_on /\ UNCHANGED <<power, running>>
    BY <1>21 DEF phylib, soft
  <2>3. Walk(v, AtHome(v, "beside"), s, AtHome(v, "beside"))
    <3>1. \/ \E speed : s = rtl_link_chg_patch(v, speed)
          \/ s = bmcr \/ s = past \/ s = down
      <4>1. (\E speed : fast = rtl_link_chg_patch(v, speed)) /\ (\E speed : slow = rtl_link_chg_patch(v, speed))
        OBVIOUS
      <4> HIDE DEF fast, slow, bmcr, past, down
      <4> QED BY <4>1
    <3> QED BY <1>1, <3>1, LinkWalks, Zenon
  <2> HIDE DEF fast, slow, bmcr, past, down
  <2> QED BY <1>1, <1>2, <2>1, <2>2, <2>3, ChartedByStart DEF Goal
<1> HIDE DEF v
<1> QED
  BY <1>7, <1>8, <1>9, <1>10, <1>11, <1>12, <1>17, <1>18, <1>19, <1>20, <1>21, Zenon DEF Operation

(* The first resume begins with the page at rest.                            *)
LEMMA ChartedInit == Init => \E R : Charted(R)
<1> SUFFICES ASSUME Init PROVE \E R : Charted(R)
  OBVIOUS
<1> DEFINE v == mac_version
           s == rtl8169_resume(mac_version, board, {}, FALSE, TRUE)
<1>1. IInv /\ v \in Versions /\ "main" \in Threads /\ "phy" \in Threads /\ "main" # "phy"
      /\ Turners = {"main", "phy"}
  BY Initially, DeviceSuits DEF IInv, Threads, Turners
<1>2. script["main"] = s /\ script["phy"] = <<>> /\ Len(<<>>) = 0
  BY DEF Init, If, Threads
<1>3. Walk(v, AtHome(v, "off"), s, AtHome(v, KindUp(v)))
  BY <1>1, UpRises DEF Rises
<1> HIDE DEF s
<1>4. PICK M : Noted(v, s, M) /\ M[1] = AtHome(v, "off") /\ M[Len(s) + 1] = AtHome(v, KindUp(v))
  BY <1>3 DEF Walk
<1>5. PICK P : Noted(v, <<>>, P) /\ P[1] = AtHome(v, "beside")
  <2>1. Sound(v, AtHome(v, "beside"))
    BY HomeTidy, TidySound DEF AtHome
  <2> QED BY <2>1, EmptyWalk DEF Walk
<1> DEFINE R == [t \in Turners |-> IF t = "main" THEN M ELSE P]
<1>6. R["main"] = M /\ R["phy"] = P
  BY <1>1
<1> HIDE DEF R
<1>7. /\ power = "up" /\ running /\ phy_on = FALSE /\ owner = [l \in Locks |-> Nobody] /\ faults = {}
      /\ page = "0" /\ oldpage = "0" /\ fwpage = "0" /\ pc["main"] = 1 /\ pc["phy"] = 1
  BY <1>1 DEF Init
<1>8. owner["mdio_lock"] = Nobody /\ Nobody # "main" /\ Nobody # "phy"
  BY <1>7 DEF Locks, Nobody
<1>9. Here(R, "main") = AtHome(v, "off") /\ Here(R, "phy") = AtHome(v, "beside")
  BY <1>4, <1>5, <1>6, <1>7 DEF Here
<1>10. Last(R, "main") = AtHome(v, KindUp(v)) /\ Last(R, "phy") = AtHome(v, "beside")
  <2>1. Len(<<>>) + 1 = 1
    BY <1>2
  <2> QED BY <1>2, <1>4, <1>5, <1>6, <2>1 DEF Last
<1>11. /\ AtHome(v, "off").now = Home(v) /\ AtHome(v, "off").old = Names /\ AtHome(v, "off").has = {}
       /\ AtHome(v, "beside").has = {} /\ AtHome(v, "beside").phylib = "beside"
       /\ "0" \in Home(v) /\ "0" \in Names
  BY NoteIs, HomeTidy DEF AtHome
<1>12. \A t \in Turners : t = "main" \/ t = "phy"
  BY <1>1
<1>13. \A t \in Turners : /\ Noted(mac_version, script[t], R[t])
                          /\ "bus" \in Here(R, t).has <=> owner["mdio_lock"] = t
  BY <1>2, <1>4, <1>5, <1>6, <1>8, <1>9, <1>11, <1>12
<1>14. Idle("phy")
  BY <1>2, <1>7 DEF Idle
<1>15. Meets(Here(R, User), page, oldpage, fwpage)
  BY <1>7, <1>8, <1>9, <1>11 DEF User, Meets
<1>16. Kind = KindUp(v)
  BY <1>7 DEF Kind
<1>17. Charted(R)
  BY <1>7, <1>9, <1>10, <1>11, <1>13, <1>14, <1>15, <1>16 DEF Charted
<1> QED BY <1>17

(* Notes that hold say that every access means the page that is selected.    *)
LEMMA ChartedPages ==
    ASSUME IInv, Whole, "resume" \notin faults, NEW N, Charted(N)
    PROVE  PagesAsMeant
<1> SUFFICES ASSUME ~FwBesidePhylib
             PROVE  /\ \A t \in Threads :
                         /\ At(t, "phy") /\ Bus(t) => page = Now(t).reg \/ (LeftByFirmware /\ Now(t).reg = "0")
                         /\ At(t, "fw_data") => page = fwpage
                    /\ Rest => page = "0" \/ (LeftByFirmware /\ mac_version \in {25, 26, 29, 30, 35, 36})
  BY DEF PagesAsMeant
<1>1. Places /\ Owned /\ Apart
  BY DEF IInv, Whole, Midst
<1>2. "main" \in Threads /\ "phy" \in Threads /\ "main" # "phy"
      /\ Turners = {"main", "phy"} /\ User \in Turners
  BY DEF Threads, Turners, User
<1>3. Meets(Here(N, User), page, oldpage, fwpage)
  BY DEF Charted
<1>4. \A t \in Threads : owner["mdio_lock"] = t => ~Idle(t)
  <2> SUFFICES ASSUME NEW t \in Threads, owner["mdio_lock"] = t PROVE ~Idle(t)
    OBVIOUS
  <2>1. Holds(script[t], "mdio_lock", pc[t])
    BY <1>1 DEF Owned, Locks
  <2> QED BY <1>1, <2>1, Midway DEF Locks
<1>5. ASSUME NEW t \in Threads, (At(t, "phy") /\ Bus(t)) \/ At(t, "fw_data")
      PROVE  t = User
  <2>1. ~Idle(t) /\ Now(t).op \in PhyOps
    BY <1>5 DEF At, Now, PhyOps
  <2>2. CASE t = "main"
    <3>1. owner["mdio_lock"] # "phy"
      <4> SUFFICES ASSUME owner["mdio_lock"] = "phy" PROVE FALSE
        OBVIOUS
      <4>1. ~Idle("phy") /\ owner["mdio_lock"] # "main"
        BY <1>2, <1>4
      <4> QED BY <1>1, <2>1, <2>2, <4>1, MainBeside
    <3> QED BY <2>2, <3>1 DEF User
  <2>3. CASE t = "phy"
    <3>1. Leads(mac_version, Now(t), Here(N, t), N[t][pc[t] + 1])
      BY <1>1, <1>2, <2>1, <2>3, NotesLead DEF Charted
    <3>2. Here(N, t).phylib = "beside" /\ ("bus" \in Here(N, t).has <=> owner["mdio_lock"] = t)
      BY <1>2, <2>3 DEF Charted
    <3>3. owner["mdio_lock"] = "phy"
      BY <2>1, <2>3, <3>1, <3>2 DEF Leads, Keeps
    <3> QED BY <2>3, <3>3 DEF User
  <2>4. t # "task"
    BY <1>1, <2>1 DEF Apart
  <2> QED BY <2>2, <2>3, <2>4 DEF Threads
<1>6. ASSUME NEW t \in Threads, At(t, "phy") /\ Bus(t)
      PROVE  page = Now(t).reg \/ (LeftByFirmware /\ Now(t).reg = "0")
  <2>1. page \in Here(N, t).now
    BY <1>3, <1>5, <1>6 DEF Meets
  <2>2. ~Idle(t) /\ Now(t).op = "phy"
    BY <1>6 DEF At, Now
  <2>3. Leads(mac_version, Now(t), Here(N, t), N[t][pc[t] + 1])
    BY <1>1, <1>2, <1>5, <1>6, <2>2, NotesLead DEF Charted
  <2> QED BY <2>1, <2>2, <2>3 DEF Leads, Fits, LeftByFirmware
<1>7. ASSUME NEW t \in Threads, At(t, "fw_data")
      PROVE  page = fwpage
  <2>1. "fw" \in Here(N, t).has => fwpage = page
    BY <1>3, <1>5, <1>7 DEF Meets
  <2>2. ~Idle(t) /\ Now(t).op = "fw_data"
    BY <1>7 DEF At, Now
  <2>3. Leads(mac_version, Now(t), Here(N, t), N[t][pc[t] + 1])
    BY <1>1, <1>2, <1>5, <1>7, <2>2, NotesLead DEF Charted
  <2> QED BY <2>1, <2>2, <2>3 DEF Leads, Fits
<1>8. ASSUME Rest
      PROVE  page = "0" \/ (LeftByFirmware /\ mac_version \in {25, 26, 29, 30, 35, 36})
  <2>1. Idle("main") /\ Idle("phy")
    BY <1>2, <1>8 DEF Rest
  <2>2. User = "main"
    BY <1>2, <1>4, <2>1 DEF User
  <2>3. Here(N, "main") = AtHome(mac_version, Kind)
    BY <1>1, <1>2, <2>1, NotesLead DEF Charted
  <2>4. page \in Home(mac_version)
    BY <1>3, <2>2, <2>3, NoteIs DEF Meets, AtHome
  <2> QED BY <2>4 DEF Home, RestsOnFw, LeftByFirmware
<1> QED BY <1>6, <1>7, <1>8

(* No operation takes a fault back.                                          *)
LEMMA FaultsStay == ASSUME Operation PROVE faults \subseteq faults'
<1>1. (\E s, state : Main(s, state)) \/ (\E s : Beside(s)) => faults \subseteq faults'
  BY DEF Main, Beside, Start
<1>2. \/ \E s, state : Main(s, state)
      \/ \E s : Beside(s)
      \/ phylib
  <2>1. CASE rtl_open \/ rtl8169_close \/ set_wol \/ set_mac_address \/ rtl_task \/ change_mtu
    BY <2>1, Zenon DEF rtl_open, rtl8169_close, set_wol, set_mac_address, rtl_task, change_mtu
  <2>2. CASE set_rx_mode \/ set_features
    BY <2>2, Zenon DEF set_rx_mode, set_features
  <2>3. CASE runtime_suspend \/ system_suspend \/ runtime_resume \/ resume
    BY <2>3, Zenon DEF runtime_suspend, system_suspend, runtime_resume, resume
  <2> QED BY <2>1, <2>2, <2>3, Zenon DEF Operation
<1>3. phylib => faults \subseteq faults'
  BY DEF phylib, Start
<1> QED BY <1>1, <1>2, <1>3

(* Whatever main and phylib interleave on any chip: each access of the PHY   *)
(* goes to the page it means, the firmware's too, and the standard page is   *)
(* selected again at rest, but for the versions PagesAsMeant names and 52's  *)
(* firmware beside phylib; open or closed, until a resume is overlapped.     *)
THEOREM PagesAreMeant == Spec => []("resume" \in faults \/ PagesAsMeant)
<1> DEFINE Charts == "resume" \in faults \/ \E N : Charted(N)
<1>1. Init => Charts
  BY ChartedInit
<1>2. ASSUME IInv, Whole, Charts, [Next]_vars PROVE Charts'
  <2>1. faults \subseteq faults'
    <3>1. CASE \E t \in Threads : Access(t)
      BY <1>2, <3>1, AccessData DEF Data, IInv, Whole, Midst
    <3>2. CASE Operation
      BY <3>2, FaultsStay
    <3>3. CASE UNCHANGED vars
      BY <3>3 DEF vars
    <3> QED BY <1>2, <3>1, <3>2, <3>3 DEF Next, Done, Operation
  <2>2. CASE "resume" \in faults
    BY <2>1, <2>2
  <2>3. CASE "resume" \notin faults
    <3>1. PICK N : Charted(N)
      BY <1>2, <2>3
    <3>2. CASE \E t \in Threads : Access(t)
      BY <1>2, <2>3, <3>1, <3>2, ChartedByAccess
    <3>3. CASE Operation
      BY <1>2, <3>1, <3>3, ChartedByOps
    <3>4. CASE UNCHANGED vars
      <4>1. Charted(N)'
        BY <3>1, <3>4 DEF Charted, Here, Last, Kind, User, FwBesidePhylib, Idle, vars, config, pages, soft
      <4> QED BY <4>1
    <3> QED BY <1>2, <3>2, <3>3, <3>4 DEF Next, Done, Operation
  <2> QED BY <2>2, <2>3
<1>3. IInv /\ Whole /\ Charts => "resume" \in faults \/ PagesAsMeant
  BY ChartedPages
<1> HIDE DEF Charts
<1> QED BY <1>1, <1>2, <1>3, RegistersWhole, PTL DEF Spec
=============================================================================
