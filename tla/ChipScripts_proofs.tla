------------------------- MODULE ChipScripts_proofs -------------------------
(***************************************************************************)
(* Facts about the scripts of ChipScripts, whatever the version: reads     *)
(* come right before the writes that use them, what a script leaves in the *)
(* bits that the properties of ChipRegs are about, and where it finds and  *)
(* leaves the page of the PHY.                                             *)
(***************************************************************************)
EXTENDS ChipRegs, TLAPS

(* What the network core asks of the receive filter, in a state q.          *)
ModeBits  == {"AcceptOk", "AcceptAllPhys"}
ErrorBits == {"AcceptErr"}
Mode(q)   == {"AcceptOk"} \cup SetIf(q.promisc, {"AcceptAllPhys"})
Errors(q) == SetIf(q.rxall, {"AcceptErr"})
Fetched(q, reg) == IF reg = "mode" THEN Mode(q) ELSE Errors(q)

(* What a write puts back was read right before it, through the same window; *)
(* what is fetched is merged by the next write, into RxConfig.               *)
PlainRegs == Registers \ (EriRegs \cup OcpRegs)
Merges(a, reg) ==
    /\ a.op = "wr" /\ a.reg = "RxConfig"
    /\ \/ reg = "mode" /\ a.clear = ModeBits
       \/ reg = "features" /\ a.clear = ErrorBits
ReadAt(s, i) ==
    /\ s[i].op \in {"rd", "wr", "put"} => s[i].reg \in PlainRegs
    /\ s[i].op \in {"eri_read", "eri_data", "eridr", "eri_write"} => s[i].reg \in EriRegs
    /\ s[i].op = "wr" => Follows(s, i, "rd")
    /\ s[i].op = "eri_data" => Follows(s, i, "eri_read")
    /\ s[i].op = "eridr" /\ s[i].clear # Bits => Follows(s, i, "eri_data")
    /\ s[i].op = "eri_write" => /\ Follows(s, i, "eridr")
                                /\ s[i - 1].clear = s[i].clear /\ s[i - 1].set = s[i].set
FetchedAt(s, i) ==
    /\ \A reg \in {"mode", "features"} :
          Merges(s[i], reg) => i > 2 /\ s[i - 2].op = "get" /\ s[i - 2].reg = reg
    /\ s[i].op = "get" => /\ i + 2 \in 1 .. Len(s) /\ s[i].reg \in {"mode", "features"}
                          /\ s[i + 1].op = "rd" /\ Merges(s[i + 2], s[i].reg)
Fresh(s) ==
    /\ s \in Seq(Accesses)
    /\ \A i \in 1 .. Len(s) : ReadAt(s, i) /\ FetchedAt(s, i)

(* Whether an access writes a bit of a register, and sets it.               *)
Mentions(a, r, b) ==
    /\ a.reg = r
    /\ \/ a.op = "put"
       \/ a.op \in {"wr", "eri_write", "ocp_write"} /\ b \in a.clear \cup a.set
Gives(q, a, b) ==
    \/ b \in a.set
    \/ Merges(a, "mode") /\ b \in Mode(q)
    \/ Merges(a, "features") /\ b \in Errors(q)

-----------------------------------------------------------------------------
(* The bits the properties are about, and whether they shall be on, in a    *)
(* state q: its version v and board, whether ASPM is allowed (aspm), what was  *)
(* asked for (wol, promisc, rxall), whether it is up, and whether it was put  *)
(* down with its receiver shut (deaf).                                        *)
Allowed(q)  == q.aspm
Receives(q) == q.up \/ (~q.deaf /\ ~q.board.dash)

Magic(q, r, b) ==
    \/ rtl_is_8125(q.v) /\ r = "ocp_c0b6" /\ b = "b0"
    \/ rtl_is_8168evl_up(q.v) /\ r = "eri_dc" /\ b = "MagicPacket_v2"
    \/ ~rtl_is_8125(q.v) /\ ~rtl_is_8168evl_up(q.v) /\ r = "Config3" /\ b = "MagicPacket"
Power(q, r, b) ==
    \/ r = "Config5" /\ b = "LanWake"
    \/ PmeConfig1(q.v) /\ r = "Config1" /\ b = "PMEnable"
    \/ PmeConfig2(q.v) /\ r = "Config2" /\ b = "PME_SIGNAL"
    \/ HasD3Pll(q.v) /\ ~q.board.dash /\ r = "PMCH" /\ b = "D3_NO_PLL_DOWN"
Link(r, b)      == r = "Config3" /\ b = "LinkUp"
Unicast(r, b)   == r = "Config5" /\ b = "UWF"
Broadcast(r, b) == r = "Config5" /\ b = "BWF"
Multicast(r, b) == r = "Config5" /\ b = "MWF"
Aspm(r, b)      == \/ r = "Config5" /\ b = "ASPM_en"
                   \/ r = "Config2" /\ b = "ClkReqEn"
Filter(q, r, b) == q.v \in (34..38) \cup (40..53) /\ r = "eri_dc" /\ b = "filter"
Gate(q, r, b)   == q.v >= 40 /\ Receives(q) /\ r = "MISC" /\ b = "RXDV_GATED_EN"
Reception(q, r, b) ==
    /\ r = "RxConfig"
    /\ \/ q.up /\ b \in Bits
       \/ q.v >= 25 /\ Receives(q) /\ b = "AcceptOk"

Wakes(q, r, b) ==
    \/ Magic(q, r, b) \/ Power(q, r, b) \/ Link(r, b) \/ Unicast(r, b) \/ Broadcast(r, b)
    \/ Multicast(r, b)
Asked(q, r, b) == Wakes(q, r, b) \/ Aspm(r, b) \/ Filter(q, r, b) \/ Gate(q, r, b) \/ Reception(q, r, b)
Shall(q, r, b) ==
    \/ Magic(q, r, b) /\ "MAGIC" \in q.wol
    \/ Power(q, r, b) /\ q.wol # {}
    \/ Link(r, b) /\ "PHY" \in q.wol
    \/ Unicast(r, b) /\ "UCAST" \in q.wol
    \/ Broadcast(r, b) /\ "BCAST" \in q.wol
    \/ Multicast(r, b) /\ "MCAST" \in q.wol
    \/ Aspm(r, b) /\ Allowed(q)
    \/ Filter(q, r, b)
    \/ Reception(q, r, b) /\ b \in Mode(q) \cup Errors(q)

(* What a script leaves of a bit, from the i-th access on: untouched, or as  *)
(* it shall be.                                                              *)
Clean(s, i, r, b) == \A j \in i .. Len(s) : ~Mentions(s[j], r, b)
Ends(q, s, i, r, b) ==
    \E j \in i .. Len(s) : /\ Mentions(s[j], r, b) /\ (Gives(q, s[j], b) <=> Shall(q, r, b))
                           /\ \A k \in (j + 1) .. Len(s) : ~Mentions(s[k], r, b)
Safe(q, s, i, r, b) == Clean(s, i, r, b) \/ Ends(q, s, i, r, b)

(* Scripts that spoil no bit, and the ones that neither touch the PHY of the *)
(* PCIe link.                                                                *)
Calm(q, s) == Fresh(s) /\ \A r, b : Asked(q, r, b) => Safe(q, s, 1, r, b)
NoEphy(s)  == \A i \in 1 .. Len(s) : ~(s[i].op = "touch" /\ s[i].reg = "ephy")
Plain(q, s) == Calm(q, s) /\ NoEphy(s)

-----------------------------------------------------------------------------
(* Scripts one after the other.                                              *)
LEMMA Joined ==
    ASSUME NEW s \in Seq(Accesses), NEW u \in Seq(Accesses)
    PROVE  /\ s \o u \in Seq(Accesses) /\ Len(s \o u) = Len(s) + Len(u)
           /\ Len(s) \in Nat /\ Len(u) \in Nat
           /\ \A i \in 1 .. Len(s) : (s \o u)[i] = s[i]
           /\ \A i \in 1 .. Len(u) : (s \o u)[Len(s) + i] = u[i]
OBVIOUS

(* Reads stay right before their writes.                                     *)
LEMMA FreshJoins == ASSUME NEW s, NEW u, Fresh(s), Fresh(u) PROVE Fresh(s \o u)
<1> DEFINE z == s \o u
           m == Len(s)
<1>1. s \in Seq(Accesses) /\ u \in Seq(Accesses)
  BY DEF Fresh
<1>2. /\ z \in Seq(Accesses) /\ Len(z) = m + Len(u) /\ m \in Nat /\ Len(u) \in Nat
      /\ \A i \in 1 .. m : z[i] = s[i]
      /\ \A i \in 1 .. Len(u) : z[m + i] = u[i]
  BY <1>1, Joined
<1> HIDE DEF z, m
<1>3. ASSUME NEW i \in 1 .. m PROVE ReadAt(z, i) /\ FetchedAt(z, i)
  <2>1. ReadAt(s, i) /\ FetchedAt(s, i) /\ z[i] = s[i]
    BY <1>2, <1>3 DEF Fresh, m
  <2>2. i > 1 => z[i - 1] = s[i - 1]
    BY <1>2, <1>3
  <2>3. i > 2 => z[i - 2] = s[i - 2]
    BY <1>2, <1>3
  <2>4. i + 2 \in 1 .. Len(s) => i + 2 \in 1 .. Len(z) /\ z[i + 1] = s[i + 1] /\ z[i + 2] = s[i + 2]
    BY <1>2, <1>3 DEF m
  <2>5. ReadAt(z, i)
    BY <2>1, <2>2, <1>3 DEF ReadAt, Follows
  <2>6. FetchedAt(z, i)
    BY <2>1, <2>3, <2>4 DEF FetchedAt
  <2> QED BY <2>5, <2>6
<1>4. ASSUME NEW k \in 1 .. Len(u) PROVE ReadAt(z, m + k) /\ FetchedAt(z, m + k)
  <2>1. ReadAt(u, k) /\ FetchedAt(u, k) /\ z[m + k] = u[k]
    BY <1>2, <1>4 DEF Fresh
  <2>2. k > 1 => z[(m + k) - 1] = u[k - 1] /\ m + k > 1
    <3>1. k > 1 => (m + k) - 1 = m + (k - 1) /\ k - 1 \in 1 .. Len(u) /\ m + k > 1
      BY <1>2, <1>4
    <3> QED BY <3>1, <1>2
  <2>3. k > 2 => z[(m + k) - 2] = u[k - 2] /\ m + k > 2
    <3>1. k > 2 => (m + k) - 2 = m + (k - 2) /\ k - 2 \in 1 .. Len(u) /\ m + k > 2
      BY <1>2, <1>4
    <3> QED BY <3>1, <1>2
  <2>4. k + 2 \in 1 .. Len(u) => /\ (m + k) + 2 \in 1 .. Len(z)
                                 /\ z[(m + k) + 1] = u[k + 1] /\ z[(m + k) + 2] = u[k + 2]
    <3>1. k + 2 \in 1 .. Len(u) =>
            /\ (m + k) + 1 = m + (k + 1) /\ k + 1 \in 1 .. Len(u)
            /\ (m + k) + 2 = m + (k + 2) /\ m + (k + 2) \in 1 .. Len(z)
      BY <1>2, <1>4
    <3> QED BY <3>1, <1>2
  <2>5. ReadAt(z, m + k)
    BY <2>1, <2>2 DEF ReadAt, Follows
  <2>6. FetchedAt(z, m + k)
    BY <2>1, <2>3, <2>4 DEF FetchedAt
  <2> QED BY <2>5, <2>6
<1>5. \A i \in 1 .. Len(z) : i \in 1 .. m \/ (i - m \in 1 .. Len(u) /\ m + (i - m) = i)
  BY <1>2
<1>6. \A i \in 1 .. Len(z) : ReadAt(z, i) /\ FetchedAt(z, i)
  BY <1>3, <1>4, <1>5
<1> QED BY <1>2, <1>6 DEF Fresh, z

(* What neither part writes, the whole does not.                             *)
LEMMA CleanJoins ==
    ASSUME NEW s \in Seq(Accesses), NEW u \in Seq(Accesses), NEW r, NEW b
    PROVE  Clean(s \o u, 1, r, b) <=> Clean(s, 1, r, b) /\ Clean(u, 1, r, b)
<1> DEFINE z == s \o u
           m == Len(s)
           M(a) == Mentions(a, r, b)
<1>1. /\ Len(z) = m + Len(u) /\ m \in Nat /\ Len(u) \in Nat
      /\ \A i \in 1 .. m : z[i] = s[i]
      /\ \A i \in 1 .. Len(u) : z[m + i] = u[i]
  BY Joined
<1>2. /\ Clean(z, 1, r, b) <=> \A j \in 1 .. Len(z) : ~M(z[j])
      /\ Clean(s, 1, r, b) <=> \A j \in 1 .. m : ~M(s[j])
      /\ Clean(u, 1, r, b) <=> \A j \in 1 .. Len(u) : ~M(u[j])
  BY DEF Clean
<1> HIDE DEF z, m, M
<1>3. \A i \in 1 .. Len(z) : i \in 1 .. m \/ (i - m \in 1 .. Len(u) /\ m + (i - m) = i)
  BY <1>1
<1>4. /\ \A i \in 1 .. m : i \in 1 .. Len(z)
      /\ \A i \in 1 .. Len(u) : m + i \in 1 .. Len(z)
  BY <1>1
<1>5. ASSUME \A j \in 1 .. m : ~M(s[j]), \A j \in 1 .. Len(u) : ~M(u[j]), NEW j \in 1 .. Len(z)
      PROVE  ~M(z[j])
  <2>1. CASE j \in 1 .. m BY <2>1, <1>1, <1>5
  <2>2. CASE j - m \in 1 .. Len(u) /\ m + (j - m) = j
    <3>1. z[m + (j - m)] = u[j - m] BY <2>2, <1>1
    <3> QED BY <3>1, <2>2, <1>5
  <2> QED BY <2>1, <2>2, <1>3
<1>6. ASSUME \A j \in 1 .. Len(z) : ~M(z[j])
      PROVE  (\A j \in 1 .. m : ~M(s[j])) /\ \A j \in 1 .. Len(u) : ~M(u[j])
  BY <1>1, <1>4, <1>6
<1> QED BY <1>2, <1>5, <1>6 DEF z

(* The later part decides, unless it leaves the bit alone.                   *)
LEMMA EndsJoin ==
    ASSUME NEW q, NEW s \in Seq(Accesses), NEW u \in Seq(Accesses), NEW r, NEW b
    PROVE  /\ Ends(q, u, 1, r, b) => Ends(q, s \o u, 1, r, b)
           /\ Ends(q, s, 1, r, b) /\ Clean(u, 1, r, b) => Ends(q, s \o u, 1, r, b)
           /\ Ends(q, s, 1, r, b) /\ Safe(q, u, 1, r, b) => Ends(q, s \o u, 1, r, b)
<1> DEFINE z == s \o u
           m == Len(s)
           M(a) == Mentions(a, r, b)
           G(a) == Gives(q, a, b) <=> Shall(q, r, b)
           E(t) == \E j \in 1 .. Len(t) : /\ M(t[j]) /\ G(t[j])
                                          /\ \A k \in (j + 1) .. Len(t) : ~M(t[k])
<1>1. /\ Len(z) = m + Len(u) /\ m \in Nat /\ Len(u) \in Nat
      /\ \A i \in 1 .. m : z[i] = s[i]
      /\ \A i \in 1 .. Len(u) : z[m + i] = u[i]
  BY Joined
<1>2. /\ Ends(q, z, 1, r, b) <=> E(z)
      /\ Ends(q, s, 1, r, b) <=> E(s)
      /\ Ends(q, u, 1, r, b) <=> E(u)
      /\ Clean(u, 1, r, b) <=> \A j \in 1 .. Len(u) : ~M(u[j])
  BY DEF Clean, Ends
<1> HIDE DEF z, M, G
<1>3. \A i \in 1 .. Len(z) : i \in 1 .. m \/ (i - m \in 1 .. Len(u) /\ m + (i - m) = i)
  BY <1>1
<1>4. ASSUME E(u) PROVE E(z)
  <2>1. PICK j \in 1 .. Len(u) : M(u[j]) /\ G(u[j]) /\ \A k \in (j + 1) .. Len(u) : ~M(u[k])
    BY <1>4
  <2>2. m + j \in 1 .. Len(z) /\ z[m + j] = u[j]
    BY <1>1
  <2>3. ASSUME NEW k \in (m + j + 1) .. Len(z) PROVE ~M(z[k])
    <3>1. k - m \in (j + 1) .. Len(u) /\ k - m \in 1 .. Len(u) /\ m + (k - m) = k
      BY <1>1
    <3>2. z[m + (k - m)] = u[k - m]
      BY <3>1, <1>1
    <3> QED BY <3>1, <3>2, <2>1
  <2> QED BY <2>1, <2>2, <2>3
<1>5. ASSUME E(s), \A j \in 1 .. Len(u) : ~M(u[j]) PROVE E(z)
  <2>1. PICK j \in 1 .. m : M(s[j]) /\ G(s[j]) /\ \A k \in (j + 1) .. m : ~M(s[k])
    BY <1>5
  <2>2. j \in 1 .. Len(z) /\ z[j] = s[j]
    BY <1>1
  <2>3. ASSUME NEW k \in (j + 1) .. Len(z) PROVE ~M(z[k])
    <3>1. CASE k \in 1 .. m
      <4>1. k \in (j + 1) .. m BY <3>1, <1>1
      <4> QED BY <4>1, <3>1, <2>1, <1>1
    <3>2. CASE k - m \in 1 .. Len(u) /\ m + (k - m) = k
      <4>1. z[m + (k - m)] = u[k - m] BY <3>2, <1>1
      <4> QED BY <4>1, <3>2, <1>5
    <3>3. k \in 1 .. Len(z) BY <1>1
    <3> QED BY <3>1, <3>2, <3>3, <1>3
  <2> QED BY <2>1, <2>2, <2>3
<1> HIDE DEF E
<1> QED BY <1>2, <1>4, <1>5 DEF z, Safe

(* A bit is left alone, or left as it shall be, by both or by the whole.     *)
LEMMA SafeJoins ==
    ASSUME NEW q, NEW s \in Seq(Accesses), NEW u \in Seq(Accesses), NEW r, NEW b,
           Safe(q, s, 1, r, b), Safe(q, u, 1, r, b)
    PROVE  Safe(q, s \o u, 1, r, b)
BY CleanJoins, EndsJoin DEF Safe

(* Two scripts that spoil nothing, one after the other, spoil nothing.       *)
LEMMA CalmJoins == ASSUME NEW q, NEW s, NEW u, Calm(q, s), Calm(q, u) PROVE Calm(q, s \o u)
<1>1. Fresh(s \o u) /\ s \in Seq(Accesses) /\ u \in Seq(Accesses)
  BY FreshJoins DEF Calm, Fresh
<1>2. ASSUME NEW r, NEW b, Asked(q, r, b) PROVE Safe(q, s \o u, 1, r, b)
  BY <1>1, <1>2, SafeJoins DEF Calm
<1> QED BY <1>1, <1>2 DEF Calm

(* Neither part accesses the PHY of the PCIe link, nor does the whole.       *)
LEMMA NoEphyJoins ==
    ASSUME NEW s \in Seq(Accesses), NEW u \in Seq(Accesses), NoEphy(s), NoEphy(u) PROVE NoEphy(s \o u)
<1> DEFINE z == s \o u
           m == Len(s)
<1>1. /\ Len(z) = m + Len(u) /\ m \in Nat /\ Len(u) \in Nat
      /\ \A i \in 1 .. m : z[i] = s[i]
      /\ \A i \in 1 .. Len(u) : z[m + i] = u[i]
  BY Joined
<1> HIDE DEF z
<1>2. \A i \in 1 .. Len(z) : i \in 1 .. m \/ (i - m \in 1 .. Len(u) /\ m + (i - m) = i)
  BY <1>1
<1>3. ASSUME NEW i \in 1 .. Len(z) PROVE ~(z[i].op = "touch" /\ z[i].reg = "ephy")
  <2>1. CASE i \in 1 .. m BY <2>1, <1>1 DEF NoEphy
  <2>2. CASE i - m \in 1 .. Len(u) /\ m + (i - m) = i
    <3>1. z[m + (i - m)] = u[i - m] BY <2>2, <1>1
    <3> QED BY <3>1, <2>2 DEF NoEphy
  <2> QED BY <2>1, <2>2, <1>2
<1> QED BY <1>3 DEF NoEphy, z

(* Both, of plain scripts.                                                   *)
LEMMA PlainJoins == ASSUME NEW q, NEW s, NEW u, Plain(q, s), Plain(q, u) PROVE Plain(q, s \o u)
BY CalmJoins, NoEphyJoins DEF Plain, Calm, Fresh

(* The empty script spoils nothing.                                          *)
LEMMA EmptyPlain == ASSUME NEW q PROVE Plain(q, <<>>) /\ Fresh(<<>>)
<1>1. <<>> \in Seq(Accesses) /\ Len(<<>>) = 0 OBVIOUS
<1> QED BY <1>1 DEF Plain, Calm, Fresh, NoEphy, Safe, Clean

(* A step some versions leave out.                                           *)
LEMMA IfPlain == ASSUME NEW q, NEW s, NEW c, c => Plain(q, s) PROVE Plain(q, If(c, s))
BY EmptyPlain DEF If

(* The same, where the PHY of the link may be accessed.                      *)
LEMMA IfCalm == ASSUME NEW q, NEW s, NEW c, c => Calm(q, s) PROVE Calm(q, If(c, s))
BY EmptyPlain DEF If, Plain

-----------------------------------------------------------------------------
(* The shortest scripts.                                                     *)
LEMMA One ==
    ASSUME NEW op \in Ops, NEW reg \in Names, NEW clear \in SUBSET Bits, NEW set \in SUBSET Bits
    PROVE  /\ Do(op, reg, clear, set) \in Seq(Accesses) /\ Len(Do(op, reg, clear, set)) = 1
           /\ Do(op, reg, clear, set)[1] = [op |-> op, reg |-> reg, clear |-> clear, set |-> set]
<1>1. [op |-> op, reg |-> reg, clear |-> clear, set |-> set] \in Accesses
  BY DEF Accesses
<1> QED BY <1>1 DEF Do

(* An access without a mask.                                                 *)
LEMMA Bare ==
    ASSUME NEW op \in Ops, NEW reg \in Names
    PROVE  /\ Do(op, reg, {}, {}) \in Seq(Accesses) /\ Len(Do(op, reg, {}, {})) = 1
           /\ Do(op, reg, {}, {})[1] = [op |-> op, reg |-> reg, clear |-> {}, set |-> {}]
<1>1. {} \in SUBSET Bits
  OBVIOUS
<1> QED BY <1>1, One

(* Operations that write no register.                                        *)
Harmless == Ops \ {"wr", "put", "get", "eri_read", "eri_data", "eridr", "eri_write", "ocp_write",
                   "rd", "ocp_addr", "ocp_data"}

(* An access that is no read and no write of a modelled register.            *)
LEMMA HarmlessPlain ==
    ASSUME NEW q, NEW op \in Harmless, NEW reg \in Names, op = "touch" => reg # "ephy"
    PROVE  Plain(q, Do(op, reg, {}, {}))
<1> DEFINE s == Do(op, reg, {}, {})
           a == [op |-> op, reg |-> reg, clear |-> {}, set |-> {}]
<1>0. op \in Ops /\ {} \in SUBSET Bits
  BY DEF Harmless
<1>1. s \in Seq(Accesses) /\ Len(s) = 1 /\ s[1] = a
  BY <1>0, One
<1>2. a.op = op /\ a.reg = reg
  OBVIOUS
<1> HIDE DEF s, a
<1>3. ReadAt(s, 1) /\ FetchedAt(s, 1)
  BY <1>1, <1>2 DEF ReadAt, FetchedAt, Merges, Harmless
<1>4. \A r, b : ~Mentions(a, r, b)
  BY <1>2 DEF Mentions, Harmless
<1>5. Fresh(s) /\ NoEphy(s)
  BY <1>1, <1>2, <1>3 DEF Fresh, NoEphy
<1>6. \A r, b : Safe(q, s, 1, r, b)
  BY <1>1, <1>4 DEF Safe, Clean
<1> QED BY <1>5, <1>6 DEF Plain, Calm, s

(* An access of the link's PHY writes none of the registers.                 *)
LEMMA EphyCalm == ASSUME NEW q PROVE Calm(q, Touch("ephy"))
<1> DEFINE s == Touch("ephy")
           a == [op |-> "touch", reg |-> "ephy", clear |-> {}, set |-> {}]
<1>0. "touch" \in Ops /\ "ephy" \in Names /\ {} \in SUBSET Bits
  BY DEF Ops, Names
<1>1. s \in Seq(Accesses) /\ Len(s) = 1 /\ s[1] = a
  BY <1>0, One DEF Touch
<1>2. a.op = "touch" /\ a.reg = "ephy"
  OBVIOUS
<1> HIDE DEF s, a
<1>3. ReadAt(s, 1) /\ FetchedAt(s, 1)
  BY <1>1, <1>2 DEF ReadAt, FetchedAt, Merges
<1>4. \A r, b : ~Mentions(a, r, b)
  BY <1>2 DEF Mentions
<1>5. Fresh(s)
  BY <1>1, <1>2, <1>3 DEF Fresh
<1>6. \A r, b : Safe(q, s, 1, r, b)
  BY <1>1, <1>4 DEF Safe, Clean
<1> QED BY <1>5, <1>6 DEF Calm, s

(* Taking a lock around a script writes nothing.                             *)
LEMMA UnderPlain ==
    ASSUME NEW q, NEW s, NEW l \in Names, Plain(q, s) PROVE Plain(q, Under(l, s))
<1>1. Plain(q, Do("acquire", l, {}, {})) /\ Plain(q, Do("release", l, {}, {}))
  BY HarmlessPlain DEF Harmless, Ops, Names
<1> QED BY <1>1, PlainJoins DEF Under

(* Nor does unlocking the configuration registers around it.                 *)
LEMMA UnlockedCalm == ASSUME NEW q, NEW s, Calm(q, s) PROVE Calm(q, Unlocked(s))
<1>1. Plain(q, Do("unlock", "Cfg9346", {}, {})) /\ Plain(q, Do("lock", "Cfg9346", {}, {}))
  BY HarmlessPlain DEF Harmless, Ops, Names
<1> QED BY <1>1, CalmJoins DEF Unlocked, Plain

(* The same, of a plain script.                                              *)
LEMMA UnlockedPlain == ASSUME NEW q, NEW s, Plain(q, s) PROVE Plain(q, Unlocked(s))
<1>1. Plain(q, Do("unlock", "Cfg9346", {}, {})) /\ Plain(q, Do("lock", "Cfg9346", {}, {}))
  BY HarmlessPlain DEF Harmless, Ops, Names
<1> QED BY <1>1, PlainJoins DEF Unlocked

(* Taking and giving back a lock changes no register.                        *)
LEMMA LockClean ==
    ASSUME NEW op \in {"acquire", "release", "unlock", "lock", "phy_stop", "phy_start"}, NEW l \in Names
    PROVE  /\ Fresh(Do(op, l, {}, {})) /\ NoEphy(Do(op, l, {}, {}))
           /\ \A r, b : Clean(Do(op, l, {}, {}), 1, r, b)
<1> DEFINE s == Do(op, l, {}, {})
<1>1. op \in Harmless /\ op \in Ops /\ op \notin {"put", "wr", "eri_write", "ocp_write", "touch"}
  BY DEF Harmless, Ops
<1>2. Plain([v |-> 2], s)
  BY <1>1, HarmlessPlain
<1>3. Len(s) = 1 /\ s[1] = [op |-> op, reg |-> l, clear |-> {}, set |-> {}]
  BY <1>1, Bare
<1>4. s[1].op = op
  BY <1>3
<1>5. \A r, b : Clean(s, 1, r, b)
  BY <1>1, <1>3, <1>4 DEF Clean, Mentions
<1> QED BY <1>2, <1>5 DEF Plain, Calm

(* What a script writes is what it writes between two that write nothing.    *)
LEMMA BetweenKeeps ==
    ASSUME NEW x, NEW s, NEW y, Fresh(x), Fresh(s), Fresh(y),
           \A r, b : Clean(x, 1, r, b) /\ Clean(y, 1, r, b)
    PROVE  /\ Fresh(x \o s \o y)
           /\ NoEphy(x) /\ NoEphy(s) /\ NoEphy(y) => NoEphy(x \o s \o y)
           /\ \A r, b : Clean(s, 1, r, b) => Clean(x \o s \o y, 1, r, b)
           /\ \A q, r, b : Ends(q, s, 1, r, b) => Ends(q, x \o s \o y, 1, r, b)
<1>1. Fresh(x \o s) /\ Fresh(x \o s \o y)
  BY FreshJoins
<1>2. NoEphy(x) /\ NoEphy(s) /\ NoEphy(y) => NoEphy(x \o s \o y)
  BY <1>1, NoEphyJoins DEF Fresh
<1>3. ASSUME NEW r, NEW b, Clean(s, 1, r, b) PROVE Clean(x \o s \o y, 1, r, b)
  <2>1. Clean(x \o s, 1, r, b)
    BY <1>3, CleanJoins DEF Fresh
  <2> QED BY <2>1, <1>1, CleanJoins DEF Fresh
<1>4. ASSUME NEW q, NEW r, NEW b, Ends(q, s, 1, r, b) PROVE Ends(q, x \o s \o y, 1, r, b)
  <2>1. Ends(q, x \o s, 1, r, b)
    BY <1>4, EndsJoin DEF Fresh
  <2> QED BY <2>1, <1>1, EndsJoin DEF Fresh
<1> QED BY <1>1, <1>2, <1>3, <1>4

(* So it is under a lock.                                                    *)
LEMMA UnderKeeps ==
    ASSUME NEW s, Fresh(s), NEW l \in Names
    PROVE  /\ Fresh(Under(l, s)) /\ (NoEphy(s) => NoEphy(Under(l, s)))
           /\ \A r, b : Clean(s, 1, r, b) => Clean(Under(l, s), 1, r, b)
           /\ \A q, r, b : Ends(q, s, 1, r, b) => Ends(q, Under(l, s), 1, r, b)
<1> DEFINE x == Do("acquire", l, {}, {})
           y == Do("release", l, {}, {})
<1>1. /\ Fresh(x) /\ Fresh(y) /\ NoEphy(x) /\ NoEphy(y)
      /\ \A r, b : Clean(x, 1, r, b) /\ Clean(y, 1, r, b)
  BY LockClean
<1>2. Under(l, s) = x \o s \o y
  BY DEF Under
<1> HIDE DEF x, y
<1> QED BY <1>1, <1>2, BetweenKeeps

(* So it is with the configuration registers unlocked.                       *)
LEMMA UnlockedKeeps ==
    ASSUME NEW s, Fresh(s)
    PROVE  /\ Fresh(Unlocked(s)) /\ (NoEphy(s) => NoEphy(Unlocked(s)))
           /\ \A r, b : Clean(s, 1, r, b) => Clean(Unlocked(s), 1, r, b)
           /\ \A q, r, b : Ends(q, s, 1, r, b) => Ends(q, Unlocked(s), 1, r, b)
<1> DEFINE x == Do("unlock", "Cfg9346", {}, {})
           y == Do("lock", "Cfg9346", {}, {})
<1>1. /\ Fresh(x) /\ Fresh(y) /\ NoEphy(x) /\ NoEphy(y)
      /\ \A r, b : Clean(x, 1, r, b) /\ Clean(y, 1, r, b)
  BY LockClean DEF Names
<1>2. Unlocked(s) = x \o s \o y
  BY DEF Unlocked
<1> HIDE DEF x, y
<1> QED BY <1>1, <1>2, BetweenKeeps

(* Reading, changing and writing back: the write mentions what it changes.   *)
Changes(s, reg, clear, set) ==
    \E j \in 1 .. Len(s) :
        /\ s[j].reg = reg /\ s[j].clear = clear /\ s[j].set = set
        /\ s[j].op \in {"wr", "eri_write", "ocp_write"}
        /\ \A k \in 1 .. Len(s) : k # j => s[k].op \notin {"wr", "eri_write", "ocp_write", "put"}
        /\ ~Merges(s[j], "mode") /\ ~Merges(s[j], "features")

(* RTL_W8 of what RTL_R8 read, with bits changed, changes those bits.        *)
LEMMA RMWChanges ==
    ASSUME NEW reg \in PlainRegs, NEW clear \in SUBSET Bits, NEW set \in SUBSET Bits,
           reg # "RxConfig" \/ clear \notin {ModeBits, ErrorBits}
    PROVE  Fresh(RMW(reg, clear, set)) /\ NoEphy(RMW(reg, clear, set))
           /\ Changes(RMW(reg, clear, set), reg, clear, set)
<1> DEFINE s == RMW(reg, clear, set)
           x == [op |-> "rd", reg |-> reg, clear |-> {}, set |-> {}]
           y == [op |-> "wr", reg |-> reg, clear |-> clear, set |-> set]
<1>1. reg \in Names
  BY DEF PlainRegs, Names
<1>2. s \in Seq(Accesses) /\ Len(s) = 2 /\ s[1] = x /\ s[2] = y
  <2>0. "rd" \in Ops /\ "wr" \in Ops /\ {} \in SUBSET Bits
    BY DEF Ops
  <2>1. /\ Do("rd", reg, {}, {}) \in Seq(Accesses) /\ Len(Do("rd", reg, {}, {})) = 1
        /\ Do("rd", reg, {}, {})[1] = x
    BY <1>1, <2>0, Bare
  <2>2. /\ Do("wr", reg, clear, set) \in Seq(Accesses) /\ Len(Do("wr", reg, clear, set)) = 1
        /\ Do("wr", reg, clear, set)[1] = y
    BY <1>1, <2>0, One
  <2> HIDE DEF x, y
  <2> QED BY <2>1, <2>2, Joined DEF RMW
<1>3. x.op = "rd" /\ x.reg = reg /\ y.op = "wr" /\ y.reg = reg /\ y.clear = clear /\ y.set = set
  OBVIOUS
<1> HIDE DEF s, x, y
<1>4. ~Merges(y, "mode") /\ ~Merges(y, "features") /\ ~Merges(x, "mode") /\ ~Merges(x, "features")
  BY <1>3 DEF Merges
<1>5. ReadAt(s, 1) /\ ReadAt(s, 2)
  BY <1>2, <1>3 DEF ReadAt, Follows
<1>6. FetchedAt(s, 1) /\ FetchedAt(s, 2)
  BY <1>2, <1>3, <1>4 DEF FetchedAt
<1>7. \A i \in 1 .. Len(s) : i = 1 \/ i = 2
  BY <1>2
<1>8. Fresh(s)
  BY <1>2, <1>5, <1>6, <1>7 DEF Fresh
<1>9. NoEphy(s)
  BY <1>2, <1>3, <1>7 DEF NoEphy
<1>10. Changes(s, reg, clear, set)
  BY <1>2, <1>3, <1>4, <1>7 DEF Changes
<1> QED BY <1>8, <1>9, <1>10 DEF s

(* A change leaves a bit it writes as it shall be, when it writes that.      *)
LEMMA ChangeEnds ==
    ASSUME NEW q, NEW s, NEW reg, NEW clear, NEW set, Changes(s, reg, clear, set),
           NEW b, b \in clear \cup set, b \in set <=> Shall(q, reg, b), s \in Seq(Accesses)
    PROVE  Ends(q, s, 1, reg, b)
<1>1. PICK j \in 1 .. Len(s) :
        /\ s[j].reg = reg /\ s[j].clear = clear /\ s[j].set = set
        /\ s[j].op \in {"wr", "eri_write", "ocp_write"}
        /\ \A k \in 1 .. Len(s) : k # j => s[k].op \notin {"wr", "eri_write", "ocp_write", "put"}
        /\ ~Merges(s[j], "mode") /\ ~Merges(s[j], "features")
  BY DEF Changes
<1>2. Mentions(s[j], reg, b) /\ (Gives(q, s[j], b) <=> Shall(q, reg, b))
  BY <1>1 DEF Mentions, Gives
<1>3. \A k \in (j + 1) .. Len(s) : k \in 1 .. Len(s) /\ k # j
  BY <1>1
<1>4. \A k \in (j + 1) .. Len(s) : ~Mentions(s[k], reg, b)
  BY <1>1, <1>3 DEF Mentions
<1> HIDE DEF Mentions
<1> QED BY <1>1, <1>2, <1>4 DEF Ends

(* A change leaves the other bits alone.                                     *)
LEMMA ChangeClean ==
    ASSUME NEW s, NEW reg, NEW clear, NEW set, Changes(s, reg, clear, set),
           NEW r, NEW b, r # reg \/ b \notin clear \cup set
    PROVE  Clean(s, 1, r, b)
BY DEF Clean, Changes, Mentions

(* A change of no bit to what it shall not be spoils nothing.                *)
LEMMA ChangePlain ==
    ASSUME NEW q, NEW s, NEW reg, NEW clear, NEW set, Changes(s, reg, clear, set), Fresh(s), NoEphy(s),
           \A b : Asked(q, reg, b) /\ b \in clear \cup set => (b \in set <=> Shall(q, reg, b))
    PROVE  Plain(q, s)
<1>1. ASSUME NEW r, NEW b, Asked(q, r, b) PROVE Safe(q, s, 1, r, b)
  <2>1. CASE r = reg /\ b \in clear \cup set
    BY <2>1, <1>1, ChangeEnds DEF Safe, Fresh
  <2>2. CASE ~(r = reg /\ b \in clear \cup set)
    BY <2>2, ChangeClean DEF Safe
  <2> QED BY <2>1, <2>2
<1> QED BY <1>1 DEF Plain, Calm

(* rtl_eri_write gives every bit of its register a value.                    *)
LEMMA EriWriteChanges ==
    ASSUME NEW reg \in EriRegs, NEW set \in SUBSET Bits
    PROVE  Fresh(EriWrite(reg, set)) /\ NoEphy(EriWrite(reg, set))
           /\ Changes(EriWrite(reg, set), reg, Bits, set)
<1> DEFINE s == EriWrite(reg, set)
           x == [op |-> "eridr", reg |-> reg, clear |-> Bits, set |-> set]
           y == [op |-> "eri_write", reg |-> reg, clear |-> Bits, set |-> set]
<1>1. reg \in Names
  BY DEF EriRegs, Registers, Names
<1>2. s \in Seq(Accesses) /\ Len(s) = 2 /\ s[1] = x /\ s[2] = y
  <2>0. "eridr" \in Ops /\ "eri_write" \in Ops /\ Bits \in SUBSET Bits
    BY DEF Ops
  <2>1. /\ Do("eridr", reg, Bits, set) \in Seq(Accesses) /\ Len(Do("eridr", reg, Bits, set)) = 1
        /\ Do("eridr", reg, Bits, set)[1] = x
    BY <1>1, <2>0, One
  <2>2. /\ Do("eri_write", reg, Bits, set) \in Seq(Accesses) /\ Len(Do("eri_write", reg, Bits, set)) = 1
        /\ Do("eri_write", reg, Bits, set)[1] = y
    BY <1>1, <2>0, One
  <2> HIDE DEF x, y
  <2> QED BY <2>1, <2>2, Joined DEF EriWrite
<1>3. /\ x.op = "eridr" /\ x.reg = reg /\ x.clear = Bits /\ x.set = set
      /\ y.op = "eri_write" /\ y.reg = reg /\ y.clear = Bits /\ y.set = set
  OBVIOUS
<1> HIDE DEF s, x, y
<1>4. ~Merges(y, "mode") /\ ~Merges(y, "features") /\ ~Merges(x, "mode") /\ ~Merges(x, "features")
  BY <1>3 DEF Merges
<1>5. ReadAt(s, 1) /\ ReadAt(s, 2)
  BY <1>2, <1>3 DEF ReadAt, Follows
<1>6. FetchedAt(s, 1) /\ FetchedAt(s, 2)
  BY <1>2, <1>3, <1>4 DEF FetchedAt
<1>7. \A i \in 1 .. Len(s) : i = 1 \/ i = 2
  BY <1>2
<1>8. Fresh(s)
  BY <1>2, <1>5, <1>6, <1>7 DEF Fresh
<1>9. NoEphy(s)
  BY <1>2, <1>3, <1>7 DEF NoEphy
<1>10. Changes(s, reg, Bits, set)
  BY <1>2, <1>3, <1>4, <1>7 DEF Changes
<1> QED BY <1>8, <1>9, <1>10 DEF s

(* rtl_w0w1_eri changes the bits of its masks.                               *)
LEMMA EriModifyChanges ==
    ASSUME NEW reg \in EriRegs, NEW clear \in SUBSET Bits, NEW set \in SUBSET Bits
    PROVE  Fresh(EriModify(reg, clear, set)) /\ NoEphy(EriModify(reg, clear, set))
           /\ Changes(EriModify(reg, clear, set), reg, clear, set)
<1> DEFINE s == EriModify(reg, clear, set)
           u == [op |-> "eri_read", reg |-> reg, clear |-> {}, set |-> {}]
           w == [op |-> "eri_data", reg |-> reg, clear |-> {}, set |-> {}]
           x == [op |-> "eridr", reg |-> reg, clear |-> clear, set |-> set]
           y == [op |-> "eri_write", reg |-> reg, clear |-> clear, set |-> set]
<1>1. reg \in Names
  BY DEF EriRegs, Registers, Names
<1>2. s \in Seq(Accesses) /\ Len(s) = 4 /\ s[1] = u /\ s[2] = w /\ s[3] = x /\ s[4] = y
  <2>0. "eridr" \in Ops /\ "eri_write" \in Ops /\ "eri_read" \in Ops /\ "eri_data" \in Ops
    BY DEF Ops
  <2>1. /\ Do("eridr", reg, clear, set) \in Seq(Accesses) /\ Len(Do("eridr", reg, clear, set)) = 1
        /\ Do("eridr", reg, clear, set)[1] = x
    BY <1>1, <2>0, One
  <2>2. /\ Do("eri_write", reg, clear, set) \in Seq(Accesses) /\ Len(Do("eri_write", reg, clear, set)) = 1
        /\ Do("eri_write", reg, clear, set)[1] = y
    BY <1>1, <2>0, One
  <2>3. /\ Do("eri_read", reg, {}, {}) \in Seq(Accesses) /\ Len(Do("eri_read", reg, {}, {})) = 1
        /\ Do("eri_read", reg, {}, {})[1] = u
    BY <1>1, <2>0, Bare
  <2>4. /\ Do("eri_data", reg, {}, {}) \in Seq(Accesses) /\ Len(Do("eri_data", reg, {}, {})) = 1
        /\ Do("eri_data", reg, {}, {})[1] = w
    BY <1>1, <2>0, Bare
  <2> HIDE DEF u, w, x, y
  <2>5. EriRead(reg) \in Seq(Accesses) /\ Len(EriRead(reg)) = 2 /\ EriRead(reg)[1] = u /\ EriRead(reg)[2] = w
    BY <2>3, <2>4, Joined DEF EriRead
  <2> DEFINE z == EriRead(reg) \o Do("eridr", reg, clear, set)
  <2>6. z \in Seq(Accesses) /\ Len(z) = 3 /\ z[1] = u /\ z[2] = w /\ z[3] = x
    BY <2>1, <2>5, Joined
  <2>7. s = z \o Do("eri_write", reg, clear, set)
    BY DEF EriModify
  <2> DEFINE d == Do("eri_write", reg, clear, set)
  <2> HIDE DEF z, s, d
  <2>8. /\ d \in Seq(Accesses) /\ Len(d) = 1 /\ d[1] = y /\ s = z \o d
    BY <2>2, <2>7 DEF d
  <2>9. /\ z \o d \in Seq(Accesses) /\ Len(z \o d) = Len(z) + Len(d)
        /\ \A i \in 1 .. Len(z) : (z \o d)[i] = z[i]
        /\ \A i \in 1 .. Len(d) : (z \o d)[Len(z) + i] = d[i]
    BY <2>6, <2>8, Joined
  <2>10. /\ s \in Seq(Accesses) /\ Len(s) = 4 /\ s[3 + 1] = d[1]
         /\ \A i \in 1 .. 3 : s[i] = z[i]
    BY <2>6, <2>8, <2>9
  <2> QED BY <2>6, <2>8, <2>10
<1>3. /\ u.op = "eri_read" /\ u.reg = reg /\ w.op = "eri_data" /\ w.reg = reg
      /\ x.op = "eridr" /\ x.reg = reg /\ x.clear = clear /\ x.set = set
      /\ y.op = "eri_write" /\ y.reg = reg /\ y.clear = clear /\ y.set = set
  OBVIOUS
<1> HIDE DEF s, u, w, x, y
<1>4. /\ ~Merges(y, "mode") /\ ~Merges(y, "features") /\ ~Merges(x, "mode") /\ ~Merges(x, "features")
      /\ ~Merges(u, "mode") /\ ~Merges(u, "features") /\ ~Merges(w, "mode") /\ ~Merges(w, "features")
  BY <1>3 DEF Merges
<1>5. ReadAt(s, 1) /\ ReadAt(s, 2) /\ ReadAt(s, 3) /\ ReadAt(s, 4)
  BY <1>2, <1>3 DEF ReadAt, Follows
<1>6. FetchedAt(s, 1) /\ FetchedAt(s, 2) /\ FetchedAt(s, 3) /\ FetchedAt(s, 4)
  BY <1>2, <1>3, <1>4 DEF FetchedAt
<1>7. \A i \in 1 .. Len(s) : i = 1 \/ i = 2 \/ i = 3 \/ i = 4
  BY <1>2
<1>8. Fresh(s)
  BY <1>2, <1>5, <1>6, <1>7 DEF Fresh
<1>9. NoEphy(s)
  BY <1>2, <1>3, <1>7 DEF NoEphy
<1>10. Changes(s, reg, clear, set)
  BY <1>2, <1>3, <1>4, <1>7 DEF Changes
<1> QED BY <1>8, <1>9, <1>10 DEF s

(* A change through the MAC OCP window, under its lock.                      *)
LEMMA OcpModifyIs ==
    ASSUME NEW reg \in OcpRegs, NEW clear \in SUBSET Bits, NEW set \in SUBSET Bits
    PROVE  /\ Fresh(OcpModify(reg, clear, set)) /\ NoEphy(OcpModify(reg, clear, set))
           /\ \A r, b : r # reg \/ b \notin clear \cup set => Clean(OcpModify(reg, clear, set), 1, r, b)
           /\ \A q, b : b \in clear \cup set /\ (b \in set <=> Shall(q, reg, b)) =>
                 Ends(q, OcpModify(reg, clear, set), 1, reg, b)
<1> DEFINE s == Do("ocp_addr", reg, {}, {}) \o Do("ocp_data", reg, {}, {}) \o Do("ocp_write", reg, clear, set)
           w == [op |-> "ocp_addr", reg |-> reg, clear |-> {}, set |-> {}]
           x == [op |-> "ocp_data", reg |-> reg, clear |-> {}, set |-> {}]
           y == [op |-> "ocp_write", reg |-> reg, clear |-> clear, set |-> set]
<1>1. reg \in Names
  BY DEF OcpRegs, Registers, Names
<1>2. s \in Seq(Accesses) /\ Len(s) = 3 /\ s[1] = w /\ s[2] = x /\ s[3] = y
  <2>0. "ocp_addr" \in Ops /\ "ocp_data" \in Ops /\ "ocp_write" \in Ops
    BY DEF Ops
  <2>1. /\ Do("ocp_addr", reg, {}, {}) \in Seq(Accesses) /\ Len(Do("ocp_addr", reg, {}, {})) = 1
        /\ Do("ocp_addr", reg, {}, {})[1] = w
    BY <1>1, <2>0, Bare
  <2>2. /\ Do("ocp_data", reg, {}, {}) \in Seq(Accesses) /\ Len(Do("ocp_data", reg, {}, {})) = 1
        /\ Do("ocp_data", reg, {}, {})[1] = x
    BY <1>1, <2>0, Bare
  <2> DEFINE d == Do("ocp_write", reg, clear, set)
             z == Do("ocp_addr", reg, {}, {}) \o Do("ocp_data", reg, {}, {})
  <2>3. d \in Seq(Accesses) /\ Len(d) = 1 /\ d[1] = y
    BY <1>1, <2>0, One
  <2> HIDE DEF w, x, y
  <2>4. z \in Seq(Accesses) /\ Len(z) = 2 /\ z[1] = w /\ z[2] = x
    BY <2>1, <2>2, Joined
  <2>5. s = z \o d
    OBVIOUS
  <2> HIDE DEF z, d, s
  <2>6. /\ z \o d \in Seq(Accesses) /\ Len(z \o d) = Len(z) + Len(d)
        /\ \A i \in 1 .. Len(z) : (z \o d)[i] = z[i]
        /\ \A i \in 1 .. Len(d) : (z \o d)[Len(z) + i] = d[i]
    BY <2>3, <2>4, Joined
  <2>7. /\ s \in Seq(Accesses) /\ Len(s) = 3 /\ s[2 + 1] = d[1]
        /\ \A i \in 1 .. 2 : s[i] = z[i]
    BY <2>3, <2>4, <2>5, <2>6
  <2> QED BY <2>3, <2>4, <2>7
<1>3. /\ w.op = "ocp_addr" /\ x.op = "ocp_data"
      /\ y.op = "ocp_write" /\ y.reg = reg /\ y.clear = clear /\ y.set = set
  OBVIOUS
<1>4. OcpModify(reg, clear, set) = Under("mac_ocp_lock", s)
  BY DEF OcpModify
<1> HIDE DEF s, w, x, y
<1>5. /\ ~Merges(y, "mode") /\ ~Merges(y, "features") /\ ~Merges(x, "mode") /\ ~Merges(x, "features")
      /\ ~Merges(w, "mode") /\ ~Merges(w, "features")
  BY <1>3 DEF Merges
<1>6. ReadAt(s, 1) /\ ReadAt(s, 2) /\ ReadAt(s, 3)
  BY <1>2, <1>3 DEF ReadAt
<1>7. FetchedAt(s, 1) /\ FetchedAt(s, 2) /\ FetchedAt(s, 3)
  BY <1>2, <1>3, <1>5 DEF FetchedAt
<1>8. \A i \in 1 .. Len(s) : i = 1 \/ i = 2 \/ i = 3
  BY <1>2
<1>9. Fresh(s)
  BY <1>2, <1>6, <1>7, <1>8 DEF Fresh
<1>10. NoEphy(s)
  BY <1>2, <1>3, <1>8 DEF NoEphy
<1>11. Changes(s, reg, clear, set)
  BY <1>2, <1>3, <1>5, <1>8 DEF Changes
<1>12. /\ \A r, b : r # reg \/ b \notin clear \cup set => Clean(s, 1, r, b)
       /\ \A q, b : b \in clear \cup set /\ (b \in set <=> Shall(q, reg, b)) => Ends(q, s, 1, reg, b)
  BY <1>9, <1>11, ChangeClean, ChangeEnds DEF Fresh
<1>13. "mac_ocp_lock" \in Names
  BY DEF Names, Locks
<1> QED BY <1>4, <1>9, <1>10, <1>12, <1>13, UnderKeeps

(* A change of Config2 or Config5 under their lock.                          *)
LEMMA ModConfigIs ==
    ASSUME NEW reg \in {"Config2", "Config5"}, NEW clear \in SUBSET Bits, NEW set \in SUBSET Bits
    PROVE  /\ Fresh(ModConfig(reg, clear, set)) /\ NoEphy(ModConfig(reg, clear, set))
           /\ \A r, b : r # reg \/ b \notin clear \cup set => Clean(ModConfig(reg, clear, set), 1, r, b)
           /\ \A q, b : b \in clear \cup set /\ (b \in set <=> Shall(q, reg, b)) =>
                 Ends(q, ModConfig(reg, clear, set), 1, reg, b)
<1> DEFINE s == RMW(reg, clear, set)
<1>1. reg \in PlainRegs /\ reg # "RxConfig" /\ "config25_lock" \in Names
  BY DEF PlainRegs, Registers, EriRegs, OcpRegs, Names, Locks
<1>2. Fresh(s) /\ NoEphy(s) /\ Changes(s, reg, clear, set)
  BY <1>1, RMWChanges
<1>3. ModConfig(reg, clear, set) = Under("config25_lock", s)
  BY DEF ModConfig
<1> HIDE DEF s
<1>4. /\ \A r, b : r # reg \/ b \notin clear \cup set => Clean(s, 1, r, b)
      /\ \A q, b : b \in clear \cup set /\ (b \in set <=> Shall(q, reg, b)) => Ends(q, s, 1, reg, b)
  BY <1>2, ChangeClean, ChangeEnds DEF Fresh
<1> QED BY <1>1, <1>2, <1>3, <1>4, UnderKeeps

(* A change through RTL_R8 and RTL_W8 that spoils nothing.                   *)
LEMMA RMWPlain ==
    ASSUME NEW q, NEW reg \in PlainRegs, NEW clear \in SUBSET Bits, NEW set \in SUBSET Bits,
           reg # "RxConfig" \/ clear \notin {ModeBits, ErrorBits},
           \A b : Asked(q, reg, b) /\ b \in clear \cup set => (b \in set <=> Shall(q, reg, b))
    PROVE  Plain(q, RMW(reg, clear, set))
BY RMWChanges, ChangePlain

(* One of Config2 or Config5, under config25_lock, that spoils nothing.      *)
LEMMA ModConfigPlain ==
    ASSUME NEW q, NEW reg \in {"Config2", "Config5"}, NEW clear \in SUBSET Bits, NEW set \in SUBSET Bits,
           \A b : Asked(q, reg, b) /\ b \in clear \cup set => (b \in set <=> Shall(q, reg, b))
    PROVE  Plain(q, ModConfig(reg, clear, set))
<1>1. reg \in PlainRegs /\ reg # "RxConfig"
  BY DEF PlainRegs, Registers, EriRegs, OcpRegs
<1>2. "config25_lock" \in Names
  BY DEF Names, Locks
<1> QED BY <1>1, <1>2, RMWPlain, UnderPlain DEF ModConfig

(* One through the ERI window that spoils nothing.                           *)
LEMMA EriPlain ==
    ASSUME NEW q, NEW reg \in EriRegs, NEW clear \in SUBSET Bits, NEW set \in SUBSET Bits
    PROVE  /\ reg # "eri_dc" => Plain(q, EriWrite(reg, set))
           /\ (\A b : Asked(q, reg, b) /\ b \in clear \cup set => (b \in set <=> Shall(q, reg, b))) =>
                 Plain(q, EriModify(reg, clear, set))
<1>1. ASSUME reg # "eri_dc" PROVE \A b : ~Asked(q, reg, b)
  BY <1>1 DEF EriRegs, Asked, Wakes, Magic, Power, Link, Unicast, Broadcast, Multicast, Aspm, Filter, Gate, Reception
<1>2. reg # "eri_dc" => Plain(q, EriWrite(reg, set))
  BY <1>1, EriWriteChanges, ChangePlain
<1> QED BY <1>2, EriModifyChanges, ChangePlain

(* Overwriting a register.                                                   *)
LEMMA PutIs ==
    ASSUME NEW reg \in PlainRegs, NEW set \in SUBSET Bits
    PROVE  /\ Fresh(Put(reg, set)) /\ NoEphy(Put(reg, set)) /\ Len(Put(reg, set)) = 1
           /\ Put(reg, set)[1].op = "put" /\ Put(reg, set)[1].reg = reg /\ Put(reg, set)[1].set = set
<1> DEFINE s == Put(reg, set)
           a == [op |-> "put", reg |-> reg, clear |-> {}, set |-> set]
<1>0. "put" \in Ops /\ reg \in Names /\ {} \in SUBSET Bits
  BY DEF Ops, PlainRegs, Names
<1>1. s \in Seq(Accesses) /\ Len(s) = 1 /\ s[1] = a
  BY <1>0, One DEF Put
<1>2. a.op = "put" /\ a.reg = reg /\ a.set = set
  OBVIOUS
<1> HIDE DEF s, a
<1>3. ReadAt(s, 1) /\ FetchedAt(s, 1)
  BY <1>1, <1>2 DEF ReadAt, FetchedAt, Merges
<1> QED BY <1>1, <1>2, <1>3 DEF Fresh, NoEphy, s

(* A register nothing asked for is in may be overwritten.                    *)
LEMMA PutPlain ==
    ASSUME NEW q, NEW reg \in PlainRegs, NEW set \in SUBSET Bits, \A b : ~Asked(q, reg, b)
    PROVE  Plain(q, Put(reg, set))
<1>1. ASSUME NEW r, NEW b, Asked(q, r, b) PROVE Clean(Put(reg, set), 1, r, b)
  BY <1>1, PutIs DEF Clean, Mentions
<1> QED BY <1>1, PutIs DEF Plain, Calm, Safe

(* Overwriting a register leaves every bit as it was given.                  *)
LEMMA PutEnds ==
    ASSUME NEW q, NEW reg \in PlainRegs, NEW set \in SUBSET Bits, NEW b, b \in set <=> Shall(q, reg, b)
    PROVE  Ends(q, Put(reg, set), 1, reg, b)
<1> DEFINE a == Put(reg, set)[1]
<1>1. Len(Put(reg, set)) = 1 /\ a.op = "put" /\ a.reg = reg /\ a.set = set
  BY PutIs
<1> HIDE DEF a
<1>2. Mentions(a, reg, b) /\ (Gives(q, a, b) <=> Shall(q, reg, b))
  BY <1>1 DEF Mentions, Gives, Merges
<1>3. \A k \in (1 + 1) .. 1 : FALSE
  OBVIOUS
<1> QED BY <1>1, <1>2, <1>3 DEF Ends, a

-----------------------------------------------------------------------------
(* The PHY's scripts touch no register of the chip.                          *)
LEMMA PagePlain ==
    ASSUME NEW q, NEW p \in Pages
    PROVE  Plain(q, Select(p)) /\ Plain(q, phy(p)) /\ Plain(q, On(p)) /\ Plain(q, Paged(p))
<1>1. p \in Names /\ "0" \in Names /\ "mdio_lock" \in Names
  BY DEF Names, Pages, Locks
<1>2. {"page", "phy", "save", "restore"} \subseteq Harmless
  BY DEF Harmless, Ops, PhyOps
<1>3. /\ Plain(q, Do("page", p, {}, {})) /\ Plain(q, Do("phy", p, {}, {}))
      /\ Plain(q, Do("save", p, {}, {})) /\ Plain(q, Do("restore", "0", {}, {}))
  BY <1>1, <1>2, HarmlessPlain
<1>4. Plain(q, Select(p)) /\ Plain(q, phy(p))
  BY <1>3 DEF Select, phy
<1>5. Plain(q, On(p))
  BY <1>4, PlainJoins DEF On
<1>6. Plain(q, Do("save", p, {}, {}) \o phy(p) \o Do("restore", "0", {}, {}))
  BY <1>3, <1>4, PlainJoins
<1> QED BY <1>1, <1>4, <1>5, <1>6, UnderPlain DEF Paged

(* rtl_writephy_batch spoils nothing its sequence does not.                  *)
LEMMA BatchPlain == ASSUME NEW q, NEW s, Plain(q, s) PROVE Plain(q, rtl_writephy_batch(s))
<1>1. "mdio_lock" \in Names
  BY DEF Names, Locks
<1> QED BY <1>1, UnderPlain DEF rtl_writephy_batch

(* The firmware writes the PHY only.                                         *)
LEMMA FirmwarePlain == ASSUME NEW q, NEW v PROVE Plain(q, r8169_apply_firmware(v))
<1>1. "fw" \in Names /\ "0" \in Names /\ "0" \in Pages
  BY DEF Names, Pages
<1>2. {"fw_page", "fw_data", "fw_base"} \subseteq Harmless
  BY DEF Harmless, Ops, PhyOps
<1>3. /\ Plain(q, Do("fw_page", "fw", {}, {})) /\ Plain(q, Do("fw_data", "fw", {}, {}))
      /\ Plain(q, Do("fw_base", "0", {}, {}))
  BY <1>1, <1>2, HarmlessPlain
<1>4. Plain(q, phy("0"))
  BY <1>1, PagePlain
<1>5. Plain(q, If(v >= 40, Do("fw_base", "0", {}, {})))
  BY <1>3, IfPlain
<1>6. Plain(q, Do("fw_page", "fw", {}, {}) \o Do("fw_data", "fw", {}, {})
         \o If(v >= 40, Do("fw_base", "0", {}, {})) \o phy("0"))
  BY <1>3, <1>4, <1>5, PlainJoins
<1> QED BY <1>6, IfPlain DEF r8169_apply_firmware

(* The shared pieces of the set-up functions.                                *)
LEMMA PhyPiecesPlain ==
    ASSUME NEW q
    PROVE  /\ Plain(q, r8168d_modify_extpage) /\ Plain(q, r8168d_phy_param) /\ Plain(q, r8168g_phy_param)
           /\ Plain(q, rtl8168f_config_eee_phy) /\ Plain(q, rtl8168g_config_eee_phy)
           /\ Plain(q, rtl8168h_config_eee_phy) /\ Plain(q, rtl8125a_config_eee_phy)
           /\ Plain(q, rtl8125b_config_eee_phy)
           /\ Plain(q, rtl8168d_1_phy_reg_init_0) /\ Plain(q, rtl8168d_1_common)
           /\ \A v : Plain(q, rtl8168d_apply_firmware_cond(v))
           /\ Plain(q, rtl8168g_disable_aldps) /\ Plain(q, rtl8168g_enable_gphy_10m)
           /\ Plain(q, rtl8168g_phy_adjust_10m_aldps) /\ Plain(q, improve_swr)
           /\ Plain(q, rtl8125_legacy_force_mode) /\ Plain(q, rtl8168f_hw_phy_config)
<1> DEFINE P(p) == Plain(q, Select(p)) /\ Plain(q, phy(p)) /\ Plain(q, On(p)) /\ Plain(q, Paged(p))
<1>1. /\ P("0") /\ P("1") /\ P("2") /\ P("3") /\ P("5") /\ P("7")
      /\ P("a42") /\ P("a43") /\ P("a44") /\ P("a4a") /\ P("a5b") /\ P("a6d")
      /\ P("bc8") /\ P("bcc") /\ P("bcd")
  BY PagePlain DEF Pages
<1>2. Plain(q, r8168d_modify_extpage) /\ Plain(q, r8168d_phy_param) /\ Plain(q, r8168g_phy_param)
  BY <1>1 DEF r8168d_modify_extpage, r8168d_phy_param, r8168g_phy_param
<1>3. Plain(q, rtl8168f_config_eee_phy)
  BY <1>2, PlainJoins DEF rtl8168f_config_eee_phy
<1>4. Plain(q, rtl8168g_config_eee_phy)
  BY <1>1 DEF rtl8168g_config_eee_phy
<1>5. Plain(q, rtl8168h_config_eee_phy)
  BY <1>1, <1>4, PlainJoins DEF rtl8168h_config_eee_phy
<1>6. Plain(q, rtl8125a_config_eee_phy)
  BY <1>1, <1>5, PlainJoins DEF rtl8125a_config_eee_phy
<1>7. Plain(q, rtl8125b_config_eee_phy)
  BY <1>1, PlainJoins DEF rtl8125b_config_eee_phy
<1>8. Plain(q, rtl8168d_1_phy_reg_init_0)
  BY <1>1, PlainJoins DEF rtl8168d_1_phy_reg_init_0
<1>9. Plain(q, rtl8168d_1_common)
  BY <1>1, <1>2, PlainJoins DEF rtl8168d_1_common
<1>10. \A v : Plain(q, rtl8168d_apply_firmware_cond(v))
  BY <1>1, FirmwarePlain, PlainJoins DEF rtl8168d_apply_firmware_cond
<1>11. /\ Plain(q, rtl8168g_disable_aldps) /\ Plain(q, rtl8168g_enable_gphy_10m)
       /\ Plain(q, rtl8125_legacy_force_mode)
  BY <1>1 DEF rtl8168g_disable_aldps, rtl8168g_enable_gphy_10m, rtl8125_legacy_force_mode
<1>12. Plain(q, rtl8168g_phy_adjust_10m_aldps)
  BY <1>1, <1>2, PlainJoins DEF rtl8168g_phy_adjust_10m_aldps
<1>13. Plain(q, improve_swr)
  BY <1>1, PlainJoins DEF improve_swr
<1>14. Plain(q, rtl8168f_hw_phy_config)
  BY <1>1, <1>2, <1>3, PlainJoins DEF rtl8168f_hw_phy_config
<1> QED BY <1>2, <1>3, <1>4, <1>5, <1>6, <1>7, <1>8, <1>9, <1>10, <1>11, <1>12, <1>13, <1>14

(* The set-up function of each chip, and the one that chooses among them.    *)
LEMMA PhyConfigPlain == ASSUME NEW q, NEW v, NEW efuse PROVE Plain(q, r8169_hw_phy_config(v, efuse))
<1> DEFINE P(p) == Plain(q, Select(p)) /\ Plain(q, phy(p)) /\ Plain(q, On(p)) /\ Plain(q, Paged(p))
<1>0. /\ P("0") /\ P("1") /\ P("2") /\ P("3") /\ P("4") /\ P("5") /\ P("6")
      /\ P("a42") /\ P("a43") /\ P("a44") /\ P("a46") /\ P("a4b") /\ P("a4c") /\ P("ad4")
      /\ P("b54") /\ P("b87") /\ P("bcc") /\ P("bcd") /\ P("bcf") /\ P("bf0") /\ P("c41")
      /\ P("c42") /\ P("d06")
  BY PagePlain DEF Pages
<1>1. Plain(q, rtl8169s_hw_phy_config)
  BY <1>0, PlainJoins, BatchPlain DEF rtl8169s_hw_phy_config
<1>2. Plain(q, rtl8169sb_hw_phy_config)
  BY <1>0, PlainJoins DEF rtl8169sb_hw_phy_config
<1>3. Plain(q, rtl8169scd_hw_phy_config)
  BY <1>0, PlainJoins, BatchPlain DEF rtl8169scd_hw_phy_config
<1>4. Plain(q, rtl8169sce_hw_phy_config)
  BY <1>0, PlainJoins, BatchPlain DEF rtl8169sce_hw_phy_config
<1>5. Plain(q, rtl8168bb_hw_phy_config)
  BY <1>0, PlainJoins DEF rtl8168bb_hw_phy_config
<1>6. Plain(q, rtl8168bef_hw_phy_config)
  BY <1>0, PlainJoins DEF rtl8168bef_hw_phy_config
<1>7. Plain(q, rtl8168cp_1_hw_phy_config)
  BY <1>0, PlainJoins DEF rtl8168cp_1_hw_phy_config
<1>8. Plain(q, rtl8168cp_2_hw_phy_config)
  BY <1>0, PlainJoins DEF rtl8168cp_2_hw_phy_config
<1>9. Plain(q, rtl8168c_1_hw_phy_config)
  BY <1>0, PlainJoins, BatchPlain DEF rtl8168c_1_hw_phy_config
<1>10. Plain(q, rtl8168c_2_hw_phy_config)
  BY <1>0, PlainJoins, BatchPlain DEF rtl8168c_2_hw_phy_config
<1>11. Plain(q, rtl8168c_3_hw_phy_config)
  BY <1>0, PlainJoins, BatchPlain DEF rtl8168c_3_hw_phy_config
<1>12. Plain(q, IF efuse THEN rtl8168d_1_common ELSE Paged("2") \o r8168d_phy_param)
  BY <1>0, PlainJoins, PhyPiecesPlain
<1>13. Plain(q, rtl_writephy_batch(rtl8168d_1_phy_reg_init_0)) /\ Plain(q, rtl8168d_apply_firmware_cond(v))
  BY BatchPlain, PhyPiecesPlain
<1>14. Plain(q, rtl8168d_1_hw_phy_config(v, efuse))
  BY <1>0, PlainJoins, <1>12, <1>13 DEF rtl8168d_1_hw_phy_config
<1>15. Plain(q, IF efuse THEN rtl8168d_1_common ELSE Paged("2") \o r8168d_phy_param)
  BY <1>0, PlainJoins, PhyPiecesPlain
<1>16. Plain(q, rtl_writephy_batch(rtl8168d_1_phy_reg_init_0)) /\ Plain(q, rtl8168d_apply_firmware_cond(v))
  BY BatchPlain, PhyPiecesPlain
<1>17. Plain(q, rtl8168d_2_hw_phy_config(v, efuse))
  BY <1>0, PlainJoins, <1>15, <1>16 DEF rtl8168d_2_hw_phy_config
<1>18. Plain(q, rtl8168d_4_hw_phy_config)
  BY <1>0, PlainJoins, PhyPiecesPlain DEF rtl8168d_4_hw_phy_config
<1>19. Plain(q, rtl8168e_1_hw_phy_config(v))
  BY <1>0, PlainJoins, BatchPlain, FirmwarePlain, PhyPiecesPlain DEF rtl8168e_1_hw_phy_config
<1>20. Plain(q, rtl8168e_2_hw_phy_config(v))
  BY <1>0, PlainJoins, FirmwarePlain, PhyPiecesPlain DEF rtl8168e_2_hw_phy_config
<1>21. Plain(q, rtl8168f_1_hw_phy_config(v))
  BY <1>0, PlainJoins, FirmwarePlain, PhyPiecesPlain DEF rtl8168f_1_hw_phy_config
<1>22. Plain(q, rtl8168f_2_hw_phy_config(v))
  BY <1>0, PlainJoins, FirmwarePlain, PhyPiecesPlain DEF rtl8168f_2_hw_phy_config
<1>23. Plain(q, rtl8411_hw_phy_config(v))
  BY <1>0, PlainJoins, FirmwarePlain, PhyPiecesPlain DEF rtl8411_hw_phy_config
<1>24. Plain(q, rtl8168g_1_hw_phy_config(v))
  BY <1>0, PlainJoins, FirmwarePlain, PhyPiecesPlain DEF rtl8168g_1_hw_phy_config
<1>25. Plain(q, rtl8168g_2_hw_phy_config(v))
  BY <1>0, PlainJoins, FirmwarePlain, PhyPiecesPlain DEF rtl8168g_2_hw_phy_config
<1>26. Plain(q, Do("touch", "ocp", {}, {}))
  BY HarmlessPlain DEF Harmless, Ops, Names
<1>27. Plain(q, rtl8168h_2_hw_phy_config(v))
  BY <1>0, PlainJoins, FirmwarePlain, PhyPiecesPlain, <1>26 DEF rtl8168h_2_hw_phy_config
<1>28. Plain(q, rtl8168ep_2_hw_phy_config)
  BY <1>0, PlainJoins, PhyPiecesPlain DEF rtl8168ep_2_hw_phy_config
<1>29. Plain(q, rtl8117_hw_phy_config)
  BY <1>0, PlainJoins, PhyPiecesPlain DEF rtl8117_hw_phy_config
<1>30. Plain(q, rtl8102e_hw_phy_config)
  BY <1>0, PlainJoins, BatchPlain DEF rtl8102e_hw_phy_config
<1>31. Plain(q, rtl8401_hw_phy_config)
  BY <1>0, PlainJoins DEF rtl8401_hw_phy_config
<1>32. Plain(q, rtl8105e_hw_phy_config(v))
  BY <1>0, PlainJoins, FirmwarePlain DEF rtl8105e_hw_phy_config
<1>33. Plain(q, rtl8402_hw_phy_config(v))
  BY <1>0, PlainJoins, FirmwarePlain DEF rtl8402_hw_phy_config
<1>34. Plain(q, rtl8106e_hw_phy_config(v))
  BY <1>0, PlainJoins, BatchPlain, FirmwarePlain DEF rtl8106e_hw_phy_config
<1>35. Plain(q, rtl8125a_2_hw_phy_config(v))
  BY <1>0, PlainJoins, FirmwarePlain, PhyPiecesPlain DEF rtl8125a_2_hw_phy_config
<1>36. Plain(q, rtl8125b_hw_phy_config(v))
  BY <1>0, PlainJoins, FirmwarePlain, PhyPiecesPlain DEF rtl8125b_hw_phy_config
<1> HIDE DEF P
<1> QED
  BY <1>1, <1>2, <1>3, <1>4, <1>5, <1>6, <1>7, <1>8, <1>9, <1>10, <1>11, <1>14, <1>17,
     <1>18, <1>19, <1>20, <1>21, <1>22, <1>23, <1>24, <1>25, <1>27, <1>28, <1>29, <1>30,
     <1>31, <1>32, <1>33, <1>34, <1>35, <1>36, EmptyPlain
     DEF r8169_hw_phy_config

-----------------------------------------------------------------------------
(* Bits the properties are not about.                                        *)
LEMMA Unasked ==
    ASSUME NEW q, NEW b
    PROVE  /\ \A r \in {"LnkCtl", "Config4", "MAC", "ocp_c0ac", "ocp_e092"} \cup EriRegs :
                 Asked(q, r, b) => r = "eri_dc" /\ b \in {"MagicPacket_v2", "filter"}
           /\ b # "PMEnable" \/ ~PmeConfig1(q.v) => ~Asked(q, "Config1", b)
           /\ b \in {"Rdy_to_L23", "Beacon_en", "Jumbo_En0"} => ~Asked(q, "Config3", b)
           /\ b = "Spi_en" => ~Asked(q, "Config5", b)
<1>1. \A r \in {"LnkCtl", "Config4", "MAC", "ocp_c0ac", "ocp_e092"} \cup EriRegs :
        /\ ~Link(r, b) /\ ~Unicast(r, b) /\ ~Broadcast(r, b) /\ ~Multicast(r, b) /\ ~Aspm(r, b)
        /\ ~Power(q, r, b) /\ ~Gate(q, r, b) /\ ~Reception(q, r, b)
        /\ Magic(q, r, b) => r = "eri_dc" /\ b = "MagicPacket_v2"
        /\ Filter(q, r, b) => r = "eri_dc" /\ b = "filter"
  BY DEF EriRegs, Magic, Power, Link, Unicast, Broadcast, Multicast, Aspm, Filter, Gate, Reception
<1>2. b # "PMEnable" \/ ~PmeConfig1(q.v) => ~Asked(q, "Config1", b)
  BY DEF Asked, Wakes, Magic, Power, Link, Unicast, Broadcast, Multicast, Aspm, Filter, Gate, Reception
<1>3. b \in {"Rdy_to_L23", "Beacon_en", "Jumbo_En0"} => ~Asked(q, "Config3", b)
  BY DEF Asked, Wakes, Magic, Power, Link, Unicast, Broadcast, Multicast, Aspm, Filter, Gate, Reception
<1>4. b = "Spi_en" => ~Asked(q, "Config5", b)
  BY DEF Asked, Wakes, Magic, Power, Link, Unicast, Broadcast, Multicast, Aspm, Filter, Gate, Reception
<1> QED BY <1>1, <1>2, <1>3, <1>4 DEF Asked, Wakes

(* The receive filter of the 8168 is off only within the function that       *)
(* switches it off and on.                                                   *)
LEMMA FilterEnds ==
    ASSUME NEW q
    PROVE  /\ Plain(q, rtl_reset_packet_filter)
           /\ Filter(q, "eri_dc", "filter") => Ends(q, rtl_reset_packet_filter, 1, "eri_dc", "filter")
<1> DEFINE s == EriModify("eri_dc", {"filter"}, {})
           u == EriModify("eri_dc", {}, {"filter"})
<1>1. "eri_dc" \in EriRegs /\ {"filter"} \in SUBSET Bits /\ {} \in SUBSET Bits
  BY DEF EriRegs, Bits
<1>2. Fresh(s) /\ NoEphy(s) /\ Changes(s, "eri_dc", {"filter"}, {})
  BY <1>1, EriModifyChanges
<1>3. Fresh(u) /\ NoEphy(u) /\ Changes(u, "eri_dc", {}, {"filter"})
  BY <1>1, EriModifyChanges
<1>4. s \in Seq(Accesses) /\ u \in Seq(Accesses) /\ rtl_reset_packet_filter = s \o u
  BY <1>2, <1>3 DEF Fresh, rtl_reset_packet_filter
<1>5. Asked(q, "eri_dc", "filter") <=> Filter(q, "eri_dc", "filter")
  BY DEF Asked, Wakes, Magic, Power, Link, Unicast, Broadcast, Multicast, Aspm, Gate, Reception
<1>6. Filter(q, "eri_dc", "filter") => Shall(q, "eri_dc", "filter")
  BY DEF Shall
<1> HIDE DEF s, u
<1>7. Filter(q, "eri_dc", "filter") => Ends(q, s \o u, 1, "eri_dc", "filter")
  BY <1>3, <1>4, <1>6, ChangeEnds, EndsJoin
<1>8. ASSUME NEW r, NEW b, Asked(q, r, b) PROVE Safe(q, s \o u, 1, r, b)
  <2>1. CASE r = "eri_dc" /\ b = "filter"
    BY <2>1, <1>5, <1>7, <1>8 DEF Safe
  <2>2. CASE ~(r = "eri_dc" /\ b = "filter")
    <3>1. Clean(s, 1, r, b) /\ Clean(u, 1, r, b)
      BY <2>2, <1>2, <1>3, ChangeClean
    <3> QED BY <3>1, <1>4, CleanJoins DEF Safe
  <2> QED BY <2>1, <2>2
<1> QED BY <1>2, <1>3, <1>4, <1>7, <1>8, FreshJoins, NoEphyJoins DEF Plain, Calm

(* The helpers of the start functions.                                       *)
LEMMA EriPiecesPlain ==
    ASSUME NEW q
    PROVE  /\ Plain(q, EriWrite("eri", {})) /\ Plain(q, rtl_set_fifo_size)
           /\ Plain(q, rtl8168g_set_pause_thresholds) /\ Plain(q, rtl8168_config_eee_mac)
           /\ Plain(q, EriModify("eri_1d0", {}, {"b1"})) /\ Plain(q, EriModify("eri_1d0", {}, {"b1", "b4"}))
           /\ Plain(q, EriModify("eri_1b0", {}, {"b4"})) /\ Plain(q, EriModify("eri_1b0", {"b12"}, {}))
           /\ Plain(q, EriModify("eri_2fc", {"b1"}, {"b0"})) /\ Plain(q, EriModify("eri_dc", {}, {"b2"}))
           /\ Plain(q, EriModify("eri_d4", {}, {"b4"})) /\ Plain(q, EriWrite("eri_1b0", {}))
           /\ Plain(q, EriWrite("eri_1d0", {})) /\ Plain(q, EriModify("eri_d4", {"exit_l1"}, {"exit_l1"}))
           /\ Plain(q, EriModify("eri_d4", {"exit_l1"}, {})) /\ Plain(q, EriModify("eri_d4", {}, {"exit_l1"}))
<1> DEFINE regs == {"eri", "eri_1d0", "eri_1b0", "eri_2fc", "eri_d4"}
<1>1. regs \subseteq EriRegs /\ "eri_dc" \in EriRegs
  BY DEF EriRegs
<1>2. \A r \in regs : \A b : ~Asked(q, r, b)
  BY <1>1, Unasked
<1>3. ~Asked(q, "eri_dc", "b2")
  BY <1>1, Unasked
<1>4. ASSUME NEW r \in regs, NEW x \in SUBSET Bits, NEW y \in SUBSET Bits
      PROVE  Plain(q, EriModify(r, x, y)) /\ Plain(q, EriWrite(r, y))
  BY <1>1, <1>2, EriPlain
<1>5. /\ {} \in SUBSET Bits /\ {"b1"} \in SUBSET Bits /\ {"b4"} \in SUBSET Bits /\ {"b12"} \in SUBSET Bits
      /\ {"b0"} \in SUBSET Bits /\ {"b1", "b4"} \in SUBSET Bits /\ {"exit_l1"} \in SUBSET Bits
      /\ {"eee"} \in SUBSET Bits /\ {"b2"} \in SUBSET Bits
  BY DEF Bits
<1>6. /\ "eri" \in regs /\ "eri_1d0" \in regs /\ "eri_1b0" \in regs /\ "eri_2fc" \in regs /\ "eri_d4" \in regs
  OBVIOUS
<1>7. Plain(q, EriModify("eri_dc", {}, {"b2"}))
  BY <1>1, <1>3, <1>5, EriPlain
<1> HIDE DEF regs
<1>8. Plain(q, EriWrite("eri", {})) /\ Plain(q, EriModify("eri_1b0", {}, {"eee"}))
  BY <1>4, <1>5, <1>6
<1>9. /\ Plain(q, rtl_set_fifo_size) /\ Plain(q, rtl8168g_set_pause_thresholds)
      /\ Plain(q, rtl8168_config_eee_mac)
  BY <1>8, PlainJoins DEF rtl_set_fifo_size, rtl8168g_set_pause_thresholds, rtl8168_config_eee_mac
<1> QED BY <1>4, <1>5, <1>6, <1>7, <1>8, <1>9

(* The helpers that the start functions of the chips share.                  *)
LEMMA ConfigPiecesPlain ==
    ASSUME NEW q
    PROVE  /\ Plain(q, rtl_set_def_aspm_entry_latency) /\ Plain(q, Touch("ocp"))
           /\ Plain(q, rtl_disable_clock_request) /\ Plain(q, rtl_enable_clock_request)
           /\ Plain(q, rtl_pcie_state_l2l3_disable) /\ Plain(q, no_beacon)
           /\ Plain(q, RMW("Config1", {}, {"Speed_down"})) /\ Plain(q, RMW("Config1", {"Speed_down"}, {}))
           /\ Plain(q, RMW("Config1", {"LEDS0"}, {})) /\ Plain(q, ModConfig("Config5", {"Spi_en"}, {}))
           /\ Plain(q, rtl_disable_rxdvgate) /\ Plain(q, Paged("c42"))
           /\ ~PmeConfig1(q.v) => /\ Plain(q, Put("Config1", {"LEDS0", "Speed_down", "PMEnable"}))
                                  /\ Plain(q, Put("Config1", {"PMEnable"}))
<1>1. /\ {"LnkCtl", "Config1", "Config3", "MISC"} \subseteq PlainRegs /\ "RxConfig" \notin {"LnkCtl", "Config1", "Config3", "MISC"}
  BY DEF PlainRegs, Registers, EriRegs, OcpRegs
<1>2. /\ {} \in SUBSET Bits /\ {"CLKREQ_EN"} \in SUBSET Bits /\ {"Rdy_to_L23"} \in SUBSET Bits
      /\ {"Beacon_en"} \in SUBSET Bits /\ {"Speed_down"} \in SUBSET Bits /\ {"LEDS0"} \in SUBSET Bits
      /\ {"Spi_en"} \in SUBSET Bits /\ {"RXDV_GATED_EN"} \in SUBSET Bits /\ {"PMEnable"} \in SUBSET Bits
      /\ {"LEDS0", "Speed_down", "PMEnable"} \in SUBSET Bits
  BY DEF Bits
<1>3. ASSUME NEW r \in {"LnkCtl", "Config1", "Config3", "MISC"}, NEW x \in SUBSET Bits, NEW y \in SUBSET Bits,
             \A b \in x \cup y : Asked(q, r, b) => (b \in y <=> Shall(q, r, b))
      PROVE  Plain(q, RMW(r, x, y))
  BY <1>1, <1>3, RMWPlain
<1>4. Plain(q, rtl_set_def_aspm_entry_latency) /\ Plain(q, Touch("ocp"))
  BY HarmlessPlain DEF rtl_set_def_aspm_entry_latency, Touch, Harmless, Ops, Names
<1>5. Plain(q, rtl_disable_clock_request) /\ Plain(q, rtl_enable_clock_request)
  BY <1>2, <1>3, Unasked DEF rtl_disable_clock_request, rtl_enable_clock_request
<1>6. Plain(q, rtl_pcie_state_l2l3_disable) /\ Plain(q, no_beacon)
  BY <1>2, <1>3, Unasked DEF rtl_pcie_state_l2l3_disable, no_beacon
<1>7. /\ Plain(q, RMW("Config1", {}, {"Speed_down"})) /\ Plain(q, RMW("Config1", {"Speed_down"}, {}))
      /\ Plain(q, RMW("Config1", {"LEDS0"}, {}))
  BY <1>2, <1>3, Unasked
<1>8. Plain(q, ModConfig("Config5", {"Spi_en"}, {}))
  BY <1>2, Unasked, ModConfigPlain
<1>9. ~Shall(q, "MISC", "RXDV_GATED_EN")
  BY DEF Shall, Magic, Power, Link, Unicast, Broadcast, Multicast, Aspm, Filter, Reception
<1>10. Plain(q, rtl_disable_rxdvgate)
  BY <1>2, <1>3, <1>9 DEF rtl_disable_rxdvgate
<1>11. Plain(q, Paged("c42"))
  BY PagePlain DEF Pages
<1>12. ASSUME ~PmeConfig1(q.v)
       PROVE  Plain(q, Put("Config1", {"LEDS0", "Speed_down", "PMEnable"})) /\ Plain(q, Put("Config1", {"PMEnable"}))
  BY <1>1, <1>2, <1>12, Unasked, PutPlain
<1> QED BY <1>4, <1>5, <1>6, <1>7, <1>8, <1>10, <1>11, <1>12

-----------------------------------------------------------------------------
(* The pieces of the start functions spoil no bit.                           *)
LEMMA PiecesCalm ==
    ASSUME NEW q, NEW v
    PROVE  /\ Calm(q, Touch("ephy")) /\ Calm(q, rtl_ephy_init)
           /\ Calm(q, EriWrite("eri", {})) /\ Calm(q, rtl_set_fifo_size)
           /\ Calm(q, rtl8168g_set_pause_thresholds) /\ Calm(q, rtl8168_config_eee_mac)
           /\ Calm(q, EriModify("eri_1d0", {}, {"b1"}))
           /\ Calm(q, EriModify("eri_1d0", {}, {"b1", "b4"}))
           /\ Calm(q, EriModify("eri_1b0", {}, {"b4"}))
           /\ Calm(q, EriModify("eri_1b0", {"b12"}, {}))
           /\ Calm(q, EriModify("eri_2fc", {"b1"}, {"b0"}))
           /\ Calm(q, EriModify("eri_dc", {}, {"b2"}))
           /\ Calm(q, EriModify("eri_d4", {}, {"b4"})) /\ Calm(q, EriWrite("eri_1b0", {}))
           /\ Calm(q, EriWrite("eri_1d0", {}))
           /\ Calm(q, EriModify("eri_d4", {"exit_l1"}, {"exit_l1"}))
           /\ Calm(q, rtl_reset_packet_filter)
           /\ Calm(q, rtl_set_def_aspm_entry_latency) /\ Calm(q, Touch("ocp"))
           /\ Calm(q, rtl_disable_clock_request) /\ Calm(q, rtl_enable_clock_request)
           /\ Calm(q, rtl_pcie_state_l2l3_disable) /\ Calm(q, no_beacon)
           /\ Calm(q, RMW("Config1", {}, {"Speed_down"}))
           /\ Calm(q, RMW("Config1", {"Speed_down"}, {}))
           /\ Calm(q, RMW("Config1", {"LEDS0"}, {}))
           /\ Calm(q, ModConfig("Config5", {"Spi_en"}, {})) /\ Calm(q, rtl_disable_rxdvgate)
           /\ Calm(q, Paged("c42")) /\ Calm(q, r8169_apply_firmware(v))
           /\ ~PmeConfig1(q.v) => /\ Calm(q, Put("Config1", {"LEDS0", "Speed_down", "PMEnable"}))
                                  /\ Calm(q, Put("Config1", {"PMEnable"}))
<1>1. Calm(q, Touch("ephy")) /\ Calm(q, rtl_ephy_init)
  BY EphyCalm DEF rtl_ephy_init, Touch
<1>2. /\ Calm(q, EriWrite("eri", {})) /\ Calm(q, rtl_set_fifo_size)
      /\ Calm(q, rtl8168g_set_pause_thresholds) /\ Calm(q, rtl8168_config_eee_mac)
      /\ Calm(q, EriModify("eri_1d0", {}, {"b1"}))
      /\ Calm(q, EriModify("eri_1d0", {}, {"b1", "b4"}))
      /\ Calm(q, EriModify("eri_1b0", {}, {"b4"}))
      /\ Calm(q, EriModify("eri_1b0", {"b12"}, {}))
      /\ Calm(q, EriModify("eri_2fc", {"b1"}, {"b0"}))
      /\ Calm(q, EriModify("eri_dc", {}, {"b2"})) /\ Calm(q, EriModify("eri_d4", {}, {"b4"}))
      /\ Calm(q, EriWrite("eri_1b0", {})) /\ Calm(q, EriWrite("eri_1d0", {}))
      /\ Calm(q, EriModify("eri_d4", {"exit_l1"}, {"exit_l1"}))
      /\ Calm(q, rtl_reset_packet_filter)
  BY EriPiecesPlain, FilterEnds DEF Plain
<1>3. /\ Calm(q, rtl_set_def_aspm_entry_latency) /\ Calm(q, Touch("ocp"))
      /\ Calm(q, rtl_disable_clock_request) /\ Calm(q, rtl_enable_clock_request)
      /\ Calm(q, rtl_pcie_state_l2l3_disable) /\ Calm(q, no_beacon)
      /\ Calm(q, RMW("Config1", {}, {"Speed_down"}))
      /\ Calm(q, RMW("Config1", {"Speed_down"}, {}))
      /\ Calm(q, RMW("Config1", {"LEDS0"}, {}))
      /\ Calm(q, ModConfig("Config5", {"Spi_en"}, {})) /\ Calm(q, rtl_disable_rxdvgate)
      /\ Calm(q, Paged("c42")) /\ Calm(q, r8169_apply_firmware(v))
  BY ConfigPiecesPlain, FirmwarePlain DEF Plain
<1>4. ~PmeConfig1(q.v) => /\ Calm(q, Put("Config1", {"LEDS0", "Speed_down", "PMEnable"}))
                          /\ Calm(q, Put("Config1", {"PMEnable"}))
  BY ConfigPiecesPlain DEF Plain
<1> QED BY <1>1, <1>2, <1>3, <1>4

(* The start function of each chip spoils no bit.                         *)
LEMMA StartCalm ==
    ASSUME NEW q, NEW v
    PROVE  /\ Calm(q, rtl_hw_start_8168b) /\ Calm(q, rtl_hw_start_8168cp_1) /\ Calm(q, rtl_hw_start_8168cp_2)
           /\ Calm(q, rtl_hw_start_8168cp_3) /\ Calm(q, rtl_hw_start_8168c_1) /\ Calm(q, rtl_hw_start_8168c_2)
           /\ Calm(q, rtl_hw_start_8168c_4) /\ Calm(q, rtl_hw_start_8168d) /\ Calm(q, rtl_hw_start_8168d_4)
           /\ Calm(q, rtl_hw_start_8168e_1) /\ Calm(q, rtl_hw_start_8168e_2) /\ Calm(q, rtl_hw_start_8168f)
           /\ Calm(q, rtl_hw_start_8168f_1) /\ Calm(q, rtl_hw_start_8411) /\ Calm(q, rtl_hw_start_8168g)
           /\ Calm(q, rtl_hw_start_8168g_1) /\ Calm(q, rtl_hw_start_8168g_2) /\ Calm(q, rtl_hw_start_8411_2)
           /\ Calm(q, rtl_hw_start_8168h_1) /\ Calm(q, rtl_hw_start_8168ep_3) /\ Calm(q, rtl_hw_start_8117(v))
           /\ Calm(q, rtl_hw_start_8401) /\ Calm(q, rtl_hw_start_8105e_1) /\ Calm(q, rtl_hw_start_8105e_2)
           /\ Calm(q, rtl_hw_start_8402) /\ Calm(q, rtl_hw_start_8106) /\ Calm(q, rtl_hw_start_8125a_2)
           /\ Calm(q, rtl_hw_start_8125b)
           /\ ~PmeConfig1(q.v) => /\ Calm(q, rtl_hw_start_8102e_1) /\ Calm(q, rtl_hw_start_8102e_2)
                                  /\ Calm(q, rtl_hw_start_8102e_3)
<1> DEFINE C(s) == Calm(q, s)
<1>1. C(Touch("ephy")) /\ C(rtl_ephy_init)
  BY PiecesCalm
<1>2. /\ C(EriWrite("eri", {})) /\ C(rtl_set_fifo_size) /\ C(rtl8168g_set_pause_thresholds)
      /\ C(rtl8168_config_eee_mac) /\ C(EriModify("eri_1d0", {}, {"b1"}))
      /\ C(EriModify("eri_1d0", {}, {"b1", "b4"})) /\ C(EriModify("eri_1b0", {}, {"b4"}))
      /\ C(EriModify("eri_1b0", {"b12"}, {})) /\ C(EriModify("eri_2fc", {"b1"}, {"b0"}))
      /\ C(EriModify("eri_dc", {}, {"b2"})) /\ C(EriModify("eri_d4", {}, {"b4"}))
      /\ C(EriWrite("eri_1b0", {})) /\ C(EriWrite("eri_1d0", {}))
      /\ C(EriModify("eri_d4", {"exit_l1"}, {"exit_l1"})) /\ C(rtl_reset_packet_filter)
  BY PiecesCalm
<1>3. /\ C(rtl_set_def_aspm_entry_latency) /\ C(Touch("ocp")) /\ C(rtl_disable_clock_request)
      /\ C(rtl_enable_clock_request) /\ C(rtl_pcie_state_l2l3_disable) /\ C(no_beacon)
      /\ C(RMW("Config1", {}, {"Speed_down"})) /\ C(RMW("Config1", {"Speed_down"}, {}))
      /\ C(RMW("Config1", {"LEDS0"}, {})) /\ C(ModConfig("Config5", {"Spi_en"}, {}))
      /\ C(rtl_disable_rxdvgate) /\ C(Paged("c42")) /\ C(r8169_apply_firmware(v))
  BY PiecesCalm
<1>4. ~PmeConfig1(q.v) => /\ C(Put("Config1", {"LEDS0", "Speed_down", "PMEnable"}))
                          /\ C(Put("Config1", {"PMEnable"}))
  BY PiecesCalm
<1> HIDE DEF C
<1>5. ASSUME NEW s, NEW u, C(s), C(u) PROVE C(s \o u)
  BY <1>5, CalmJoins DEF C
<1>6. C(rtl_hw_start_8168b)
  BY <1>5, <1>3 DEF rtl_hw_start_8168b
<1>7. C(rtl_hw_start_8168cp)
  BY <1>5, <1>3 DEF rtl_hw_start_8168cp
<1>8. C(rtl_hw_start_8168cp_1)
  BY <1>5, <1>1, <1>3, <1>7 DEF rtl_hw_start_8168cp_1
<1>9. C(rtl_hw_start_8168cp_2)
  BY <1>5, <1>3 DEF rtl_hw_start_8168cp_2
<1>10. C(rtl_hw_start_8168cp_3)
  BY <1>5, <1>3 DEF rtl_hw_start_8168cp_3
<1>11. C(rtl_hw_start_8168c_1)
  BY <1>5, <1>1, <1>3, <1>7 DEF rtl_hw_start_8168c_1
<1>12. C(rtl_hw_start_8168c_2)
  BY <1>5, <1>1, <1>3, <1>7 DEF rtl_hw_start_8168c_2
<1>13. C(rtl_hw_start_8168c_4)
  BY <1>5, <1>3, <1>7 DEF rtl_hw_start_8168c_4
<1>14. C(rtl_hw_start_8168d)
  BY <1>5, <1>3 DEF rtl_hw_start_8168d
<1>15. C(rtl_hw_start_8168d_4)
  BY <1>5, <1>1, <1>3 DEF rtl_hw_start_8168d_4
<1>16. C(rtl_hw_start_8168e_1)
  BY <1>5, <1>1, <1>3 DEF rtl_hw_start_8168e_1
<1>17. C(rtl_hw_start_8168e_2)
  BY <1>5, <1>1, <1>2, <1>3 DEF rtl_hw_start_8168e_2
<1>18. C(rtl_hw_start_8168f)
  BY <1>5, <1>2, <1>3 DEF rtl_hw_start_8168f
<1>19. C(rtl_hw_start_8168f_1)
  BY <1>5, <1>1, <1>18 DEF rtl_hw_start_8168f_1
<1>20. C(rtl_hw_start_8411)
  BY <1>5, <1>1, <1>3, <1>18 DEF rtl_hw_start_8411
<1>21. C(rtl_hw_start_8168g)
  BY <1>5, <1>2, <1>3 DEF rtl_hw_start_8168g
<1>22. C(rtl_hw_start_8168g_1)
  BY <1>5, <1>1, <1>21 DEF rtl_hw_start_8168g_1
<1>23. C(rtl_hw_start_8168g_2)
  BY <1>5, <1>1, <1>21 DEF rtl_hw_start_8168g_2
<1>24. C(rtl_hw_start_8411_2)
  BY <1>5, <1>1, <1>3, <1>21 DEF rtl_hw_start_8411_2
<1>25. C(rtl_hw_start_8168h_1)
  BY <1>5, <1>1, <1>2, <1>3 DEF rtl_hw_start_8168h_1
<1>26. C(rtl_hw_start_8168ep)
  BY <1>5, <1>2, <1>3 DEF rtl_hw_start_8168ep
<1>27. C(rtl_hw_start_8168ep_3)
  BY <1>5, <1>1, <1>3, <1>26 DEF rtl_hw_start_8168ep_3
<1>28. C(rtl_hw_start_8117(v))
  BY <1>5, <1>1, <1>2, <1>3 DEF rtl_hw_start_8117
<1>29. ~PmeConfig1(q.v) => C(rtl_hw_start_8102e_1)
  BY <1>5, <1>1, <1>3, <1>4 DEF rtl_hw_start_8102e_1
<1>30. ~PmeConfig1(q.v) => C(rtl_hw_start_8102e_2)
  BY <1>5, <1>3, <1>4 DEF rtl_hw_start_8102e_2
<1>31. ~PmeConfig1(q.v) => C(rtl_hw_start_8102e_3)
  BY <1>5, <1>1, <1>30 DEF rtl_hw_start_8102e_3
<1>32. C(rtl_hw_start_8401)
  BY <1>5, <1>1, <1>3 DEF rtl_hw_start_8401
<1>33. C(rtl_hw_start_8105e_1)
  BY <1>5, <1>1, <1>3 DEF rtl_hw_start_8105e_1
<1>34. C(rtl_hw_start_8105e_2)
  BY <1>5, <1>1, <1>33 DEF rtl_hw_start_8105e_2
<1>35. C(rtl_hw_start_8402)
  BY <1>5, <1>1, <1>2, <1>3 DEF rtl_hw_start_8402
<1>36. C(rtl_hw_start_8106)
  BY <1>5, <1>2, <1>3 DEF rtl_hw_start_8106
<1>37. C(rtl_hw_start_8125_common)
  BY <1>5, <1>3 DEF rtl_hw_start_8125_common
<1>38. C(rtl_hw_start_8125a_2)
  BY <1>5, <1>1, <1>3, <1>37 DEF rtl_hw_start_8125a_2
<1>39. C(rtl_hw_start_8125b)
  BY <1>5, <1>1, <1>3, <1>37 DEF rtl_hw_start_8125b
<1> QED
  BY <1>6, <1>7, <1>8, <1>9, <1>10, <1>11, <1>12, <1>13, <1>14, <1>15, <1>16, <1>17,
     <1>18, <1>19, <1>20, <1>21, <1>22, <1>23, <1>24, <1>25, <1>26, <1>27, <1>28, <1>29,
     <1>30, <1>31, <1>32, <1>33, <1>34, <1>35, <1>36, <1>37, <1>38, <1>39 DEF C

(* The start function of every version spoils nothing that is asked for.     *)
LEMMA HwConfigCalm == ASSUME NEW q PROVE Calm(q, rtl_hw_config(q.v))
<1>1. Calm(q, <<>>)
  BY EmptyPlain DEF Plain
<1>2. q.v \in {7, 8, 9} => ~PmeConfig1(q.v)
  BY DEF PmeConfig1
<1> DEFINE C(s) == Calm(q, s)
           v == q.v
<1>3. /\ C(rtl_hw_start_8168b) /\ C(rtl_hw_start_8168cp_1) /\ C(rtl_hw_start_8168cp_2)
      /\ C(rtl_hw_start_8168cp_3) /\ C(rtl_hw_start_8168c_1) /\ C(rtl_hw_start_8168c_2)
      /\ C(rtl_hw_start_8168c_4) /\ C(rtl_hw_start_8168d) /\ C(rtl_hw_start_8168d_4)
      /\ C(rtl_hw_start_8168e_1) /\ C(rtl_hw_start_8168e_2) /\ C(rtl_hw_start_8168f_1)
      /\ C(rtl_hw_start_8411) /\ C(rtl_hw_start_8168g_1) /\ C(rtl_hw_start_8168g_2)
      /\ C(rtl_hw_start_8411_2) /\ C(rtl_hw_start_8168h_1) /\ C(rtl_hw_start_8168ep_3)
      /\ C(rtl_hw_start_8117(v)) /\ C(rtl_hw_start_8401) /\ C(rtl_hw_start_8105e_1)
      /\ C(rtl_hw_start_8105e_2) /\ C(rtl_hw_start_8402) /\ C(rtl_hw_start_8106)
      /\ C(rtl_hw_start_8125a_2) /\ C(rtl_hw_start_8125b) /\ C(<<>>)
  BY <1>1, StartCalm
<1>4. v \in {7, 8, 9} => C(rtl_hw_start_8102e_1) /\ C(rtl_hw_start_8102e_2) /\ C(rtl_hw_start_8102e_3)
  BY <1>2, StartCalm
<1> HIDE DEF C, v
<1>5. C(rtl_hw_config(v))
  BY <1>3, <1>4 DEF rtl_hw_config
<1> QED BY <1>5 DEF C, v

(* A bit that one of two scripts leaves as it shall be.                      *)
LEMMA EndsAmong ==
    ASSUME NEW q, NEW r, NEW b, Asked(q, r, b), NEW s, NEW u, Fresh(s), Fresh(u)
    PROVE  /\ Ends(q, s, 1, r, b) /\ Calm(q, u) => Ends(q, s \o u, 1, r, b)
           /\ Ends(q, u, 1, r, b) => Ends(q, s \o u, 1, r, b)
BY EndsJoin DEF Calm, Fresh

(* The start functions that reset the filter, or open the gate, leave it so. *)
LEMMA StartEnds ==
    ASSUME NEW q, NEW r, NEW b, Asked(q, r, b), NEW v
    PROVE  /\ Ends(q, rtl_reset_packet_filter, 1, r, b) =>
                 /\ Ends(q, rtl_hw_start_8168e_2, 1, r, b)
                 /\ Ends(q, rtl_hw_start_8168f_1, 1, r, b)
                 /\ Ends(q, rtl_hw_start_8411, 1, r, b)
                 /\ Ends(q, rtl_hw_start_8168g_1, 1, r, b)
                 /\ Ends(q, rtl_hw_start_8168g_2, 1, r, b)
                 /\ Ends(q, rtl_hw_start_8411_2, 1, r, b)
                 /\ Ends(q, rtl_hw_start_8168h_1, 1, r, b)
                 /\ Ends(q, rtl_hw_start_8168ep_3, 1, r, b)
                 /\ Ends(q, rtl_hw_start_8117(v), 1, r, b)
                 /\ Ends(q, rtl_hw_start_8402, 1, r, b)
           /\ Ends(q, rtl_disable_rxdvgate, 1, r, b) =>
                 /\ Ends(q, rtl_hw_start_8168g_1, 1, r, b)
                 /\ Ends(q, rtl_hw_start_8168g_2, 1, r, b)
                 /\ Ends(q, rtl_hw_start_8411_2, 1, r, b)
                 /\ Ends(q, rtl_hw_start_8168h_1, 1, r, b)
                 /\ Ends(q, rtl_hw_start_8168ep_3, 1, r, b)
                 /\ Ends(q, rtl_hw_start_8117(v), 1, r, b)
                 /\ Ends(q, rtl_hw_start_8125a_2, 1, r, b)
                 /\ Ends(q, rtl_hw_start_8125b, 1, r, b)
<1> DEFINE C(s) == Calm(q, s)
           D(s) == Fresh(s) /\ Ends(q, s, 1, r, b)
<1>1. /\ C(Touch("ephy")) /\ C(rtl_ephy_init)
  BY PiecesCalm
<1>2. /\ C(EriWrite("eri", {})) /\ C(rtl_set_fifo_size) /\ C(rtl8168g_set_pause_thresholds)
      /\ C(rtl8168_config_eee_mac) /\ C(EriModify("eri_1d0", {}, {"b1"}))
      /\ C(EriModify("eri_1d0", {}, {"b1", "b4"})) /\ C(EriModify("eri_1b0", {}, {"b4"}))
      /\ C(EriModify("eri_1b0", {"b12"}, {})) /\ C(EriModify("eri_2fc", {"b1"}, {"b0"}))
      /\ C(EriModify("eri_dc", {}, {"b2"})) /\ C(EriModify("eri_d4", {}, {"b4"}))
      /\ C(EriWrite("eri_1b0", {})) /\ C(EriWrite("eri_1d0", {}))
      /\ C(EriModify("eri_d4", {"exit_l1"}, {"exit_l1"})) /\ C(rtl_reset_packet_filter)
  BY PiecesCalm
<1>3. /\ C(rtl_set_def_aspm_entry_latency) /\ C(Touch("ocp")) /\ C(rtl_disable_clock_request)
      /\ C(rtl_enable_clock_request) /\ C(rtl_pcie_state_l2l3_disable) /\ C(no_beacon)
      /\ C(RMW("Config1", {}, {"Speed_down"})) /\ C(RMW("Config1", {"Speed_down"}, {}))
      /\ C(RMW("Config1", {"LEDS0"}, {})) /\ C(ModConfig("Config5", {"Spi_en"}, {}))
      /\ C(rtl_disable_rxdvgate) /\ C(Paged("c42")) /\ C(r8169_apply_firmware(v))
  BY PiecesCalm
<1>4. /\ \A s : D(s) => Fresh(s)
      /\ C(rtl_hw_start_8168f) /\ C(rtl_hw_start_8168g)
  BY StartCalm
<1>5. ASSUME NEW s, NEW u, C(s), C(u) PROVE C(s \o u)
  BY <1>5, CalmJoins
<1>6. ASSUME NEW s, NEW u, D(s), C(u) PROVE D(s \o u)
  BY <1>6, EndsAmong, FreshJoins DEF Calm
<1>7. ASSUME NEW s, NEW u, C(s), D(u) PROVE D(s \o u)
  BY <1>7, EndsAmong, FreshJoins DEF Calm
<1>8. Ends(q, rtl_reset_packet_filter, 1, r, b) => D(rtl_reset_packet_filter)
  BY FilterEnds DEF Plain, Calm
<1>9. Ends(q, rtl_disable_rxdvgate, 1, r, b) => D(rtl_disable_rxdvgate)
  BY ConfigPiecesPlain DEF Plain, Calm
<1>10. \A s : D(s) => Ends(q, s, 1, r, b)
  OBVIOUS
<1> HIDE DEF C, D
<1>11. D(rtl_reset_packet_filter) => D(rtl_hw_start_8168e_2)
  BY <1>5, <1>6, <1>7, <1>1, <1>2, <1>3 DEF rtl_hw_start_8168e_2
<1>12. D(rtl_reset_packet_filter) => D(rtl_hw_start_8168f)
  BY <1>5, <1>6, <1>7, <1>2, <1>3 DEF rtl_hw_start_8168f
<1>13. D(rtl_reset_packet_filter) => D(rtl_hw_start_8168f_1)
  BY <1>5, <1>6, <1>7, <1>1, <1>12 DEF rtl_hw_start_8168f_1
<1>14. D(rtl_reset_packet_filter) => D(rtl_hw_start_8411)
  BY <1>5, <1>6, <1>7, <1>1, <1>3, <1>12 DEF rtl_hw_start_8411
<1>15. D(rtl_reset_packet_filter) => D(rtl_hw_start_8168g)
  BY <1>5, <1>6, <1>7, <1>2, <1>3 DEF rtl_hw_start_8168g
<1>16. D(rtl_reset_packet_filter) => D(rtl_hw_start_8168g_1)
  BY <1>5, <1>6, <1>7, <1>1, <1>15 DEF rtl_hw_start_8168g_1
<1>17. D(rtl_reset_packet_filter) => D(rtl_hw_start_8168g_2)
  BY <1>5, <1>6, <1>7, <1>1, <1>15 DEF rtl_hw_start_8168g_2
<1>18. D(rtl_reset_packet_filter) => D(rtl_hw_start_8411_2)
  BY <1>5, <1>6, <1>7, <1>1, <1>3, <1>15 DEF rtl_hw_start_8411_2
<1>19. D(rtl_reset_packet_filter) => D(rtl_hw_start_8168h_1)
  BY <1>5, <1>6, <1>7, <1>1, <1>2, <1>3 DEF rtl_hw_start_8168h_1
<1>20. D(rtl_reset_packet_filter) => D(rtl_hw_start_8168ep)
  BY <1>5, <1>6, <1>7, <1>2, <1>3 DEF rtl_hw_start_8168ep
<1>21. D(rtl_reset_packet_filter) => D(rtl_hw_start_8168ep_3)
  BY <1>5, <1>6, <1>7, <1>1, <1>3, <1>20 DEF rtl_hw_start_8168ep_3
<1>22. D(rtl_reset_packet_filter) => D(rtl_hw_start_8117(v))
  BY <1>5, <1>6, <1>7, <1>1, <1>2, <1>3 DEF rtl_hw_start_8117
<1>23. D(rtl_reset_packet_filter) => D(rtl_hw_start_8402)
  BY <1>5, <1>6, <1>7, <1>1, <1>2, <1>3 DEF rtl_hw_start_8402
<1>24. D(rtl_disable_rxdvgate) => D(rtl_hw_start_8168g)
  BY <1>5, <1>6, <1>7, <1>2, <1>3 DEF rtl_hw_start_8168g
<1>25. D(rtl_disable_rxdvgate) => D(rtl_hw_start_8168g_1)
  BY <1>5, <1>6, <1>7, <1>1, <1>24 DEF rtl_hw_start_8168g_1
<1>26. D(rtl_disable_rxdvgate) => D(rtl_hw_start_8168g_2)
  BY <1>5, <1>6, <1>7, <1>1, <1>24 DEF rtl_hw_start_8168g_2
<1>27. D(rtl_disable_rxdvgate) => D(rtl_hw_start_8411_2)
  BY <1>5, <1>6, <1>7, <1>1, <1>3, <1>24 DEF rtl_hw_start_8411_2
<1>28. D(rtl_disable_rxdvgate) => D(rtl_hw_start_8168h_1)
  BY <1>5, <1>6, <1>7, <1>1, <1>2, <1>3 DEF rtl_hw_start_8168h_1
<1>29. D(rtl_disable_rxdvgate) => D(rtl_hw_start_8168ep)
  BY <1>5, <1>6, <1>7, <1>2, <1>3 DEF rtl_hw_start_8168ep
<1>30. D(rtl_disable_rxdvgate) => D(rtl_hw_start_8168ep_3)
  BY <1>5, <1>6, <1>7, <1>1, <1>3, <1>29 DEF rtl_hw_start_8168ep_3
<1>31. D(rtl_disable_rxdvgate) => D(rtl_hw_start_8117(v))
  BY <1>5, <1>6, <1>7, <1>1, <1>2, <1>3 DEF rtl_hw_start_8117
<1>32. D(rtl_disable_rxdvgate) => D(rtl_hw_start_8125_common)
  BY <1>5, <1>6, <1>7, <1>3 DEF rtl_hw_start_8125_common
<1>33. D(rtl_disable_rxdvgate) => D(rtl_hw_start_8125a_2)
  BY <1>5, <1>6, <1>7, <1>1, <1>3, <1>32 DEF rtl_hw_start_8125a_2
<1>34. D(rtl_disable_rxdvgate) => D(rtl_hw_start_8125b)
  BY <1>5, <1>6, <1>7, <1>1, <1>3, <1>32 DEF rtl_hw_start_8125b
<1> QED
  BY <1>8, <1>9, <1>10, <1>11, <1>13, <1>14, <1>16, <1>17, <1>18, <1>19, <1>21, <1>22,
     <1>23, <1>25, <1>26, <1>27, <1>28, <1>30, <1>31, <1>33, <1>34

(* It opens the packet filter and the receiver's gate, where they exist.     *)
LEMMA HwConfigEnds ==
    ASSUME NEW q, q.v \in Versions
    PROVE  /\ Filter(q, "eri_dc", "filter") => Ends(q, rtl_hw_config(q.v), 1, "eri_dc", "filter")
           /\ Gate(q, "MISC", "RXDV_GATED_EN") => Ends(q, rtl_hw_config(q.v), 1, "MISC", "RXDV_GATED_EN")
<1> DEFINE v == q.v
<1>1. ASSUME Filter(q, "eri_dc", "filter") PROVE Ends(q, rtl_hw_config(v), 1, "eri_dc", "filter")
  <2>1. Asked(q, "eri_dc", "filter")
    BY <1>1 DEF Asked
  <2> DEFINE E(s) == Ends(q, s, 1, "eri_dc", "filter")
  <2>2. /\ E(rtl_hw_start_8168e_2) /\ E(rtl_hw_start_8168f_1) /\ E(rtl_hw_start_8402) /\ E(rtl_hw_start_8411)
        /\ E(rtl_hw_start_8168g_1) /\ E(rtl_hw_start_8168g_2) /\ E(rtl_hw_start_8411_2)
        /\ E(rtl_hw_start_8168h_1) /\ E(rtl_hw_start_8168ep_3) /\ E(rtl_hw_start_8117(v))
    BY <1>1, <2>1, StartEnds, FilterEnds
  <2>3. v \in {34, 35, 36, 37, 38, 40, 42, 43, 44, 46, 48, 51, 52, 53}
    BY <1>1 DEF Filter, Versions
  <2> HIDE DEF E, v
  <2>4. E(rtl_hw_config(v))
    BY <2>2, <2>3 DEF rtl_hw_config
  <2> QED BY <2>4 DEF E
<1>2. ASSUME Gate(q, "MISC", "RXDV_GATED_EN") PROVE Ends(q, rtl_hw_config(v), 1, "MISC", "RXDV_GATED_EN")
  <2>1. Asked(q, "MISC", "RXDV_GATED_EN") /\ ~Shall(q, "MISC", "RXDV_GATED_EN")
    BY <1>2 DEF Asked, Shall, Magic, Power, Link, Unicast, Broadcast, Multicast, Aspm, Filter, Reception
  <2>2. "MISC" \in PlainRegs /\ "MISC" # "RxConfig" /\ {"RXDV_GATED_EN"} \in SUBSET Bits /\ {} \in SUBSET Bits
    BY DEF PlainRegs, Registers, EriRegs, OcpRegs, Bits
  <2>3. Ends(q, rtl_disable_rxdvgate, 1, "MISC", "RXDV_GATED_EN")
    BY <2>1, <2>2, RMWChanges, ChangeEnds DEF rtl_disable_rxdvgate, Fresh
  <2> DEFINE E(s) == Ends(q, s, 1, "MISC", "RXDV_GATED_EN")
  <2>4. /\ E(rtl_hw_start_8168g_1) /\ E(rtl_hw_start_8168g_2) /\ E(rtl_hw_start_8411_2)
        /\ E(rtl_hw_start_8168h_1) /\ E(rtl_hw_start_8168ep_3) /\ E(rtl_hw_start_8117(v))
        /\ E(rtl_hw_start_8125a_2) /\ E(rtl_hw_start_8125b)
    BY <2>1, <2>3, StartEnds
  <2>5. v \in {40, 42, 43, 44, 46, 48, 51, 52, 53, 61, 63}
    BY <1>2 DEF Gate, Versions
  <2> HIDE DEF E, v
  <2>6. E(rtl_hw_config(v))
    BY <2>4, <2>5 DEF rtl_hw_config
  <2> QED BY <2>6 DEF E
<1> QED BY <1>1, <1>2

(* What a script leaves whatever is asked of a bit, it leaves alone.         *)
LEMMA CalmTwice ==
    ASSUME NEW p, NEW q, NEW s, Calm(p, s), Calm(q, s), NEW r, NEW b, r # "RxConfig",
           Asked(p, r, b), Asked(q, r, b), Shall(p, r, b), ~Shall(q, r, b)
    PROVE  Clean(s, 1, r, b)
<1> SUFFICES ASSUME ~Clean(s, 1, r, b) PROVE FALSE
  OBVIOUS
<1>1. Ends(p, s, 1, r, b) /\ Ends(q, s, 1, r, b)
  BY DEF Calm, Safe
<1>2. PICK i \in 1 .. Len(s) : /\ Mentions(s[i], r, b) /\ Gives(p, s[i], b)
                               /\ \A k \in (i + 1) .. Len(s) : ~Mentions(s[k], r, b)
  BY <1>1 DEF Ends
<1>3. PICK j \in 1 .. Len(s) : /\ Mentions(s[j], r, b) /\ ~Gives(q, s[j], b)
                               /\ \A k \in (j + 1) .. Len(s) : ~Mentions(s[k], r, b)
  BY <1>1 DEF Ends
<1>4. Len(s) \in Nat
  BY DEF Calm, Fresh
<1>5. i = j
  <2>1. i < j => j \in (i + 1) .. Len(s)
    BY <1>4
  <2>2. j < i => i \in (j + 1) .. Len(s)
    BY <1>4
  <2> QED BY <2>1, <2>2, <1>2, <1>3
<1>6. s[i].reg # "RxConfig"
  BY <1>2 DEF Mentions
<1> QED BY <1>2, <1>3, <1>5, <1>6 DEF Gives, Merges

-----------------------------------------------------------------------------
(* ASPM and the clock request: off, and on again where they are allowed.     *)
LEMMA OnlyAspm ==
    ASSUME NEW q, NEW r, NEW c, Aspm(r, c)
    PROVE  /\ Asked(q, r, c) /\ (Shall(q, r, c) <=> q.aspm) /\ r # "RxConfig"
           /\ r \in {"Config2", "Config5"} /\ (r = "Config2" <=> c = "ClkReqEn") /\ (r = "Config5" <=> c = "ASPM_en")
<1>1. r \in {"Config2", "Config5"} /\ (r = "Config2" <=> c = "ClkReqEn") /\ (r = "Config5" <=> c = "ASPM_en")
  BY DEF Aspm
<1>2. Asked(q, r, c)
  BY DEF Asked
<1>3. /\ ~Magic(q, r, c) /\ ~Power(q, r, c) /\ ~Link(r, c) /\ ~Unicast(r, c) /\ ~Broadcast(r, c)
      /\ ~Multicast(r, c) /\ ~Filter(q, r, c) /\ ~Reception(q, r, c)
  BY <1>1 DEF Magic, Power, Link, Unicast, Broadcast, Multicast, Filter, Reception
<1> QED BY <1>1, <1>2, <1>3 DEF Shall, Allowed

(* MAC OCP registers that nothing asked for is in.                           *)
LEMMA OcpUnasked ==
    ASSUME NEW reg \in {"ocp_c0ac", "ocp_e092"}, NEW clear \in SUBSET Bits, NEW set \in SUBSET Bits
    PROVE  /\ Fresh(OcpModify(reg, clear, set)) /\ NoEphy(OcpModify(reg, clear, set))
           /\ \A q, r, c : Asked(q, r, c) => Clean(OcpModify(reg, clear, set), 1, r, c)
<1>1. reg \in OcpRegs
  BY DEF OcpRegs
<1>2. \A q, c : ~Asked(q, reg, c)
  BY Unasked DEF EriRegs
<1> QED BY <1>1, <1>2, OcpModifyIs

AspmOff(v, b) == rtl_hw_aspm_clkreq_enable(v, b, FALSE)
AspmOn(v, b)  == rtl_hw_aspm_clkreq_enable(v, b, TRUE)

(* Disabling ASPM before a start: from 32 on it is off afterwards, below     *)
(* nothing is done.                                                          *)
LEMMA AspmOffIs ==
    ASSUME NEW v \in Nat, NEW b
    PROVE  /\ Fresh(AspmOff(v, b)) /\ NoEphy(AspmOff(v, b)) /\ (v < 32 => AspmOff(v, b) = <<>>)
           /\ \A q, r, c : Asked(q, r, c) /\ ~Aspm(r, c) => Clean(AspmOff(v, b), 1, r, c)
           /\ v >= 32 => \A q, r, c : Aspm(r, c) /\ ~Shall(q, r, c) => Ends(q, AspmOff(v, b), 1, r, c)
<1> DEFINE x == If(HasL12(v), OcpModify("ocp_e092", {"b2"}, {}))
           y == ModConfig("Config2", {"ClkReqEn"}, {})
           z == ModConfig("Config5", {"ASPM_en"}, {})
<1>1. v < 32 => AspmOff(v, b) = <<>>
  BY DEF AspmOff, rtl_hw_aspm_clkreq_enable
<1>2. v >= 32 => AspmOff(v, b) = x \o y \o z
  BY DEF AspmOff, rtl_hw_aspm_clkreq_enable
<1>3. {"b2"} \in SUBSET Bits /\ {"ClkReqEn"} \in SUBSET Bits /\ {"ASPM_en"} \in SUBSET Bits /\ {} \in SUBSET Bits
  BY DEF Bits
<1>4. Fresh(<<>>) /\ NoEphy(<<>>) /\ \A r, c : Clean(<<>>, 1, r, c)
  BY EmptyPlain DEF Plain, Clean
<1>5. Fresh(x) /\ NoEphy(x) /\ \A q, r, c : Asked(q, r, c) => Clean(x, 1, r, c)
  BY <1>3, <1>4, OcpUnasked DEF If
<1>6. /\ Fresh(y) /\ NoEphy(y)
      /\ \A r, c : r # "Config2" \/ c # "ClkReqEn" => Clean(y, 1, r, c)
      /\ \A q : ~Shall(q, "Config2", "ClkReqEn") => Ends(q, y, 1, "Config2", "ClkReqEn")
  BY <1>3, ModConfigIs
<1>7. /\ Fresh(z) /\ NoEphy(z)
      /\ \A r, c : r # "Config5" \/ c # "ASPM_en" => Clean(z, 1, r, c)
      /\ \A q : ~Shall(q, "Config5", "ASPM_en") => Ends(q, z, 1, "Config5", "ASPM_en")
  BY <1>3, ModConfigIs
<1> HIDE DEF x, y, z
<1>8. Fresh(x \o y) /\ NoEphy(x \o y) /\ Fresh(x \o y \o z) /\ NoEphy(x \o y \o z)
  BY <1>5, <1>6, <1>7, FreshJoins, NoEphyJoins DEF Fresh
<1>9. ASSUME NEW q, NEW r, NEW c, Asked(q, r, c), ~Aspm(r, c) PROVE Clean(x \o y \o z, 1, r, c)
  <2>1. Clean(x, 1, r, c) /\ Clean(y, 1, r, c) /\ Clean(z, 1, r, c)
    BY <1>5, <1>6, <1>7, <1>9 DEF Aspm
  <2>2. Clean(x \o y, 1, r, c)
    BY <2>1, <1>5, <1>6, CleanJoins DEF Fresh
  <2> QED BY <2>1, <2>2, <1>7, <1>8, CleanJoins DEF Fresh
<1>10. ASSUME NEW q, NEW r, NEW c, Aspm(r, c), ~Shall(q, r, c) PROVE Ends(q, x \o y \o z, 1, r, c)
  <2>1. CASE r = "Config5" /\ c = "ASPM_en"
    BY <2>1, <1>10, <1>7, <1>8, EndsJoin DEF Fresh
  <2>2. CASE r = "Config2" /\ c = "ClkReqEn"
    <3>1. Ends(q, x \o y, 1, r, c)
      BY <2>2, <1>10, <1>5, <1>6, EndsJoin DEF Fresh
    <3>2. Clean(z, 1, r, c)
      BY <2>2, <1>7
    <3> QED BY <3>1, <3>2, <1>7, <1>8, EndsJoin DEF Fresh
  <2> QED BY <2>1, <2>2, <1>10 DEF Aspm
<1>11. v < 32 \/ v >= 32
  OBVIOUS
<1>12. CASE v < 32
  <2>1. ~(v >= 32)
    BY <1>12
  <2> QED BY <1>1, <1>4, <1>12, <2>1
<1>13. CASE v >= 32
  <2>1. ~(v < 32)
    BY <1>13
  <2> QED BY <1>2, <1>8, <1>9, <1>10, <1>13, <2>1
<1> QED BY <1>11, <1>12, <1>13

(* What is allowed of the link, in a state q of a chip and board.            *)
Suits(q) ==
    /\ q.v \in Versions /\ q.board \in Boards(q.v)
    /\ q.v >= 32 => (q.aspm <=> q.board.aspm_manageable /\ q.v \notin {42, 43})

(* Enabling it again, as the system allows.                                  *)
LEMMA AspmOnIs ==
    ASSUME NEW q, Suits(q)
    PROVE  /\ Plain(q, AspmOn(q.v, q.board)) /\ (q.v < 32 => AspmOn(q.v, q.board) = <<>>)
           /\ \A r, c : Asked(q, r, c) /\ ~Aspm(r, c) => Clean(AspmOn(q.v, q.board), 1, r, c)
           /\ q.v >= 32 /\ q.aspm => \A r, c : Aspm(r, c) => Ends(q, AspmOn(q.v, q.board), 1, r, c)
<1> DEFINE v == q.v
           s == AspmOn(q.v, q.board)
           x == ModConfig("Config5", {}, {"ASPM_en"})
           y == ModConfig("Config2", {}, {"ClkReqEn"})
           z == If(HasL12(v), OcpModify("ocp_e092", {"b2"}, {"b2"}))
<1>0. v \in Nat /\ q.board.aspm_manageable \in BOOLEAN
  BY DEF Suits, Versions, Boards
<1>1. v < 32 => s = <<>>
  BY DEF AspmOn, rtl_hw_aspm_clkreq_enable
<1>2. v >= 32 /\ q.board.aspm_manageable => s = If(v \notin {42, 43}, x \o y \o z)
  BY <1>0 DEF AspmOn, rtl_hw_aspm_clkreq_enable
<1>3. v >= 32 /\ ~q.board.aspm_manageable => s = AspmOff(v, q.board)
  BY <1>0 DEF AspmOn, AspmOff, rtl_hw_aspm_clkreq_enable
<1>4. {"b2"} \in SUBSET Bits /\ {"ClkReqEn"} \in SUBSET Bits /\ {"ASPM_en"} \in SUBSET Bits /\ {} \in SUBSET Bits
  BY DEF Bits
<1>5. Fresh(<<>>) /\ NoEphy(<<>>) /\ Plain(q, <<>>) /\ \A r, c : Clean(<<>>, 1, r, c)
  BY EmptyPlain DEF Plain, Clean
<1>6. Fresh(z) /\ NoEphy(z) /\ \A r, c : Asked(q, r, c) => Clean(z, 1, r, c)
  BY <1>4, <1>5, OcpUnasked DEF If
<1>7. /\ Fresh(x) /\ NoEphy(x)
      /\ \A r, c : r # "Config5" \/ c # "ASPM_en" => Clean(x, 1, r, c)
      /\ Shall(q, "Config5", "ASPM_en") => Ends(q, x, 1, "Config5", "ASPM_en")
  BY <1>4, ModConfigIs
<1>8. /\ Fresh(y) /\ NoEphy(y)
      /\ \A r, c : r # "Config2" \/ c # "ClkReqEn" => Clean(y, 1, r, c)
      /\ Shall(q, "Config2", "ClkReqEn") => Ends(q, y, 1, "Config2", "ClkReqEn")
  BY <1>4, ModConfigIs
<1>9. \A r, c : Aspm(r, c) => Asked(q, r, c) /\ (Shall(q, r, c) <=> q.aspm)
  BY OnlyAspm
<1>10. CASE v < 32
  <2>1. ~(v >= 32)
    BY <1>0, <1>10
  <2> QED BY <1>1, <1>5, <1>10, <2>1
<1>11. CASE v >= 32 /\ ~q.board.aspm_manageable
  <2>1. ~q.aspm
    BY <1>11 DEF Suits
  <2> DEFINE o == AspmOff(v, q.board)
  <2>2. /\ Fresh(o) /\ NoEphy(o)
        /\ \A r, c : Asked(q, r, c) /\ ~Aspm(r, c) => Clean(o, 1, r, c)
        /\ \A r, c : Aspm(r, c) /\ ~Shall(q, r, c) => Ends(q, o, 1, r, c)
    BY <1>0, <1>11, AspmOffIs
  <2>3. s = o
    BY <1>3, <1>11
  <2> HIDE DEF o, s
  <2>4. \A r, c : Asked(q, r, c) => Clean(o, 1, r, c) \/ Ends(q, o, 1, r, c)
    BY <2>1, <2>2, <1>9
  <2>5. Plain(q, o)
    BY <2>2, <2>4 DEF Plain, Calm, Safe
  <2>6. ~(v < 32)
    BY <1>0, <1>11
  <2> QED BY <2>1, <2>2, <2>3, <2>5, <2>6 DEF s
<1>12. CASE v \in {42, 43} /\ q.board.aspm_manageable
  <2>1. ~q.aspm /\ v >= 32
    BY <1>12 DEF Suits
  <2>2. s = <<>>
    BY <1>2, <1>12, <2>1 DEF If
  <2>3. ~(v < 32)
    BY <1>12
  <2> QED BY <2>1, <2>2, <2>3, <1>5
<1>13. CASE v >= 32 /\ v \notin {42, 43} /\ q.board.aspm_manageable
  <2>1. q.aspm
    BY <1>13 DEF Suits
  <2>2. s = x \o y \o z
    BY <1>2, <1>13 DEF If
  <2> HIDE DEF s, x, y, z
  <2>3. Fresh(x \o y) /\ NoEphy(x \o y) /\ Fresh(x \o y \o z) /\ NoEphy(x \o y \o z)
    BY <1>6, <1>7, <1>8, FreshJoins, NoEphyJoins DEF Fresh
  <2>4. ASSUME NEW r, NEW c, Asked(q, r, c), ~Aspm(r, c) PROVE Clean(x \o y \o z, 1, r, c)
    <3>1. Clean(x, 1, r, c) /\ Clean(y, 1, r, c) /\ Clean(z, 1, r, c)
      BY <1>6, <1>7, <1>8, <2>4 DEF Aspm
    <3>2. Clean(x \o y, 1, r, c)
      BY <3>1, <1>7, <1>8, CleanJoins DEF Fresh
    <3> QED BY <3>1, <3>2, <1>6, <2>3, CleanJoins DEF Fresh
  <2>5. ASSUME NEW r, NEW c, Aspm(r, c) PROVE Ends(q, x \o y \o z, 1, r, c)
    <3>1. Shall(q, r, c) /\ Clean(z, 1, r, c)
      BY <2>1, <2>5, <1>6, <1>9
    <3>2. CASE r = "Config2" /\ c = "ClkReqEn"
      <4>1. Ends(q, x \o y, 1, r, c)
        BY <3>1, <3>2, <1>7, <1>8, EndsJoin DEF Fresh
      <4> QED BY <4>1, <3>1, <1>6, <2>3, EndsJoin DEF Fresh
    <3>3. CASE r = "Config5" /\ c = "ASPM_en"
      <4>1. Clean(y, 1, r, c)
        BY <3>3, <1>8
      <4>2. Ends(q, x \o y, 1, r, c)
        BY <3>1, <3>3, <4>1, <1>7, <1>8, EndsJoin DEF Fresh
      <4> QED BY <4>2, <3>1, <1>6, <2>3, EndsJoin DEF Fresh
    <3> QED BY <3>2, <3>3, <2>5 DEF Aspm
  <2>6. \A r, c : Asked(q, r, c) => Clean(x \o y \o z, 1, r, c) \/ Ends(q, x \o y \o z, 1, r, c)
    BY <2>4, <2>5
  <2>7. Plain(q, x \o y \o z)
    BY <2>3, <2>6 DEF Plain, Calm, Safe
  <2>8. ~(v < 32)
    BY <1>0, <1>13
  <2> QED BY <2>2, <2>4, <2>5, <2>7, <2>8 DEF s
<1> QED BY <1>0, <1>10, <1>11, <1>12, <1>13

-----------------------------------------------------------------------------
(* The receive filter.                                                       *)
LEMMA OnlyReception ==
    ASSUME NEW q, NEW b
    PROVE  /\ Asked(q, "RxConfig", b) <=> Reception(q, "RxConfig", b)
           /\ Shall(q, "RxConfig", b) <=> Reception(q, "RxConfig", b) /\ b \in Mode(q) \cup Errors(q)
           /\ Mode(q) \subseteq ModeBits /\ Errors(q) \subseteq ErrorBits /\ ModeBits # ErrorBits
           /\ \A x \in ModeBits : x \notin ErrorBits
<1>1. /\ ~Wakes(q, "RxConfig", b) /\ ~Aspm("RxConfig", b) /\ ~Filter(q, "RxConfig", b) /\ ~Gate(q, "RxConfig", b)
      /\ ~Magic(q, "RxConfig", b) /\ ~Power(q, "RxConfig", b) /\ ~Link("RxConfig", b) /\ ~Unicast("RxConfig", b)
      /\ ~Broadcast("RxConfig", b) /\ ~Multicast("RxConfig", b)
  BY DEF Wakes, Magic, Power, Link, Unicast, Broadcast, Multicast, Aspm, Filter, Gate
<1>2. /\ Mode(q) \subseteq ModeBits /\ Errors(q) \subseteq ErrorBits /\ ModeBits # ErrorBits
      /\ \A x \in ModeBits : x \notin ErrorBits
  BY DEF Mode, Errors, ModeBits, ErrorBits, SetIf
<1> QED BY <1>1, <1>2 DEF Asked, Shall

Fetching(reg) == IF reg = "mode" THEN ModeBits ELSE ErrorBits

(* A change of RxConfig by what the network core asks leaves just that.      *)
LEMMA FetchIs ==
    ASSUME NEW reg \in {"mode", "features"},
           NEW s, s = Do("get", reg, {}, {}) \o RMW("RxConfig", Fetching(reg), {})
    PROVE  /\ Fresh(s) /\ NoEphy(s)
           /\ \A r, b : r # "RxConfig" \/ b \notin Fetching(reg) => Clean(s, 1, r, b)
           /\ \A q, b : Asked(q, "RxConfig", b) /\ b \in Fetching(reg) => Ends(q, s, 1, "RxConfig", b)
<1> DEFINE w == [op |-> "get", reg |-> reg, clear |-> {}, set |-> {}]
           x == [op |-> "rd", reg |-> "RxConfig", clear |-> {}, set |-> {}]
           y == [op |-> "wr", reg |-> "RxConfig", clear |-> Fetching(reg), set |-> {}]
<1>1. reg \in Names /\ "RxConfig" \in Names /\ "RxConfig" \in PlainRegs
  BY DEF Registers, Names, PlainRegs, EriRegs, OcpRegs
<1>2. Fetching(reg) \in SUBSET Bits /\ {} \in SUBSET Bits
  BY DEF Fetching, ModeBits, ErrorBits, Bits
<1>3. "get" \in Ops /\ "rd" \in Ops /\ "wr" \in Ops
  BY DEF Ops
<1>4. s \in Seq(Accesses) /\ Len(s) = 3 /\ s[1] = w /\ s[2] = x /\ s[3] = y
  <2> DEFINE a == Do("get", reg, {}, {})
             b == Do("rd", "RxConfig", {}, {})
             c == Do("wr", "RxConfig", Fetching(reg), {})
             z == b \o c
  <2>1. a \in Seq(Accesses) /\ Len(a) = 1 /\ a[1] = w
    BY <1>1, <1>3, Bare
  <2>2. b \in Seq(Accesses) /\ Len(b) = 1 /\ b[1] = x
    BY <1>1, <1>3, Bare
  <2>3. c \in Seq(Accesses) /\ Len(c) = 1 /\ c[1] = y
    BY <1>1, <1>2, <1>3, One
  <2>4. s = a \o z
    BY DEF RMW
  <2> HIDE DEF a, b, c, w, x, y
  <2>5. /\ b \o c \in Seq(Accesses) /\ Len(b \o c) = Len(b) + Len(c)
        /\ \A i \in 1 .. Len(b) : (b \o c)[i] = b[i]
        /\ \A i \in 1 .. Len(c) : (b \o c)[Len(b) + i] = c[i]
    BY <2>2, <2>3, Joined
  <2>6. z \in Seq(Accesses) /\ Len(z) = 2 /\ z[1] = x /\ z[2] = y
    BY <2>2, <2>3, <2>5
  <2> HIDE DEF z
  <2>7. /\ a \o z \in Seq(Accesses) /\ Len(a \o z) = Len(a) + Len(z)
        /\ \A i \in 1 .. Len(a) : (a \o z)[i] = a[i]
        /\ \A i \in 1 .. Len(z) : (a \o z)[Len(a) + i] = z[i]
    BY <2>1, <2>6, Joined
  <2> DEFINE d == a \o z
  <2>8. /\ d \in Seq(Accesses) /\ Len(d) = 1 + 2 /\ d[1] = a[1]
        /\ \A i \in 1 .. 2 : d[1 + i] = z[i]
    BY <2>1, <2>6, <2>7
  <2>9. s = d
    BY <2>4
  <2> HIDE DEF d
  <2>10. Len(d) = 3 /\ d[1] = w /\ d[2] = x /\ d[3] = y
    BY <2>1, <2>6, <2>8
  <2> QED BY <2>8, <2>9, <2>10
<1>5. /\ w.op = "get" /\ w.reg = reg /\ x.op = "rd" /\ x.reg = "RxConfig"
      /\ y.op = "wr" /\ y.reg = "RxConfig" /\ y.clear = Fetching(reg) /\ y.set = {}
  OBVIOUS
<1> HIDE DEF w, x, y
<1>6. /\ \A m \in {"mode", "features"} : ~Merges(w, m) /\ ~Merges(x, m) /\ (Merges(y, m) <=> m = reg)
  BY <1>5, OnlyReception DEF Merges, Fetching
<1>7. ReadAt(s, 1) /\ ReadAt(s, 2) /\ ReadAt(s, 3)
  <2>1. Follows(s, 3, "rd")
    BY <1>4, <1>5 DEF Follows
  <2> QED BY <2>1, <1>1, <1>4, <1>5 DEF ReadAt
<1>8. FetchedAt(s, 1) /\ FetchedAt(s, 2) /\ FetchedAt(s, 3)
  BY <1>4, <1>5, <1>6 DEF FetchedAt
<1>9. \A i \in 1 .. Len(s) : i = 1 \/ i = 2 \/ i = 3
  BY <1>4
<1>10. Fresh(s)
  BY <1>4, <1>7, <1>8, <1>9 DEF Fresh
<1>11. NoEphy(s)
  BY <1>4, <1>5, <1>9 DEF NoEphy
<1>12. \A r, b : ~Mentions(s[1], r, b) /\ ~Mentions(s[2], r, b)
                   /\ (Mentions(s[3], r, b) <=> r = "RxConfig" /\ b \in Fetching(reg))
  BY <1>4, <1>5 DEF Mentions
<1>13. \A r, b : r # "RxConfig" \/ b \notin Fetching(reg) => Clean(s, 1, r, b)
  BY <1>9, <1>12 DEF Clean
<1>14. ASSUME NEW q, NEW b, Asked(q, "RxConfig", b), b \in Fetching(reg)
       PROVE  Ends(q, s, 1, "RxConfig", b)
  <2>1. Gives(q, s[3], b) <=> (reg = "mode" /\ b \in Mode(q)) \/ (reg = "features" /\ b \in Errors(q))
    BY <1>4, <1>5, <1>6 DEF Gives
  <2>2. Shall(q, "RxConfig", b) <=> b \in Mode(q) \cup Errors(q)
    BY <1>14, OnlyReception
  <2>3. Gives(q, s[3], b) <=> Shall(q, "RxConfig", b)
    BY <1>14, <2>1, <2>2, OnlyReception DEF Fetching
  <2>4. 3 \in 1 .. Len(s) /\ \A k \in (3 + 1) .. Len(s) : FALSE
    BY <1>4
  <2> QED BY <1>12, <1>14, <2>3, <2>4 DEF Ends
<1> QED BY <1>10, <1>11, <1>13, <1>14

(* Setting the receive filter up leaves it as it was asked.                  *)
LEMMA RxModeIs ==
    /\ Fresh(rtl_set_rx_mode) /\ NoEphy(rtl_set_rx_mode)
    /\ \A r, b : r # "RxConfig" \/ b \notin ModeBits => Clean(rtl_set_rx_mode, 1, r, b)
    /\ \A q, b : Asked(q, "RxConfig", b) /\ b \in ModeBits => Ends(q, rtl_set_rx_mode, 1, "RxConfig", b)
<1>1. rtl_set_rx_mode = Do("get", "mode", {}, {}) \o RMW("RxConfig", Fetching("mode"), {})
  BY DEF rtl_set_rx_mode, Fetching, ModeBits
<1>2. Fetching("mode") = ModeBits
  BY DEF Fetching
<1> QED BY <1>1, <1>2, FetchIs

(* rtl_set_rx_config_features writes the bits of the errors.                 *)
LEMMA RxFeaturesIs ==
    /\ Fresh(rtl_set_rx_config_features) /\ NoEphy(rtl_set_rx_config_features)
    /\ \A r, b : r # "RxConfig" \/ b \notin ErrorBits => Clean(rtl_set_rx_config_features, 1, r, b)
    /\ \A q, b : Asked(q, "RxConfig", b) /\ b \in ErrorBits =>
                    Ends(q, rtl_set_rx_config_features, 1, "RxConfig", b)
<1>1. rtl_set_rx_config_features = Do("get", "features", {}, {}) \o RMW("RxConfig", Fetching("features"), {})
  BY DEF rtl_set_rx_config_features, Fetching, ErrorBits
<1>2. Fetching("features") = ErrorBits
  BY DEF Fetching
<1> QED BY <1>1, <1>2, FetchIs

(* The two writers of the receive filter spoil nothing.                      *)
LEMMA RxPlain == ASSUME NEW q PROVE Plain(q, rtl_set_rx_mode) /\ Plain(q, rtl_set_rx_config_features)
BY RxModeIs, RxFeaturesIs DEF Plain, Calm, Safe

(* The three steps in which the chip's start sets the filter up, at its end. *)
RxSetup(s) == s \o rtl_init_rxcfg \o rtl_set_rx_config_features \o rtl_set_rx_mode

(* rtl_init_rxcfg clears every bit of RxConfig that may be asked for.        *)
LEMMA InitRxIs ==
    /\ Fresh(rtl_init_rxcfg) /\ NoEphy(rtl_init_rxcfg)
    /\ \A r, b : r # "RxConfig" => Clean(rtl_init_rxcfg, 1, r, b)
    /\ \A q, b : ~Shall(q, "RxConfig", b) => Ends(q, rtl_init_rxcfg, 1, "RxConfig", b)
<1> DEFINE x == rtl_init_rxcfg
<1>1. "RxConfig" \in PlainRegs /\ {} \in SUBSET Bits
  BY DEF Registers, PlainRegs, EriRegs, OcpRegs
<1>2. \A q, b : ~Shall(q, "RxConfig", b) => Ends(q, x, 1, "RxConfig", b)
  BY <1>1, PutEnds DEF rtl_init_rxcfg
<1>3. Fresh(x) /\ NoEphy(x) /\ Len(x) = 1 /\ x[1].op = "put" /\ x[1].reg = "RxConfig"
  BY <1>1, PutIs DEF rtl_init_rxcfg
<1> HIDE DEF x
<1>4. \A r, b : r # "RxConfig" => Clean(x, 1, r, b)
  BY <1>3 DEF Clean, Mentions
<1> QED BY <1>2, <1>3, <1>4 DEF x

(* The end of rtl_hw_start leaves RxConfig as it is asked for, whatever ran  *)
(* before.                                                                   *)
LEMMA RxSetupIs ==
    ASSUME NEW w, Fresh(w)
    PROVE  /\ Fresh(RxSetup(w)) /\ (NoEphy(w) => NoEphy(RxSetup(w)))
           /\ \A r, b : r # "RxConfig" /\ Clean(w, 1, r, b) => Clean(RxSetup(w), 1, r, b)
           /\ \A q, r, b : r # "RxConfig" /\ Ends(q, w, 1, r, b) => Ends(q, RxSetup(w), 1, r, b)
           /\ \A q, b : Asked(q, "RxConfig", b) => Ends(q, RxSetup(w), 1, "RxConfig", b)
<1> DEFINE x == rtl_init_rxcfg
           y == rtl_set_rx_config_features
           z == rtl_set_rx_mode
<1>2. /\ Fresh(x) /\ NoEphy(x)
      /\ \A r, b : r # "RxConfig" => Clean(x, 1, r, b)
      /\ \A q, b : ~Shall(q, "RxConfig", b) => Ends(q, x, 1, "RxConfig", b)
  BY InitRxIs
<1>4. /\ Fresh(y) /\ NoEphy(y)
      /\ \A r, b : r # "RxConfig" \/ b \notin ErrorBits => Clean(y, 1, r, b)
      /\ \A q, b : Asked(q, "RxConfig", b) /\ b \in ErrorBits => Ends(q, y, 1, "RxConfig", b)
  BY RxFeaturesIs
<1>5. /\ Fresh(z) /\ NoEphy(z)
      /\ \A r, b : r # "RxConfig" \/ b \notin ModeBits => Clean(z, 1, r, b)
      /\ \A q, b : Asked(q, "RxConfig", b) /\ b \in ModeBits => Ends(q, z, 1, "RxConfig", b)
  BY RxModeIs
<1>6. RxSetup(w) = w \o x \o y \o z
  BY DEF RxSetup
<1> HIDE DEF x, y, z
<1>7. /\ Fresh(w \o x) /\ (NoEphy(w) => NoEphy(w \o x))
      /\ Fresh(w \o x \o y) /\ (NoEphy(w) => NoEphy(w \o x \o y))
      /\ Fresh(w \o x \o y \o z) /\ (NoEphy(w) => NoEphy(w \o x \o y \o z))
  BY <1>2, <1>4, <1>5, FreshJoins, NoEphyJoins DEF Fresh
<1>8. ASSUME NEW r, NEW b, r # "RxConfig", Clean(w, 1, r, b) PROVE Clean(w \o x \o y \o z, 1, r, b)
  <2>1. Clean(w \o x, 1, r, b)
    BY <1>2, <1>8, CleanJoins DEF Fresh
  <2>2. Clean(w \o x \o y, 1, r, b)
    BY <2>1, <1>4, <1>7, <1>8, CleanJoins DEF Fresh
  <2> QED BY <2>2, <1>5, <1>7, <1>8, CleanJoins DEF Fresh
<1>9. ASSUME NEW q, NEW r, NEW b, r # "RxConfig", Ends(q, w, 1, r, b) PROVE Ends(q, w \o x \o y \o z, 1, r, b)
  <2>1. Ends(q, w \o x, 1, r, b)
    BY <1>2, <1>9, EndsJoin DEF Fresh
  <2>2. Ends(q, w \o x \o y, 1, r, b)
    BY <2>1, <1>4, <1>7, <1>9, EndsJoin DEF Fresh
  <2> QED BY <2>2, <1>5, <1>7, <1>9, EndsJoin DEF Fresh
<1>10. ASSUME NEW q, NEW b, Asked(q, "RxConfig", b) PROVE Ends(q, w \o x \o y \o z, 1, "RxConfig", b)
  <2>1. CASE b \in ModeBits
    BY <2>1, <1>5, <1>7, <1>10, EndsJoin DEF Fresh
  <2>2. CASE b \in ErrorBits
    <3>1. Ends(q, w \o x \o y, 1, "RxConfig", b)
      BY <2>2, <1>4, <1>7, <1>10, EndsJoin DEF Fresh
    <3>2. Clean(z, 1, "RxConfig", b)
      BY <2>2, <1>5, OnlyReception
    <3> QED BY <3>1, <3>2, <1>5, <1>7, EndsJoin DEF Fresh
  <2>3. CASE b \notin ModeBits \cup ErrorBits
    <3>1. ~Shall(q, "RxConfig", b)
      BY <2>3, OnlyReception
    <3>2. Clean(y, 1, "RxConfig", b) /\ Clean(z, 1, "RxConfig", b)
      BY <2>3, <1>4, <1>5
    <3>3. Ends(q, w \o x, 1, "RxConfig", b)
      BY <3>1, <1>2, EndsJoin DEF Fresh
    <3>4. Ends(q, w \o x \o y, 1, "RxConfig", b)
      BY <3>2, <3>3, <1>4, <1>7, EndsJoin DEF Fresh
    <3> QED BY <3>2, <3>4, <1>5, <1>7, EndsJoin DEF Fresh
  <2> QED BY <2>1, <2>2, <2>3
<1> QED BY <1>6, <1>7, <1>8, <1>9, <1>10

(* rtl_hw_aspm's exit from L1 spoils nothing.                                *)
LEMMA ExitL1Plain ==
    ASSUME NEW q, NEW v
    PROVE  /\ Plain(q, rtl_enable_exit_l1(v)) /\ Plain(q, rtl_disable_exit_l1(v))
           /\ \A r, c : Asked(q, r, c) => Clean(rtl_disable_exit_l1(v), 1, r, c)
<1>1. {"exit_l1"} \in SUBSET Bits /\ {} \in SUBSET Bits
  BY DEF Bits
<1>2. /\ Plain(q, OcpModify("ocp_c0ac", {}, {"exit_l1"})) /\ Plain(q, OcpModify("ocp_c0ac", {"exit_l1"}, {}))
      /\ \A r, c : Asked(q, r, c) => Clean(OcpModify("ocp_c0ac", {"exit_l1"}, {}), 1, r, c)
  BY <1>1, OcpUnasked DEF Plain, Calm, Safe
<1>3. Plain(q, EriModify("eri_d4", {}, {"exit_l1"})) /\ Plain(q, EriModify("eri_d4", {"exit_l1"}, {}))
  BY EriPiecesPlain
<1> DEFINE x == If(v \in 34..38, EriModify("eri_d4", {}, {"exit_l1"}))
           y == If(v >= 40, OcpModify("ocp_c0ac", {}, {"exit_l1"}))
           z == If(v \in 34..38, EriModify("eri_d4", {"exit_l1"}, {}))
           w == If(v >= 40, OcpModify("ocp_c0ac", {"exit_l1"}, {}))
<1>4. Plain(q, x) /\ Plain(q, y) /\ Plain(q, z) /\ Plain(q, w)
  BY <1>2, <1>3, IfPlain
<1>5. rtl_enable_exit_l1(v) = x \o y /\ rtl_disable_exit_l1(v) = z \o w
  BY DEF rtl_enable_exit_l1, rtl_disable_exit_l1
<1>6. ASSUME NEW r, NEW c, Asked(q, r, c) PROVE Clean(z, 1, r, c) /\ Clean(w, 1, r, c)
  <2>1. Clean(<<>>, 1, r, c)
    BY DEF Clean
  <2>2. "eri_d4" \in EriRegs
    BY DEF EriRegs
  <2>3. Clean(EriModify("eri_d4", {"exit_l1"}, {}), 1, r, c)
    <3>1. Changes(EriModify("eri_d4", {"exit_l1"}, {}), "eri_d4", {"exit_l1"}, {})
      BY <1>1, <2>2, EriModifyChanges
    <3>2. r # "eri_d4"
      BY <1>6, <2>2, Unasked
    <3> QED BY <3>1, <3>2, ChangeClean
  <2> QED BY <2>1, <2>3, <1>2, <1>6 DEF If
<1> HIDE DEF x, y, z, w
<1>7. \A r, c : Asked(q, r, c) => Clean(z \o w, 1, r, c)
  BY <1>4, <1>6, CleanJoins DEF Plain, Calm, Fresh
<1> QED BY <1>4, <1>5, <1>7, PlainJoins

(* rtl_jumbo_config spoils nothing, on any version.                          *)
LEMMA JumboPlain == ASSUME NEW q, NEW v, NEW j PROVE Plain(q, rtl_jumbo_config(v, j))
<1>1. /\ "Config3" \in PlainRegs /\ "Config4" \in PlainRegs
  BY DEF Registers, PlainRegs, EriRegs, OcpRegs
<1>2. ASSUME NEW b \in Bits
      PROVE  /\ SetIf(~j, {b}) \in SUBSET Bits /\ SetIf(j, {b}) \in SUBSET Bits
             /\ \A c \in SetIf(~j, {b}) \cup SetIf(j, {b}) : c = b
  BY DEF SetIf
<1>3. "Jumbo_En0" \in Bits /\ "Jumbo_En1" \in Bits
  BY DEF Bits
<1>4. ~Asked(q, "Config3", "Jumbo_En0") /\ ~Asked(q, "Config4", "Jumbo_En1")
  BY Unasked
<1>5. Plain(q, jumbo_bit("Config3", "Jumbo_En0", j)) /\ Plain(q, jumbo_bit("Config4", "Jumbo_En1", j))
  BY <1>1, <1>2, <1>3, <1>4, RMWPlain DEF jumbo_bit
<1> DEFINE x == If(v \in 18..26 \cup {28, 31, 32, 33}, jumbo_bit("Config3", "Jumbo_En0", j))
           y == If(v \in {17} \cup (18..26) \cup (31..33), jumbo_bit("Config4", "Jumbo_En1", j))
<1>6. Plain(q, x) /\ Plain(q, y) /\ rtl_jumbo_config(v, j) = Unlocked(x \o y)
  BY <1>5, IfPlain DEF rtl_jumbo_config
<1> HIDE DEF x, y
<1> QED BY <1>6, PlainJoins, UnlockedPlain

-----------------------------------------------------------------------------
(* The PHY of the PCIe link is accessed after both bits were switched off,   *)
(* and before either is mentioned again.                                     *)
Cleared(s, i, r, c) ==
    \E j \in 1 .. (i - 1) : /\ Mentions(s[j], r, c) /\ c \notin s[j].set
                            /\ \A k \in (j + 1) .. (i - 1) : ~Mentions(s[k], r, c)
Sheltered(s) ==
    \A i \in 1 .. Len(s) : s[i].op = "touch" /\ s[i].reg = "ephy" =>
        \A r, c : Aspm(r, c) => Cleared(s, i, r, c)
SwitchedOff(s) == \A r, c : Aspm(r, c) => Cleared(s, Len(s) + 1, r, c)

(* A script that leaves the link's PHY alone needs no shelter.               *)
LEMMA NoEphySheltered == ASSUME NEW s, NoEphy(s) PROVE Sheltered(s)
BY DEF NoEphy, Sheltered

(* A bit left off was cleared by the script's last write of it.              *)
LEMMA EndsCleared ==
    ASSUME NEW q, NEW s, Fresh(s), NEW r, NEW c, Ends(q, s, 1, r, c), ~Shall(q, r, c)
    PROVE  Cleared(s, Len(s) + 1, r, c)
<1>1. Len(s) \in Nat /\ (Len(s) + 1) - 1 = Len(s)
  BY DEF Fresh
<1>2. PICK j \in 1 .. Len(s) : /\ Mentions(s[j], r, c) /\ ~Gives(q, s[j], c)
                               /\ \A k \in (j + 1) .. Len(s) : ~Mentions(s[k], r, c)
  BY DEF Ends
<1>3. c \notin s[j].set
  BY <1>2 DEF Gives
<1> QED BY <1>1, <1>2, <1>3 DEF Cleared

(* A bit cleared stays cleared, in either part.                              *)
LEMMA ClearedJoins ==
    ASSUME NEW s \in Seq(Accesses), NEW u \in Seq(Accesses), NEW r, NEW c
    PROVE  /\ \A i \in 1 .. (Len(s) + 1) : Cleared(s, i, r, c) => Cleared(s \o u, i, r, c)
           /\ \A i \in 1 .. (Len(u) + 1) : Cleared(u, i, r, c) => Cleared(s \o u, Len(s) + i, r, c)
           /\ Cleared(s, Len(s) + 1, r, c) /\ Clean(u, 1, r, c) =>
                 \A i \in 1 .. (Len(u) + 1) : Cleared(s \o u, Len(s) + i, r, c)
<1> DEFINE z == s \o u
           m == Len(s)
           M(a) == Mentions(a, r, c)
           O(a) == c \notin a.set
           K(t, i) == \E j \in 1 .. (i - 1) : /\ M(t[j]) /\ O(t[j])
                                              /\ \A k \in (j + 1) .. (i - 1) : ~M(t[k])
<1>1. /\ Len(z) = m + Len(u) /\ m \in Nat /\ Len(u) \in Nat
      /\ \A i \in 1 .. m : z[i] = s[i]
      /\ \A i \in 1 .. Len(u) : z[m + i] = u[i]
  BY Joined
<1>2. /\ \A t, i : Cleared(t, i, r, c) <=> K(t, i)
      /\ Clean(u, 1, r, c) <=> \A j \in 1 .. Len(u) : ~M(u[j])
  BY DEF Cleared, Clean
<1> HIDE DEF z, M, O
<1>3. ASSUME NEW i \in 1 .. (m + 1), K(s, i) PROVE K(z, i)
  <2>1. PICK j \in 1 .. (i - 1) : M(s[j]) /\ O(s[j]) /\ \A k \in (j + 1) .. (i - 1) : ~M(s[k])
    BY <1>3
  <2>2. \A k \in j .. (i - 1) : z[k] = s[k]
    BY <1>1
  <2> QED BY <2>1, <2>2
<1>4. ASSUME NEW i \in 1 .. (Len(u) + 1), K(u, i) PROVE K(z, m + i)
  <2>1. PICK j \in 1 .. (i - 1) : M(u[j]) /\ O(u[j]) /\ \A k \in (j + 1) .. (i - 1) : ~M(u[k])
    BY <1>4
  <2>2. m + j \in 1 .. ((m + i) - 1) /\ z[m + j] = u[j]
    BY <1>1
  <2>3. ASSUME NEW k \in (m + j + 1) .. ((m + i) - 1) PROVE ~M(z[k])
    <3>1. k - m \in (j + 1) .. (i - 1) /\ k - m \in 1 .. Len(u) /\ m + (k - m) = k
      BY <1>1
    <3>2. z[m + (k - m)] = u[k - m]
      BY <3>1, <1>1
    <3> QED BY <2>1, <3>1, <3>2
  <2> QED BY <2>1, <2>2, <2>3
<1>5. ASSUME K(s, m + 1), \A j \in 1 .. Len(u) : ~M(u[j]), NEW i \in 1 .. (Len(u) + 1) PROVE K(z, m + i)
  <2>1. PICK j \in 1 .. m : M(s[j]) /\ O(s[j]) /\ \A k \in (j + 1) .. m : ~M(s[k])
    BY <1>5, <1>1
  <2>2. j \in 1 .. ((m + i) - 1) /\ z[j] = s[j]
    BY <1>1
  <2>3. ASSUME NEW k \in (j + 1) .. ((m + i) - 1) PROVE ~M(z[k])
    <3>1. CASE k \in 1 .. m
      <4>1. k \in (j + 1) .. m BY <3>1, <1>1
      <4> QED BY <2>1, <3>1, <4>1, <1>1
    <3>2. CASE k \notin 1 .. m
      <4>1. k - m \in 1 .. Len(u) /\ m + (k - m) = k
        BY <3>2, <1>1
      <4>2. z[m + (k - m)] = u[k - m]
        BY <4>1, <1>1
      <4> QED BY <4>1, <4>2, <1>5
    <3> QED BY <3>1, <3>2
  <2> QED BY <2>1, <2>2, <2>3
<1> QED BY <1>2, <1>3, <1>4, <1>5 DEF z

(* Each part is sheltered, or the first switches ASPM off for the second.    *)
LEMMA ShelteredJoins ==
    ASSUME NEW s, NEW u, Fresh(s), Fresh(u), Sheltered(s),
           Sheltered(u) \/ (SwitchedOff(s) /\ \A r, c : Aspm(r, c) => Clean(u, 1, r, c))
    PROVE  Sheltered(s \o u)
<1> DEFINE z == s \o u
           m == Len(s)
           T(a) == a.op = "touch" /\ a.reg = "ephy"
<1>1. s \in Seq(Accesses) /\ u \in Seq(Accesses)
  BY DEF Fresh
<1>2. /\ Len(z) = m + Len(u) /\ m \in Nat /\ Len(u) \in Nat
      /\ \A i \in 1 .. m : z[i] = s[i]
      /\ \A i \in 1 .. Len(u) : z[m + i] = u[i]
  BY <1>1, Joined
<1>3. \A r, c :
        /\ \A i \in 1 .. (m + 1) : Cleared(s, i, r, c) => Cleared(z, i, r, c)
        /\ \A i \in 1 .. (Len(u) + 1) : Cleared(u, i, r, c) => Cleared(z, m + i, r, c)
        /\ Cleared(s, m + 1, r, c) /\ Clean(u, 1, r, c) =>
                 \A i \in 1 .. (Len(u) + 1) : Cleared(z, m + i, r, c)
  BY <1>1, ClearedJoins
<1>4. /\ \A i \in 1 .. m : T(s[i]) => \A r, c : Aspm(r, c) => Cleared(s, i, r, c)
      /\ Sheltered(u) => \A i \in 1 .. Len(u) : T(u[i]) => \A r, c : Aspm(r, c) => Cleared(u, i, r, c)
      /\ SwitchedOff(s) => \A r, c : Aspm(r, c) => Cleared(s, m + 1, r, c)
      /\ Sheltered(z) <=> \A i \in 1 .. Len(z) : T(z[i]) => \A r, c : Aspm(r, c) => Cleared(z, i, r, c)
  BY DEF Sheltered, SwitchedOff
<1> HIDE DEF z, m, T
<1>5. ASSUME NEW i \in 1 .. Len(z), T(z[i]), NEW r, NEW c, Aspm(r, c) PROVE Cleared(z, i, r, c)
  <2>1. CASE i \in 1 .. m
    <3>1. i \in 1 .. (m + 1)
      BY <2>1, <1>2
    <3> QED BY <2>1, <3>1, <1>2, <1>3, <1>4, <1>5
  <2>2. CASE i \notin 1 .. m
    <3>1. i - m \in 1 .. Len(u) /\ i - m \in 1 .. (Len(u) + 1) /\ m + (i - m) = i
      BY <2>2, <1>2
    <3>2. z[m + (i - m)] = u[i - m]
      BY <3>1, <1>2
    <3>3. T(u[i - m])
      BY <3>1, <3>2, <1>5
    <3>4. CASE Sheltered(u)
      <4>1. Cleared(u, i - m, r, c)
        BY <3>1, <3>3, <3>4, <1>4, <1>5
      <4>2. Cleared(z, m + (i - m), r, c)
        BY <3>1, <4>1, <1>3
      <4> QED BY <3>1, <4>2
    <3>5. CASE SwitchedOff(s) /\ \A x, y : Aspm(x, y) => Clean(u, 1, x, y)
      <4>1. Cleared(s, m + 1, r, c) /\ Clean(u, 1, r, c)
        BY <3>5, <1>4, <1>5
      <4>2. Cleared(z, m + (i - m), r, c)
        BY <3>1, <4>1, <1>3
      <4> QED BY <3>1, <4>2
    <3> QED BY <3>4, <3>5
  <2> QED BY <2>1, <2>2
<1> QED BY <1>4, <1>5 DEF z

(* The start functions themselves never touch ASPM.                          *)
LEMMA ConfigAspmClean ==
    ASSUME NEW v, NEW r, NEW c, Aspm(r, c)
    PROVE  Clean(rtl_hw_config(v), 1, r, c)
<1> DEFINE p == [v |-> v, aspm |-> TRUE]
           q == [v |-> v, aspm |-> FALSE]
<1>1. p.v = v /\ p.aspm /\ q.v = v /\ ~q.aspm
  OBVIOUS
<1> HIDE DEF p, q
<1>2. Calm(p, rtl_hw_config(v)) /\ Calm(q, rtl_hw_config(v))
  BY <1>1, HwConfigCalm
<1>3. /\ Asked(p, r, c) /\ Shall(p, r, c) /\ Asked(q, r, c) /\ ~Shall(q, r, c) /\ r # "RxConfig"
  BY <1>1, OnlyAspm
<1> QED BY <1>2, <1>3, CalmTwice

(* Disabling ASPM switches off both of its bits.                             *)
LEMMA AspmOffSwitchesOff == ASSUME NEW v \in Nat, v >= 32, NEW b PROVE SwitchedOff(AspmOff(v, b))
<1> DEFINE q == [v |-> v, aspm |-> FALSE]
<1>1. ~q.aspm
  OBVIOUS
<1> HIDE DEF q
<1>2. \A r, c : Aspm(r, c) => ~Shall(q, r, c)
  BY <1>1, OnlyAspm
<1>3. \A r, c : Aspm(r, c) => Ends(q, AspmOff(v, b), 1, r, c)
  BY <1>2, AspmOffIs
<1> QED BY <1>2, <1>3, AspmOffIs, EndsCleared DEF SwitchedOff

(* The middle of the chip's start: ASPM off, the start function, ASPM as it  *)
(* is allowed.                                                               *)
Core(v, b) == AspmOff(v, b) \o rtl_hw_config(v) \o rtl_enable_exit_l1(v) \o AspmOn(v, b)

(* That middle is sheltered and leaves ASPM, the filter and the gate as they *)
(* shall be.                                                                 *)
LEMMA CoreIs ==
    ASSUME NEW q, Suits(q)
    PROVE  /\ Calm(q, Core(q.v, q.board))
           /\ q.v >= 32 => /\ Sheltered(Core(q.v, q.board))
                           /\ \A r, c : Aspm(r, c) => Ends(q, Core(q.v, q.board), 1, r, c)
           /\ Filter(q, "eri_dc", "filter") => Ends(q, Core(q.v, q.board), 1, "eri_dc", "filter")
           /\ Gate(q, "MISC", "RXDV_GATED_EN") => Ends(q, Core(q.v, q.board), 1, "MISC", "RXDV_GATED_EN")
<1> DEFINE v == q.v
           w == AspmOff(q.v, q.board)
           x == rtl_hw_config(q.v)
           y == rtl_enable_exit_l1(q.v)
           z == AspmOn(q.v, q.board)
<1>0. v \in Nat /\ v \in Versions
  BY DEF Suits, Versions
<1>1. /\ Fresh(w) /\ NoEphy(w) /\ (v < 32 => w = <<>>)
      /\ \A r, c : Asked(q, r, c) /\ ~Aspm(r, c) => Clean(w, 1, r, c)
      /\ v >= 32 => \A r, c : Aspm(r, c) /\ ~Shall(q, r, c) => Ends(q, w, 1, r, c)
  BY <1>0, AspmOffIs
<1>2. Calm(q, x)
  BY HwConfigCalm
<1>3. /\ Filter(q, "eri_dc", "filter") => Ends(q, x, 1, "eri_dc", "filter")
      /\ Gate(q, "MISC", "RXDV_GATED_EN") => Ends(q, x, 1, "MISC", "RXDV_GATED_EN")
  BY <1>0, HwConfigEnds
<1>4. Plain(q, y)
  BY ExitL1Plain
<1>5. Plain(q, z) /\ (v >= 32 /\ q.aspm => \A r, c : Aspm(r, c) => Ends(q, z, 1, r, c))
  BY AspmOnIs
<1>6. /\ v >= 32 => SwitchedOff(w)
      /\ \A r, c : Aspm(r, c) => Clean(x, 1, r, c)
  BY <1>0, AspmOffSwitchesOff, ConfigAspmClean
<1>7. Core(q.v, q.board) = w \o x \o y \o z
  BY DEF Core
<1>8. \A r, c : Aspm(r, c) => Asked(q, r, c) /\ (Shall(q, r, c) <=> q.aspm)
  BY OnlyAspm
<1>9. \A r, c : Clean(<<>>, 1, r, c)
  BY DEF Clean
<1> HIDE DEF v, w, x, y, z
<1>10. Fresh(w) /\ Fresh(x) /\ Fresh(y) /\ Fresh(z) /\ NoEphy(y) /\ NoEphy(z)
  BY <1>1, <1>2, <1>4, <1>5 DEF Plain, Calm
<1>11. Fresh(w \o x) /\ Fresh(w \o x \o y) /\ Fresh(w \o x \o y \o z)
  BY <1>10, FreshJoins
<1>12. \A s : Fresh(s) => s \in Seq(Accesses)
  BY DEF Fresh
<1>13. ASSUME NEW r, NEW c, Asked(q, r, c) PROVE Safe(q, x, 1, r, c) /\ Safe(q, y, 1, r, c) /\ Safe(q, z, 1, r, c)
  BY <1>2, <1>4, <1>5, <1>13 DEF Plain, Calm
<1>14. ASSUME NEW r, NEW c, Ends(q, w, 1, r, c) \/ Ends(q, x, 1, r, c), Asked(q, r, c)
       PROVE  Ends(q, w \o x \o y \o z, 1, r, c)
  <2>1. Ends(q, w \o x, 1, r, c)
    BY <1>10, <1>12, <1>13, <1>14, EndsJoin
  <2>2. Ends(q, w \o x \o y, 1, r, c)
    BY <2>1, <1>10, <1>11, <1>12, <1>13, <1>14, EndsJoin
  <2> QED BY <2>2, <1>10, <1>11, <1>12, <1>13, <1>14, EndsJoin
<1>15. ASSUME NEW r, NEW c, Clean(w, 1, r, c), Asked(q, r, c)
       PROVE  Safe(q, w \o x \o y \o z, 1, r, c)
  <2>1. Safe(q, w \o x, 1, r, c)
    BY <1>10, <1>12, <1>13, <1>15, SafeJoins DEF Safe
  <2>2. Safe(q, w \o x \o y, 1, r, c)
    BY <2>1, <1>10, <1>11, <1>12, <1>13, <1>15, SafeJoins
  <2> QED BY <2>2, <1>10, <1>11, <1>12, <1>13, <1>15, SafeJoins
<1>16. ASSUME v >= 32, NEW r, NEW c, Aspm(r, c) PROVE Ends(q, w \o x \o y \o z, 1, r, c)
  <2>1. CASE q.aspm
    BY <2>1, <1>5, <1>10, <1>11, <1>12, <1>16, EndsJoin
  <2>2. CASE ~q.aspm
    BY <2>2, <1>1, <1>8, <1>14, <1>16
  <2> QED BY <2>1, <2>2
<1>17. ASSUME NEW r, NEW c, Asked(q, r, c) PROVE Safe(q, w \o x \o y \o z, 1, r, c)
  <2>1. CASE ~Aspm(r, c)
    BY <2>1, <1>1, <1>15, <1>17
  <2>2. CASE Aspm(r, c) /\ v >= 32
    BY <2>2, <1>16 DEF Safe
  <2>3. CASE v < 32
    BY <2>3, <1>1, <1>9, <1>15, <1>17
  <2>4. v < 32 \/ v >= 32
    BY <1>0
  <2> QED BY <2>1, <2>2, <2>3, <2>4
<1>18. Calm(q, w \o x \o y \o z)
  BY <1>11, <1>17 DEF Calm
<1>19. ASSUME v >= 32 PROVE Sheltered(w \o x \o y \o z)
  <2>1. Sheltered(w) /\ Sheltered(y) /\ Sheltered(z)
    BY <1>1, <1>10, NoEphySheltered
  <2>2. Sheltered(w \o x)
    BY <2>1, <1>6, <1>10, <1>19, ShelteredJoins
  <2>3. Sheltered(w \o x \o y)
    BY <2>1, <2>2, <1>10, <1>11, ShelteredJoins
  <2> QED BY <2>1, <2>3, <1>10, <1>11, ShelteredJoins
<1>20. /\ Filter(q, "eri_dc", "filter") => Ends(q, w \o x \o y \o z, 1, "eri_dc", "filter")
       /\ Gate(q, "MISC", "RXDV_GATED_EN") => Ends(q, w \o x \o y \o z, 1, "MISC", "RXDV_GATED_EN")
  BY <1>3, <1>14 DEF Asked
<1> QED BY <1>7, <1>16, <1>18, <1>19, <1>20 DEF v

(* Locking the configuration registers around a script keeps its shelter.    *)
LEMMA UnlockedSheltered == ASSUME NEW s, Fresh(s), Sheltered(s) PROVE Sheltered(Unlocked(s))
<1> DEFINE x == Do("unlock", "Cfg9346", {}, {})
           y == Do("lock", "Cfg9346", {}, {})
<1>1. Fresh(x) /\ Fresh(y) /\ NoEphy(x) /\ NoEphy(y)
  BY LockClean DEF Names
<1>2. Unlocked(s) = x \o s \o y
  BY DEF Unlocked
<1> HIDE DEF x, y
<1>3. Sheltered(x) /\ Sheltered(y)
  BY <1>1, NoEphySheltered
<1>4. Sheltered(x \o s) /\ Fresh(x \o s)
  BY <1>1, <1>3, ShelteredJoins, FreshJoins
<1> QED BY <1>1, <1>2, <1>3, <1>4, ShelteredJoins

(* What a reset must have set up at its end.                                 *)
Renewed(q, s) ==
    /\ q.v >= 32 => \A r, c : Aspm(r, c) => Ends(q, s, 1, r, c)
    /\ Filter(q, "eri_dc", "filter") => Ends(q, s, 1, "eri_dc", "filter")
    /\ Gate(q, "MISC", "RXDV_GATED_EN") => Ends(q, s, 1, "MISC", "RXDV_GATED_EN")
    /\ \A b : Asked(q, "RxConfig", b) => Ends(q, s, 1, "RxConfig", b)

(* rtl_hw_start renews what is asked of the receiver and of ASPM, and spoils *)
(* nothing.                                                                  *)
LEMMA HwStartIs ==
    ASSUME NEW q, Suits(q), NEW j
    PROVE  /\ Calm(q, rtl_hw_start(q.v, q.board, j)) /\ Renewed(q, rtl_hw_start(q.v, q.board, j))
           /\ q.v >= 32 => Sheltered(rtl_hw_start(q.v, q.board, j))
<1> DEFINE core == Core(q.v, q.board)
           x == Unlocked(core)
           y == rtl_jumbo_config(q.v, j)
           s == rtl_hw_start(q.v, q.board, j)
<1>1. /\ Calm(q, core)
      /\ q.v >= 32 => Sheltered(core) /\ \A r, c : Aspm(r, c) => Ends(q, core, 1, r, c)
      /\ Filter(q, "eri_dc", "filter") => Ends(q, core, 1, "eri_dc", "filter")
      /\ Gate(q, "MISC", "RXDV_GATED_EN") => Ends(q, core, 1, "MISC", "RXDV_GATED_EN")
  BY CoreIs
<1>2. Plain(q, y)
  BY JumboPlain
<1>3. s = RxSetup(x \o y)
  BY DEF rtl_hw_start, RxSetup, Core, AspmOff, AspmOn
<1> HIDE DEF core, y, s
<1>4. /\ Calm(q, x) /\ Fresh(core) /\ Fresh(x)
      /\ q.v >= 32 => Sheltered(x)
      /\ \A r, c : Ends(q, core, 1, r, c) => Ends(q, x, 1, r, c)
  BY <1>1, UnlockedCalm, UnlockedKeeps, UnlockedSheltered DEF Calm
<1> HIDE DEF x
<1> DEFINE w == x \o y
<1>5. /\ Fresh(y) /\ NoEphy(y) /\ Calm(q, y)
  BY <1>2 DEF Plain, Calm
<1>6. /\ Calm(q, w) /\ Fresh(w)
      /\ q.v >= 32 => Sheltered(w)
  BY <1>4, <1>5, CalmJoins, NoEphySheltered, ShelteredJoins DEF Calm
<1>7. \A r, c : Asked(q, r, c) /\ Ends(q, core, 1, r, c) => Ends(q, w, 1, r, c)
  BY <1>4, <1>5, EndsAmong
<1> HIDE DEF w
<1>8. /\ Fresh(s)
      /\ \A r, c : r # "RxConfig" /\ Clean(w, 1, r, c) => Clean(s, 1, r, c)
      /\ \A r, c : r # "RxConfig" /\ Ends(q, w, 1, r, c) => Ends(q, s, 1, r, c)
      /\ \A c : Asked(q, "RxConfig", c) => Ends(q, s, 1, "RxConfig", c)
  BY <1>3, <1>6, RxSetupIs DEF w
<1>9. Calm(q, s)
  <2>1. ASSUME NEW r, NEW c, Asked(q, r, c) PROVE Safe(q, s, 1, r, c)
    <3>1. Safe(q, w, 1, r, c)
      BY <1>6, <2>1 DEF Calm
    <3> QED BY <1>8, <2>1, <3>1 DEF Safe
  <2> QED BY <1>8, <2>1 DEF Calm
<1>10. Renewed(q, s)
  <2>1. \A r, c : Aspm(r, c) => Asked(q, r, c) /\ r # "RxConfig"
    BY OnlyAspm
  <2>2. /\ Filter(q, "eri_dc", "filter") => Asked(q, "eri_dc", "filter")
        /\ Gate(q, "MISC", "RXDV_GATED_EN") => Asked(q, "MISC", "RXDV_GATED_EN")
    BY DEF Asked
  <2> QED BY <1>1, <1>7, <1>8, <2>1, <2>2 DEF Renewed
<1>11. ASSUME q.v >= 32 PROVE Sheltered(s)
  <2> DEFINE a == rtl_init_rxcfg
             b == rtl_set_rx_config_features
             c == rtl_set_rx_mode
  <2>1. Fresh(a) /\ Fresh(b) /\ Fresh(c) /\ NoEphy(a) /\ NoEphy(b) /\ NoEphy(c)
    BY InitRxIs, RxFeaturesIs, RxModeIs
  <2>2. s = w \o a \o b \o c
    BY <1>3 DEF RxSetup, w
  <2> HIDE DEF a, b, c
  <2>3. Sheltered(a) /\ Sheltered(b) /\ Sheltered(c)
    BY <2>1, NoEphySheltered
  <2>4. Sheltered(w \o a) /\ Fresh(w \o a)
    BY <1>6, <1>11, <2>1, <2>3, ShelteredJoins, FreshJoins
  <2>5. Sheltered(w \o a \o b) /\ Fresh(w \o a \o b)
    BY <2>1, <2>3, <2>4, ShelteredJoins, FreshJoins
  <2> QED BY <2>1, <2>2, <2>3, <2>5, ShelteredJoins
<1> QED BY <1>9, <1>10, <1>11 DEF s

(* The teardown closes the receiver and changes nothing else.                *)
LEMMA CleanupIs ==
    ASSUME NEW v
    PROVE  /\ Fresh(rtl8169_cleanup(v)) /\ NoEphy(rtl8169_cleanup(v))
           /\ \A r, c : r \notin {"RxConfig", "MISC"} => Clean(rtl8169_cleanup(v), 1, r, c)
<1> DEFINE x == rtl_rx_close
           y == If(v >= 40, rtl_enable_rxdvgate)
<1>0. /\ "RxConfig" \in PlainRegs /\ "MISC" \in PlainRegs
      /\ {"AcceptOk", "AcceptAllPhys", "AcceptErr"} \in SUBSET Bits
      /\ {"RXDV_GATED_EN"} \in SUBSET Bits /\ {} \in SUBSET Bits
      /\ {"AcceptOk", "AcceptAllPhys", "AcceptErr"} \notin {ModeBits, ErrorBits}
  BY DEF PlainRegs, Registers, EriRegs, OcpRegs, Bits, ModeBits, ErrorBits
<1>1. /\ Fresh(x) /\ NoEphy(x) /\ Changes(x, "RxConfig", {"AcceptOk", "AcceptAllPhys", "AcceptErr"}, {})
  BY <1>0, RMWChanges DEF rtl_rx_close
<1>2. /\ Fresh(rtl_enable_rxdvgate) /\ NoEphy(rtl_enable_rxdvgate)
      /\ Changes(rtl_enable_rxdvgate, "MISC", {}, {"RXDV_GATED_EN"})
  BY <1>0, RMWChanges DEF rtl_enable_rxdvgate
<1>3. /\ \A r, c : r # "RxConfig" => Clean(x, 1, r, c)
      /\ \A r, c : r # "MISC" => Clean(rtl_enable_rxdvgate, 1, r, c)
  BY <1>1, <1>2, ChangeClean
<1>4. Fresh(y) /\ NoEphy(y) /\ \A r, c : r # "MISC" => Clean(y, 1, r, c)
  <2>1. Fresh(<<>>) /\ NoEphy(<<>>) /\ \A r, c : Clean(<<>>, 1, r, c)
    BY EmptyPlain DEF NoEphy, Clean
  <2> QED BY <1>2, <1>3, <2>1 DEF If
<1>5. rtl8169_cleanup(v) = x \o y
  BY DEF rtl8169_cleanup
<1> HIDE DEF x, y
<1>6. Fresh(x \o y) /\ NoEphy(x \o y)
  BY <1>1, <1>4, FreshJoins, NoEphyJoins DEF Fresh
<1>7. \A r, c : r \notin {"RxConfig", "MISC"} => Clean(x \o y, 1, r, c)
  BY <1>1, <1>3, <1>4, CleanJoins DEF Fresh
<1> QED BY <1>5, <1>6, <1>7

(* So does rtl_reset_work.                                                   *)
LEMMA ResetIs ==
    ASSUME NEW q, Suits(q), NEW j
    PROVE  /\ Calm(q, rtl_reset_work(q.v, q.board, j)) /\ Renewed(q, rtl_reset_work(q.v, q.board, j))
           /\ q.v >= 32 => Sheltered(rtl_reset_work(q.v, q.board, j))
<1> DEFINE x == rtl8169_cleanup(q.v)
           y == rtl_hw_start(q.v, q.board, j)
<1>1. /\ Fresh(x) /\ NoEphy(x) /\ \A r, c : r \notin {"RxConfig", "MISC"} => Clean(x, 1, r, c)
  BY CleanupIs
<1>2. Calm(q, y) /\ Renewed(q, y) /\ (q.v >= 32 => Sheltered(y))
  BY HwStartIs
<1>3. rtl_reset_work(q.v, q.board, j) = x \o y
  BY DEF rtl_reset_work
<1> HIDE DEF x, y
<1>4. Fresh(y) /\ Fresh(x \o y) /\ x \in Seq(Accesses) /\ y \in Seq(Accesses)
  BY <1>1, <1>2, FreshJoins DEF Calm, Fresh
<1>5. \A r, c : Ends(q, y, 1, r, c) => Ends(q, x \o y, 1, r, c)
  BY <1>4, EndsJoin
<1>6. Renewed(q, x \o y)
  BY <1>2, <1>5 DEF Renewed
<1>7. ASSUME NEW r, NEW c, Asked(q, r, c) PROVE Safe(q, x \o y, 1, r, c)
  <2>1. CASE r \notin {"RxConfig", "MISC"}
    BY <1>1, <1>2, <1>4, <1>7, <2>1, SafeJoins DEF Calm, Safe
  <2>2. CASE r = "RxConfig"
    BY <1>6, <1>7, <2>2 DEF Renewed, Safe
  <2>3. CASE r = "MISC"
    <3>1. Gate(q, "MISC", "RXDV_GATED_EN") /\ c = "RXDV_GATED_EN"
      BY <1>7, <2>3 DEF Asked, Wakes, Magic, Power, Link, Unicast, Broadcast, Multicast, Aspm, Filter, Gate, Reception
    <3> QED BY <1>6, <2>3, <3>1 DEF Renewed, Safe
  <2> QED BY <2>1, <2>2, <2>3
<1>8. q.v >= 32 => Sheltered(x \o y)
  BY <1>1, <1>2, <1>4, NoEphySheltered, ShelteredJoins
<1> QED BY <1>3, <1>4, <1>6, <1>7, <1>8 DEF Calm

-----------------------------------------------------------------------------
(* What shall wake the system, bit by bit.                                   *)
LEMMA ShallWake ==
    ASSUME NEW q
    PROVE  /\ Shall(q, "Config3", "LinkUp") <=> "PHY" \in q.wol
           /\ Shall(q, "Config5", "UWF") <=> "UCAST" \in q.wol
           /\ Shall(q, "Config5", "BWF") <=> "BCAST" \in q.wol
           /\ Shall(q, "Config5", "MWF") <=> "MCAST" \in q.wol
           /\ Shall(q, "Config5", "LanWake") <=> q.wol # {}
           /\ rtl_is_8125(q.v) => (Shall(q, "ocp_c0b6", "b0") <=> "MAGIC" \in q.wol)
           /\ rtl_is_8168evl_up(q.v) => (Shall(q, "eri_dc", "MagicPacket_v2") <=> "MAGIC" \in q.wol)
           /\ ~rtl_is_8125(q.v) /\ ~rtl_is_8168evl_up(q.v) =>
                (Shall(q, "Config3", "MagicPacket") <=> "MAGIC" \in q.wol)
           /\ PmeConfig1(q.v) => (Shall(q, "Config1", "PMEnable") <=> q.wol # {})
           /\ PmeConfig2(q.v) => (Shall(q, "Config2", "PME_SIGNAL") <=> q.wol # {})
           /\ HasD3Pll(q.v) /\ ~q.board.dash => (Shall(q, "PMCH", "D3_NO_PLL_DOWN") <=> q.wol # {})
BY DEF Shall, Magic, Power, Link, Unicast, Broadcast, Multicast, Aspm, Filter, Reception

(* A change of one bit to what it shall be.                                  *)
LEMMA OneBit ==
    ASSUME NEW q, NEW reg \in PlainRegs, reg # "RxConfig", NEW bit \in Bits,
           NEW clear \in SUBSET {bit}, NEW set \in SUBSET {bit}, clear \cup set = {bit},
           bit \in set <=> Shall(q, reg, bit)
    PROVE  Plain(q, RMW(reg, clear, set)) /\ Ends(q, RMW(reg, clear, set), 1, reg, bit)
<1>1. clear \in SUBSET Bits /\ set \in SUBSET Bits /\ \A b \in clear \cup set : b = bit
  OBVIOUS
<1>2. /\ Fresh(RMW(reg, clear, set)) /\ NoEphy(RMW(reg, clear, set))
      /\ Changes(RMW(reg, clear, set), reg, clear, set)
  BY <1>1, RMWChanges
<1>3. Plain(q, RMW(reg, clear, set))
  BY <1>1, <1>2, ChangePlain
<1>4. RMW(reg, clear, set) \in Seq(Accesses) /\ bit \in clear \cup set
  BY <1>2 DEF Fresh
<1>5. Ends(q, RMW(reg, clear, set), 1, reg, bit)
  BY <1>2, <1>4, ChangeEnds
<1> QED BY <1>3, <1>5

(* One entry of the table of rtl8169_set_wol.                                *)
LEMMA WolBitIs ==
    ASSUME NEW q, NEW reg \in {"Config3", "Config5"}, NEW bit \in Bits, NEW any,
           (q.wol \cap any # {}) <=> Shall(q, reg, bit)
    PROVE  Plain(q, wol_bit(q.wol, any, reg, bit)) /\ Ends(q, wol_bit(q.wol, any, reg, bit), 1, reg, bit)
<1> DEFINE set == SetIf(q.wol \cap any # {}, {bit})
<1>1. reg \in PlainRegs /\ reg # "RxConfig"
  BY DEF PlainRegs, Registers, EriRegs, OcpRegs
<1>2. set \in SUBSET {bit} /\ {bit} \in SUBSET {bit} /\ {bit} \cup set = {bit} /\ (bit \in set <=> Shall(q, reg, bit))
  BY DEF SetIf
<1> HIDE DEF set
<1>3. Plain(q, RMW(reg, {bit}, set)) /\ Ends(q, RMW(reg, {bit}, set), 1, reg, bit)
  BY <1>1, <1>2, OneBit
<1> QED BY <1>3 DEF wol_bit, set

(* The pieces of __rtl8169_set_wol.                                          *)
WolMagicEri(v, o) == If(rtl_is_8168evl_up(v), EriModify("eri_dc", SetIf(~("MAGIC" \in o), {"MagicPacket_v2"}),
                                                     SetIf("MAGIC" \in o, {"MagicPacket_v2"})))
WolMagicOcp(v, o) == If(rtl_is_8125(v), OcpModify("ocp_c0b6", SetIf(~("MAGIC" \in o), {"b0"}),
                                                     SetIf("MAGIC" \in o, {"b0"})))
WolMagicConfig(v, o) ==
    If(~rtl_is_8168evl_up(v) /\ ~rtl_is_8125(v), wol_bit(o, {"MAGIC"}, "Config3", "MagicPacket"))
WolBits(v, o) ==
    wol_bit(o, {"PHY"}, "Config3", "LinkUp") \o wol_bit(o, {"UCAST"}, "Config5", "UWF")
      \o wol_bit(o, {"BCAST"}, "Config5", "BWF") \o wol_bit(o, {"MCAST"}, "Config5", "MWF")
      \o wol_bit(o, WolOpts, "Config5", "LanWake") \o WolMagicConfig(v, o)
WolPme1(v, o) == If(PmeConfig1(v), RMW("Config1", {"PMEnable"}, SetIf(o # {}, {"PMEnable"})))
WolPme2(v, o) == If(PmeConfig2(v), ModConfig("Config2", SetIf(o = {}, {"PME_SIGNAL"}),
                                                    SetIf(o # {}, {"PME_SIGNAL"})))
WolPll(v, b, o) == If(~b.dash, rtl_set_d3_pll_down(v, o = {}))

(* rtl8169_set_wol, in pieces.                                               *)
LEMMA SetWolPieces ==
    ASSUME NEW v, NEW b, NEW o
    PROVE  rtl8169_set_wol(v, b, o) =
             Unlocked(WolMagicEri(v, o) \o WolMagicOcp(v, o) \o Under("config25_lock", WolBits(v, o))
                        \o WolPme1(v, o) \o WolPme2(v, o)) \o WolPll(v, b, o)
BY DEF rtl8169_set_wol, WolMagicEri, WolMagicOcp, WolMagicConfig, WolBits, WolPme1, WolPme2, WolPll

(* The magic packet, in the register of the version.                         *)
LEMMA WolMagicIs ==
    ASSUME NEW q
    PROVE  /\ Plain(q, WolMagicEri(q.v, q.wol)) /\ Plain(q, WolMagicOcp(q.v, q.wol))
           /\ Plain(q, WolMagicConfig(q.v, q.wol))
           /\ \A r, b : Magic(q, r, b) =>
                \/ Ends(q, WolMagicEri(q.v, q.wol), 1, r, b)
                \/ Ends(q, WolMagicOcp(q.v, q.wol), 1, r, b)
                \/ Ends(q, WolMagicConfig(q.v, q.wol), 1, r, b)
<1> DEFINE m == "MAGIC" \in q.wol
<1>1. ASSUME rtl_is_8168evl_up(q.v)
      PROVE  /\ Plain(q, WolMagicEri(q.v, q.wol))
             /\ Ends(q, WolMagicEri(q.v, q.wol), 1, "eri_dc", "MagicPacket_v2")
  <2> DEFINE clear == SetIf(~m, {"MagicPacket_v2"})
             set == SetIf(m, {"MagicPacket_v2"})
             s == EriModify("eri_dc", clear, set)
  <2>1. /\ clear \in SUBSET Bits /\ set \in SUBSET Bits /\ clear \cup set = {"MagicPacket_v2"}
        /\ "MagicPacket_v2" \in set <=> m
    BY DEF SetIf, Bits
  <2>2. "eri_dc" \in EriRegs
    BY DEF EriRegs
  <2>3. Shall(q, "eri_dc", "MagicPacket_v2") <=> m
    BY <1>1, ShallWake
  <2>4. WolMagicEri(q.v, q.wol) = s
    BY <1>1 DEF WolMagicEri, If
  <2> HIDE DEF clear, set, m
  <2>5. Fresh(s) /\ NoEphy(s) /\ Changes(s, "eri_dc", clear, set)
    BY <2>1, <2>2, EriModifyChanges
  <2> HIDE DEF s
  <2>6. Plain(q, s)
    BY <2>1, <2>3, <2>5, ChangePlain
  <2>7. Ends(q, s, 1, "eri_dc", "MagicPacket_v2")
    BY <2>1, <2>3, <2>5, ChangeEnds DEF Fresh
  <2> QED BY <2>4, <2>6, <2>7
<1>2. ASSUME rtl_is_8125(q.v)
      PROVE  /\ Plain(q, WolMagicOcp(q.v, q.wol))
             /\ Ends(q, WolMagicOcp(q.v, q.wol), 1, "ocp_c0b6", "b0")
  <2> DEFINE clear == SetIf(~m, {"b0"})
             set == SetIf(m, {"b0"})
             s == OcpModify("ocp_c0b6", clear, set)
  <2>1. /\ clear \in SUBSET Bits /\ set \in SUBSET Bits /\ clear \cup set = {"b0"}
        /\ "b0" \in set <=> m
    BY DEF SetIf, Bits
  <2>2. "ocp_c0b6" \in OcpRegs
    BY DEF OcpRegs
  <2>3. Shall(q, "ocp_c0b6", "b0") <=> m
    BY <1>2, ShallWake
  <2>4. WolMagicOcp(q.v, q.wol) = s
    BY <1>2 DEF WolMagicOcp, If
  <2> HIDE DEF clear, set, m
  <2>5. /\ Fresh(s) /\ NoEphy(s)
        /\ \A r, b : r # "ocp_c0b6" \/ b \notin clear \cup set => Clean(s, 1, r, b)
        /\ \A b : b \in clear \cup set /\ (b \in set <=> Shall(q, "ocp_c0b6", b)) =>
                 Ends(q, s, 1, "ocp_c0b6", b)
    BY <2>1, <2>2, OcpModifyIs
  <2> HIDE DEF s
  <2>6. Ends(q, s, 1, "ocp_c0b6", "b0")
    BY <2>1, <2>3, <2>5
  <2>7. \A r, b : Safe(q, s, 1, r, b)
    BY <2>1, <2>5, <2>6 DEF Safe
  <2> QED BY <2>4, <2>5, <2>6, <2>7 DEF Plain, Calm
<1>3. ASSUME ~rtl_is_8125(q.v), ~rtl_is_8168evl_up(q.v)
      PROVE  /\ Plain(q, WolMagicConfig(q.v, q.wol))
             /\ Ends(q, WolMagicConfig(q.v, q.wol), 1, "Config3", "MagicPacket")
  <2>1. Shall(q, "Config3", "MagicPacket") <=> m
    BY <1>3, ShallWake
  <2>2. "MagicPacket" \in Bits /\ "Config3" \in {"Config3", "Config5"}
    BY DEF Bits
  <2>3. (q.wol \cap {"MAGIC"} # {}) <=> m
    OBVIOUS
  <2>4. WolMagicConfig(q.v, q.wol) = wol_bit(q.wol, {"MAGIC"}, "Config3", "MagicPacket")
    BY <1>3 DEF WolMagicConfig, If
  <2> QED BY <2>1, <2>2, <2>3, <2>4, WolBitIs
<1>4. /\ ~rtl_is_8168evl_up(q.v) => WolMagicEri(q.v, q.wol) = <<>>
      /\ ~rtl_is_8125(q.v) => WolMagicOcp(q.v, q.wol) = <<>>
      /\ rtl_is_8168evl_up(q.v) \/ rtl_is_8125(q.v) => WolMagicConfig(q.v, q.wol) = <<>>
  BY DEF WolMagicEri, WolMagicOcp, WolMagicConfig, If
<1>5. Plain(q, <<>>)
  BY EmptyPlain
<1>6. /\ Plain(q, WolMagicEri(q.v, q.wol)) /\ Plain(q, WolMagicOcp(q.v, q.wol))
      /\ Plain(q, WolMagicConfig(q.v, q.wol))
  BY <1>1, <1>2, <1>3, <1>4, <1>5
<1>7. ASSUME NEW r, NEW b, Magic(q, r, b)
      PROVE  \/ Ends(q, WolMagicEri(q.v, q.wol), 1, r, b)
             \/ Ends(q, WolMagicOcp(q.v, q.wol), 1, r, b)
             \/ Ends(q, WolMagicConfig(q.v, q.wol), 1, r, b)
  BY <1>1, <1>2, <1>3, <1>7 DEF Magic
<1> QED BY <1>6, <1>7

(* The table of options, each in its bit.                                    *)
LEMMA WolBitsIs ==
    ASSUME NEW q, q.wol \subseteq WolOpts
    PROVE  /\ Plain(q, WolBits(q.v, q.wol))
           /\ \A r, b : (\/ Link(r, b) \/ Unicast(r, b) \/ Broadcast(r, b) \/ Multicast(r, b)
                         \/ r = "Config5" /\ b = "LanWake"
                         \/ Magic(q, r, b) /\ Ends(q, WolMagicConfig(q.v, q.wol), 1, r, b))
                          => Ends(q, WolBits(q.v, q.wol), 1, r, b)
<1> DEFINE t == wol_bit(q.wol, {"PHY"}, "Config3", "LinkUp")
           u == wol_bit(q.wol, {"UCAST"}, "Config5", "UWF")
           w == wol_bit(q.wol, {"BCAST"}, "Config5", "BWF")
           x == wol_bit(q.wol, {"MCAST"}, "Config5", "MWF")
           y == wol_bit(q.wol, WolOpts, "Config5", "LanWake")
           z == WolMagicConfig(q.v, q.wol)
<1>1. {"LinkUp", "UWF", "BWF", "MWF", "LanWake"} \subseteq Bits
  BY DEF Bits
<1>2. /\ (q.wol \cap {"PHY"} # {}) <=> Shall(q, "Config3", "LinkUp")
      /\ (q.wol \cap {"UCAST"} # {}) <=> Shall(q, "Config5", "UWF")
      /\ (q.wol \cap {"BCAST"} # {}) <=> Shall(q, "Config5", "BWF")
      /\ (q.wol \cap {"MCAST"} # {}) <=> Shall(q, "Config5", "MWF")
      /\ (q.wol \cap WolOpts # {}) <=> Shall(q, "Config5", "LanWake")
  BY ShallWake
<1>3. /\ Plain(q, t) /\ Ends(q, t, 1, "Config3", "LinkUp")
      /\ Plain(q, u) /\ Ends(q, u, 1, "Config5", "UWF")
      /\ Plain(q, w) /\ Ends(q, w, 1, "Config5", "BWF")
      /\ Plain(q, x) /\ Ends(q, x, 1, "Config5", "MWF")
      /\ Plain(q, y) /\ Ends(q, y, 1, "Config5", "LanWake")
  BY <1>1, <1>2, WolBitIs
<1>4. Plain(q, z)
  BY WolMagicIs
<1>5. WolBits(q.v, q.wol) = t \o u \o w \o x \o y \o z
  BY DEF WolBits
<1> HIDE DEF t, u, w, x, y, z
<1>6. /\ Plain(q, t \o u) /\ Plain(q, t \o u \o w) /\ Plain(q, t \o u \o w \o x)
      /\ Plain(q, t \o u \o w \o x \o y) /\ Plain(q, t \o u \o w \o x \o y \o z)
  BY <1>3, <1>4, PlainJoins
<1>7. \A s : Plain(q, s) => Fresh(s) /\ Calm(q, s)
  BY DEF Plain, Calm
<1> DEFINE E(s, r, b) == Ends(q, s, 1, r, b)
<1>8. ASSUME NEW r, NEW b, Asked(q, r, b)
      PROVE  /\ \A s, a : Plain(q, s) /\ Plain(q, a) /\ E(s, r, b) => E(s \o a, r, b)
             /\ \A s, a : Plain(q, s) /\ Plain(q, a) /\ E(a, r, b) => E(s \o a, r, b)
  BY <1>7, <1>8, EndsAmong
<1> HIDE DEF E
<1>9. ASSUME NEW r, NEW b, Asked(q, r, b),
             E(t, r, b) \/ E(u, r, b) \/ E(w, r, b) \/ E(x, r, b) \/ E(y, r, b) \/ E(z, r, b)
      PROVE  E(t \o u \o w \o x \o y \o z, r, b)
  BY <1>3, <1>4, <1>6, <1>8, <1>9
<1>10. ASSUME NEW r, NEW b,
              \/ Link(r, b) \/ Unicast(r, b) \/ Broadcast(r, b) \/ Multicast(r, b)
              \/ r = "Config5" /\ b = "LanWake"
              \/ Magic(q, r, b) /\ Ends(q, z, 1, r, b)
       PROVE  E(t \o u \o w \o x \o y \o z, r, b)
  <2>1. Asked(q, r, b)
    BY <1>10 DEF Asked, Wakes, Power
  <2>2. E(t, r, b) \/ E(u, r, b) \/ E(w, r, b) \/ E(x, r, b) \/ E(y, r, b) \/ E(z, r, b)
    BY <1>3, <1>10 DEF E, Link, Unicast, Broadcast, Multicast
  <2> QED BY <1>9, <2>1, <2>2
<1> QED BY <1>5, <1>6, <1>10 DEF E, z

(* The PME enable and the PLL, in the register of the version.               *)
LEMMA WolPmeIs ==
    ASSUME NEW q
    PROVE  /\ Plain(q, WolPme1(q.v, q.wol)) /\ Plain(q, WolPme2(q.v, q.wol))
           /\ Plain(q, WolPll(q.v, q.board, q.wol))
           /\ PmeConfig1(q.v) => Ends(q, WolPme1(q.v, q.wol), 1, "Config1", "PMEnable")
           /\ PmeConfig2(q.v) => Ends(q, WolPme2(q.v, q.wol), 1, "Config2", "PME_SIGNAL")
           /\ HasD3Pll(q.v) /\ ~q.board.dash =>
                Ends(q, WolPll(q.v, q.board, q.wol), 1, "PMCH", "D3_NO_PLL_DOWN")
<1>1. Plain(q, <<>>)
  BY EmptyPlain
<1>2. /\ "Config1" \in PlainRegs /\ "PMCH" \in PlainRegs
      /\ {"PMEnable", "PME_SIGNAL", "D3_NO_PLL_DOWN"} \subseteq Bits
  BY DEF PlainRegs, Registers, EriRegs, OcpRegs, Bits
<1>3. ASSUME PmeConfig1(q.v)
      PROVE  Plain(q, WolPme1(q.v, q.wol)) /\ Ends(q, WolPme1(q.v, q.wol), 1, "Config1", "PMEnable")
  <2> DEFINE set == SetIf(q.wol # {}, {"PMEnable"})
             clear == {"PMEnable"}
  <2>1. /\ set \in SUBSET {"PMEnable"} /\ clear \in SUBSET {"PMEnable"} /\ clear \cup set = {"PMEnable"}
        /\ "PMEnable" \in set <=> q.wol # {}
    BY DEF SetIf
  <2>2. Shall(q, "Config1", "PMEnable") <=> q.wol # {}
    BY <1>3, ShallWake
  <2>3. WolPme1(q.v, q.wol) = RMW("Config1", clear, set)
    BY <1>3 DEF WolPme1, If
  <2> HIDE DEF set, clear
  <2> QED BY <1>2, <2>1, <2>2, <2>3, OneBit
<1>4. ASSUME PmeConfig2(q.v)
      PROVE  Plain(q, WolPme2(q.v, q.wol)) /\ Ends(q, WolPme2(q.v, q.wol), 1, "Config2", "PME_SIGNAL")
  <2> DEFINE set == SetIf(q.wol # {}, {"PME_SIGNAL"})
             clear == SetIf(q.wol = {}, {"PME_SIGNAL"})
  <2>1. /\ set \in SUBSET Bits /\ clear \in SUBSET Bits /\ clear \cup set = {"PME_SIGNAL"}
        /\ "PME_SIGNAL" \in set <=> q.wol # {}
    BY <1>2 DEF SetIf
  <2>2. Shall(q, "Config2", "PME_SIGNAL") <=> q.wol # {}
    BY <1>4, ShallWake
  <2>3. WolPme2(q.v, q.wol) = ModConfig("Config2", clear, set)
    BY <1>4 DEF WolPme2, If
  <2> HIDE DEF set, clear
  <2>4. /\ Plain(q, ModConfig("Config2", clear, set))
        /\ Ends(q, ModConfig("Config2", clear, set), 1, "Config2", "PME_SIGNAL")
    BY <2>1, <2>2, ModConfigPlain, ModConfigIs
  <2> QED BY <2>3, <2>4
<1>5. ASSUME HasD3Pll(q.v), ~q.board.dash
      PROVE  /\ Plain(q, WolPll(q.v, q.board, q.wol))
             /\ Ends(q, WolPll(q.v, q.board, q.wol), 1, "PMCH", "D3_NO_PLL_DOWN")
  <2> DEFINE set == SetIf(~(q.wol = {}), {"D3_NO_PLL_DOWN"})
             clear == SetIf(q.wol = {}, {"D3_NO_PLL_DOWN"})
  <2>1. /\ set \in SUBSET {"D3_NO_PLL_DOWN"} /\ clear \in SUBSET {"D3_NO_PLL_DOWN"}
        /\ clear \cup set = {"D3_NO_PLL_DOWN"} /\ ("D3_NO_PLL_DOWN" \in set <=> q.wol # {})
    BY DEF SetIf
  <2>2. Shall(q, "PMCH", "D3_NO_PLL_DOWN") <=> q.wol # {}
    BY <1>5, ShallWake
  <2>3. WolPll(q.v, q.board, q.wol) = RMW("PMCH", clear, set)
    BY <1>5 DEF WolPll, rtl_set_d3_pll_down, If
  <2> HIDE DEF set, clear
  <2> QED BY <1>2, <2>1, <2>2, <2>3, OneBit
<1>6. /\ ~PmeConfig1(q.v) => WolPme1(q.v, q.wol) = <<>>
      /\ ~PmeConfig2(q.v) => WolPme2(q.v, q.wol) = <<>>
      /\ ~(HasD3Pll(q.v) /\ ~q.board.dash) => WolPll(q.v, q.board, q.wol) = <<>>
  BY DEF WolPme1, WolPme2, WolPll, rtl_set_d3_pll_down, If
<1> QED BY <1>1, <1>3, <1>4, <1>5, <1>6

(* rtl8169_set_wol leaves every bit that wakes as it was asked for.          *)
LEMMA SetWolIs ==
    ASSUME NEW q, q.wol \subseteq WolOpts
    PROVE  /\ Plain(q, rtl8169_set_wol(q.v, q.board, q.wol))
           /\ \A r, b : Wakes(q, r, b) => Ends(q, rtl8169_set_wol(q.v, q.board, q.wol), 1, r, b)
<1> DEFINE t == WolMagicEri(q.v, q.wol)
           u == WolMagicOcp(q.v, q.wol)
           w == WolBits(q.v, q.wol)
           x == WolPme1(q.v, q.wol)
           y == WolPme2(q.v, q.wol)
           z == WolPll(q.v, q.board, q.wol)
           k == Under("config25_lock", w)
<1>1. Plain(q, t) /\ Plain(q, u) /\ Plain(q, x) /\ Plain(q, y) /\ Plain(q, z) /\ Plain(q, w)
  BY WolMagicIs, WolBitsIs, WolPmeIs
<1> DEFINE m2 == WolMagicConfig(q.v, q.wol)
<1>2. /\ \A r, b : Magic(q, r, b) => Ends(q, t, 1, r, b) \/ Ends(q, u, 1, r, b) \/ Ends(q, m2, 1, r, b)
      /\ \A r, b : (\/ Link(r, b) \/ Unicast(r, b) \/ Broadcast(r, b) \/ Multicast(r, b)
                    \/ r = "Config5" /\ b = "LanWake"
                    \/ Magic(q, r, b) /\ Ends(q, m2, 1, r, b))
                     => Ends(q, w, 1, r, b)
      /\ PmeConfig1(q.v) => Ends(q, x, 1, "Config1", "PMEnable")
      /\ PmeConfig2(q.v) => Ends(q, y, 1, "Config2", "PME_SIGNAL")
      /\ HasD3Pll(q.v) /\ ~q.board.dash => Ends(q, z, 1, "PMCH", "D3_NO_PLL_DOWN")
  BY WolMagicIs, WolBitsIs, WolPmeIs
<1>3. rtl8169_set_wol(q.v, q.board, q.wol) = Unlocked(t \o u \o k \o x \o y) \o z
  BY SetWolPieces
<1> HIDE DEF t, u, w, x, y, z, m2
<1>13. ASSUME NEW r, NEW b, Wakes(q, r, b)
       PROVE  \/ Ends(q, t, 1, r, b) \/ Ends(q, u, 1, r, b) \/ Ends(q, w, 1, r, b)
              \/ Ends(q, x, 1, r, b) \/ Ends(q, y, 1, r, b) \/ Ends(q, z, 1, r, b)
  <2>1. CASE Magic(q, r, b)
    BY <1>2, <2>1
  <2>2. CASE Power(q, r, b)
    BY <1>2, <2>2 DEF Power
  <2>3. CASE Link(r, b) \/ Unicast(r, b) \/ Broadcast(r, b) \/ Multicast(r, b)
    BY <1>2, <2>3
  <2> QED BY <1>13, <2>1, <2>2, <2>3 DEF Wakes
<1>4. "config25_lock" \in Names
  BY DEF Names, Locks
<1>5. \A s : Plain(q, s) => Fresh(s) /\ Calm(q, s)
  BY DEF Plain, Calm
<1>6. Plain(q, k) /\ \A r, b : Ends(q, w, 1, r, b) => Ends(q, k, 1, r, b)
  BY <1>1, <1>4, <1>5, UnderPlain, UnderKeeps
<1> HIDE DEF k
<1> DEFINE m == t \o u \o k \o x \o y
<1>7. /\ Plain(q, t \o u) /\ Plain(q, t \o u \o k) /\ Plain(q, t \o u \o k \o x) /\ Plain(q, m)
  BY <1>1, <1>6, PlainJoins
<1> DEFINE E(s, r, b) == Ends(q, s, 1, r, b)
<1>8. ASSUME NEW r, NEW b, Asked(q, r, b)
      PROVE  /\ \A s, a : Plain(q, s) /\ Plain(q, a) /\ E(s, r, b) => E(s \o a, r, b)
             /\ \A s, a : Plain(q, s) /\ Plain(q, a) /\ E(a, r, b) => E(s \o a, r, b)
  BY <1>5, <1>8, EndsAmong
<1>9. Plain(q, Unlocked(m)) /\ \A r, b : E(m, r, b) => E(Unlocked(m), r, b)
  BY <1>5, <1>7, UnlockedPlain, UnlockedKeeps
<1> HIDE DEF E
<1>10. ASSUME NEW r, NEW b, Asked(q, r, b),
              E(t, r, b) \/ E(u, r, b) \/ E(k, r, b) \/ E(x, r, b) \/ E(y, r, b)
       PROVE  E(m, r, b)
  BY <1>1, <1>6, <1>7, <1>8, <1>10
<1> HIDE DEF m
<1>11. Plain(q, Unlocked(m) \o z)
  BY <1>1, <1>9, PlainJoins
<1>12. ASSUME NEW r, NEW b, Wakes(q, r, b) PROVE E(Unlocked(m) \o z, r, b)
  <2>1. Asked(q, r, b)
    BY <1>12 DEF Asked
  <2>2. E(m, r, b) \/ E(z, r, b)
    BY <1>6, <1>10, <1>12, <1>13, <2>1 DEF E
  <2> QED BY <1>1, <1>8, <1>9, <2>1, <2>2
<1> QED BY <1>3, <1>11, <1>12 DEF E, m

-----------------------------------------------------------------------------
(* What comes before or after a reset.                                       *)
LEMMA BeforeReset ==
    ASSUME NEW q, NEW x, NEW y, Fresh(x), NoEphy(x), Calm(q, y), Renewed(q, y),
           \A r, b : Asked(q, r, b) /\ r # "RxConfig" => Safe(q, x, 1, r, b)
    PROVE  /\ Calm(q, x \o y) /\ Renewed(q, x \o y) /\ (Sheltered(y) => Sheltered(x \o y))
           /\ \A r, b : Ends(q, y, 1, r, b) => Ends(q, x \o y, 1, r, b)
<1>1. Fresh(y) /\ x \in Seq(Accesses) /\ y \in Seq(Accesses)
  BY DEF Calm, Fresh
<1>2. Fresh(x \o y) /\ (Sheltered(y) => Sheltered(x \o y))
  BY <1>1, FreshJoins, NoEphySheltered, ShelteredJoins
<1>3. \A r, b : Ends(q, y, 1, r, b) => Ends(q, x \o y, 1, r, b)
  BY <1>1, EndsJoin
<1>4. Renewed(q, x \o y)
  BY <1>3 DEF Renewed
<1>5. ASSUME NEW r, NEW b, Asked(q, r, b) PROVE Safe(q, x \o y, 1, r, b)
  <2>1. CASE r # "RxConfig"
    <3>1. Safe(q, x, 1, r, b) /\ Safe(q, y, 1, r, b)
      BY <1>5, <2>1 DEF Calm
    <3> QED BY <1>1, <3>1, SafeJoins
  <2>2. CASE r = "RxConfig"
    BY <1>4, <1>5, <2>2 DEF Renewed, Safe
  <2> QED BY <2>1, <2>2
<1> QED BY <1>2, <1>3, <1>4, <1>5 DEF Calm

(* A plain script after a reset keeps what the reset made.                   *)
LEMMA AfterReset ==
    ASSUME NEW q, NEW x, NEW y, Calm(q, x), Renewed(q, x), Plain(q, y)
    PROVE  Calm(q, x \o y) /\ Renewed(q, x \o y) /\ (Sheltered(x) => Sheltered(x \o y))
<1>1. Fresh(x) /\ Fresh(y) /\ Calm(q, y) /\ NoEphy(y)
  BY DEF Plain, Calm
<1>2. Calm(q, x \o y) /\ (Sheltered(x) => Sheltered(x \o y))
  BY <1>1, CalmJoins, NoEphySheltered, ShelteredJoins
<1>3. \A r, b : Asked(q, r, b) /\ Ends(q, x, 1, r, b) => Ends(q, x \o y, 1, r, b)
  BY <1>1, EndsAmong
<1>4. \A r, b : Aspm(r, b) => Asked(q, r, b)
  BY OnlyAspm
<1>5. /\ Filter(q, "eri_dc", "filter") => Asked(q, "eri_dc", "filter")
      /\ Gate(q, "MISC", "RXDV_GATED_EN") => Asked(q, "MISC", "RXDV_GATED_EN")
  BY DEF Asked
<1>6. Renewed(q, x \o y)
  BY <1>3, <1>4, <1>5 DEF Renewed
<1> QED BY <1>2, <1>6

(* rtl_rar_set spoils nothing.                                               *)
LEMMA RarSetPlain == ASSUME NEW q, NEW v PROVE Plain(q, rtl_rar_set(v))
<1>1. "MAC" \in PlainRegs /\ {} \in SUBSET Bits /\ \A b : ~Asked(q, "MAC", b)
  BY Unasked DEF PlainRegs, Registers, EriRegs, OcpRegs
<1> DEFINE x == Put("MAC", {})
           e == EriWrite("eri", {})
           y == If(v = 34, e \o e \o e \o e)
<1>2. Plain(q, x)
  BY <1>1, PutPlain
<1>3. Plain(q, e)
  BY EriPiecesPlain
<1>4. rtl_rar_set(v) = Unlocked(x \o x \o y)
  BY DEF rtl_rar_set
<1> HIDE DEF x, e
<1>5. Plain(q, e \o e \o e \o e)
  BY <1>3, PlainJoins
<1>6. Plain(q, y)
  BY <1>5, IfPlain
<1> HIDE DEF y
<1> QED BY <1>2, <1>4, <1>6, PlainJoins, UnlockedPlain

(* A write of BMCR, with the quirk of version 40, spoils nothing.            *)
LEMMA BMCRPlain == ASSUME NEW q, NEW v, NEW down \in BOOLEAN PROVE Plain(q, WriteBMCR(v, down))
<1> DEFINE clear == SetIf(down, {"b4"})
           set == SetIf(~down, {"b4"})
           e == EriModify("eri_1a8", clear, set)
           x == If(v = 40, e)
<1>1. "eri_1a8" \in EriRegs /\ clear \in SUBSET Bits /\ set \in SUBSET Bits
  BY DEF EriRegs, SetIf, Bits
<1>2. \A b : ~Asked(q, "eri_1a8", b)
  <2> TAKE b
  <2>1. "eri_1a8" \in {"LnkCtl", "Config4", "MAC", "ocp_c0ac", "ocp_e092"} \cup EriRegs
    BY <1>1
  <2> QED BY <2>1, Unasked
<1>3. WriteBMCR(v, down) = Under("mdio_lock", x \o phy("0"))
  BY DEF WriteBMCR, rtl8168g_phy_suspend_quirk
<1> HIDE DEF clear, set
<1>4. Plain(q, e)
  BY <1>1, <1>2, EriPlain
<1>5. Plain(q, x)
  BY <1>4, IfPlain
<1>6. Plain(q, phy("0")) /\ "mdio_lock" \in Names
  BY PagePlain DEF Pages, Names, Locks
<1> HIDE DEF x
<1> QED BY <1>3, <1>5, <1>6, PlainJoins, UnderPlain

(* rtl8169_init_phy spoils nothing, on any version.                          *)
LEMMA InitPhyPlain == ASSUME NEW q, NEW v, NEW b PROVE Plain(q, rtl8169_init_phy(v, b))
<1> DEFINE w == r8169_hw_phy_config(v, b.efuse)
           x == If(v = 5, Paged("1"))
           y == phy("0")
           z == WriteBMCR(v, FALSE)
<1>1. Plain(q, w)
  BY PhyConfigPlain
<1>2. Plain(q, Paged("1")) /\ Plain(q, y)
  BY PagePlain DEF Pages
<1>3. Plain(q, x)
  BY <1>2, IfPlain
<1>4. Plain(q, z)
  BY BMCRPlain
<1>5. rtl8169_init_phy(v, b) = w \o x \o y \o z
  BY DEF rtl8169_init_phy
<1> HIDE DEF w, x, y, z
<1> QED BY <1>1, <1>2, <1>3, <1>4, <1>5, PlainJoins

(* Bringing the device up sets up everything a reset does; resuming it, what *)
(* shall wake the system as well.                                            *)
LEMMA UpIs ==
    ASSUME NEW q, Suits(q), NEW j
    PROVE  /\ Calm(q, rtl8169_up(q.v, q.board, j)) /\ Renewed(q, rtl8169_up(q.v, q.board, j))
           /\ q.v >= 32 => Sheltered(rtl8169_up(q.v, q.board, j))
<1> DEFINE w == WriteBMCR(q.v, FALSE)
           x == rtl8169_init_phy(q.v, q.board)
           y == rtl_reset_work(q.v, q.board, j)
           z == Do("phy_start", "phy", {}, {})
<1>1. Plain(q, w) /\ Plain(q, x)
  BY BMCRPlain, InitPhyPlain
<1>2. Calm(q, y) /\ Renewed(q, y) /\ (q.v >= 32 => Sheltered(y))
  BY ResetIs
<1>3. Plain(q, z)
  BY LockClean DEF Names, Plain, Calm, Safe
<1>4. rtl8169_up(q.v, q.board, j) = w \o x \o y \o z
  BY DEF rtl8169_up
<1> HIDE DEF w, x, y, z
<1> DEFINE d == w \o x
<1>5. Plain(q, d)
  BY <1>1, PlainJoins
<1> HIDE DEF d
<1>6. Fresh(d) /\ NoEphy(d) /\ \A r, b : Asked(q, r, b) => Safe(q, d, 1, r, b)
  BY <1>5 DEF Plain, Calm
<1>7. Calm(q, d \o y) /\ Renewed(q, d \o y) /\ (Sheltered(y) => Sheltered(d \o y))
  BY <1>2, <1>6, BeforeReset
<1>8. Calm(q, d \o y \o z) /\ Renewed(q, d \o y \o z) /\ (Sheltered(d \o y) => Sheltered(d \o y \o z))
  BY <1>3, <1>7, AfterReset
<1> QED BY <1>2, <1>4, <1>7, <1>8 DEF d

(* A script that leaves every bit as asked, whatever it was before.          *)
Remakes(q, s) == \A r, b : Asked(q, r, b) => Ends(q, s, 1, r, b) \/ (q.v < 32 /\ Aspm(r, b))

(* The resumes of an open device make all that is asked for so.              *)
LEMMA ResumeIs ==
    ASSUME NEW q, Suits(q), q.wol \subseteq WolOpts, NEW j,
           NEW s \in {rtl8169_runtime_resume(q.v, q.board, q.wol, j, TRUE),
                    rtl8169_resume(q.v, q.board, q.wol, j, TRUE)}
    PROVE  Calm(q, s) /\ Remakes(q, s) /\ (q.v >= 32 => Sheltered(s))
<1> DEFINE w == rtl_rar_set(q.v)
           x == rtl8169_set_wol(q.v, q.board, q.wol)
           y == rtl8169_up(q.v, q.board, j)
           z == If(q.v = 37, rtl_init_rxcfg)
<1>1. Plain(q, w) /\ Plain(q, x) /\ \A r, b : Wakes(q, r, b) => Ends(q, x, 1, r, b)
  BY RarSetPlain, SetWolIs
<1>2. Calm(q, y) /\ Renewed(q, y) /\ (q.v >= 32 => Sheltered(y))
  BY UpIs
<1>3. Fresh(z) /\ NoEphy(z) /\ \A r, b : r # "RxConfig" => Clean(z, 1, r, b)
  <2>1. Fresh(<<>>) /\ NoEphy(<<>>) /\ \A r, b : Clean(<<>>, 1, r, b)
    BY EmptyPlain DEF NoEphy, Clean
  <2> QED BY <2>1, InitRxIs DEF If
<1>4. s = w \o x \o y \/ s = z \o (w \o x \o y)
  BY DEF rtl8169_runtime_resume, rtl8169_resume, If
<1>5. q.v \in Nat
  BY DEF Suits, Versions
<1> HIDE DEF w, x, y, z
<1> DEFINE d == w \o x
<1>6. Plain(q, d) /\ \A r, b : Wakes(q, r, b) => Ends(q, d, 1, r, b)
  BY <1>1, PlainJoins, EndsJoin DEF Plain, Calm, Fresh
<1> HIDE DEF d
<1>7. Fresh(d) /\ NoEphy(d) /\ Fresh(y) /\ \A r, b : Asked(q, r, b) => Safe(q, d, 1, r, b)
  BY <1>2, <1>6 DEF Plain, Calm
<1> DEFINE e == d \o y
<1>8. Calm(q, e) /\ Renewed(q, e) /\ (q.v >= 32 => Sheltered(e))
  BY <1>2, <1>7, BeforeReset
<1>9. \A r, b : Wakes(q, r, b) => Ends(q, e, 1, r, b)
  <2>1. \A r, b : Wakes(q, r, b) => Asked(q, r, b)
    BY DEF Asked
  <2> QED BY <1>2, <1>6, <1>7, <2>1, EndsAmong
<1> HIDE DEF e
<1>10. /\ Calm(q, z \o e) /\ Renewed(q, z \o e) /\ (q.v >= 32 => Sheltered(z \o e))
       /\ \A r, b : Wakes(q, r, b) => Ends(q, z \o e, 1, r, b)
  BY <1>3, <1>8, <1>9, BeforeReset DEF Safe
<1>11. /\ Calm(q, s) /\ Renewed(q, s) /\ (q.v >= 32 => Sheltered(s))
       /\ \A r, b : Wakes(q, r, b) => Ends(q, s, 1, r, b)
  <2>1. s = e \/ s = z \o e
    BY <1>4 DEF e, d
  <2> QED BY <1>8, <1>9, <1>10, <2>1
<1>12. ASSUME NEW r, NEW b, Asked(q, r, b), ~Ends(q, s, 1, r, b) PROVE q.v < 32 /\ Aspm(r, b)
  <2>1. Filter(q, r, b) => r = "eri_dc" /\ b = "filter"
    BY DEF Filter
  <2>2. Gate(q, r, b) => r = "MISC" /\ b = "RXDV_GATED_EN"
    BY DEF Gate
  <2>3. Reception(q, r, b) => r = "RxConfig"
    BY DEF Reception
  <2>4. ~Filter(q, r, b) /\ ~Gate(q, r, b) /\ ~Reception(q, r, b) /\ ~Wakes(q, r, b)
    BY <1>11, <1>12, <2>1, <2>2, <2>3 DEF Renewed
  <2>5. Aspm(r, b)
    BY <1>12, <2>4 DEF Asked
  <2>6. ~(q.v >= 32)
    BY <1>11, <1>12, <2>5 DEF Renewed
  <2> QED BY <1>5, <2>5, <2>6
<1> QED BY <1>11, <1>12 DEF Remakes

(* Those of a closed one set the address and what shall wake the system; the *)
(* system's also clears the receive filter of version 37.                    *)
LEMMA ClosedResumeIs ==
    ASSUME NEW q, ~q.up, q.wol \subseteq WolOpts, NEW j, NEW s,
           \/ s = rtl8169_runtime_resume(q.v, q.board, q.wol, j, FALSE)
           \/ s = rtl8169_resume(q.v, q.board, q.wol, j, FALSE) /\ (q.v = 37 => q.deaf)
    PROVE  Plain(q, s) /\ \A r, b : Wakes(q, r, b) => Ends(q, s, 1, r, b)
<1> DEFINE w == rtl_rar_set(q.v)
           x == rtl8169_set_wol(q.v, q.board, q.wol)
           d == w \o x
           z == If(q.v = 37, rtl_init_rxcfg)
<1>1. Plain(q, w) /\ Plain(q, x) /\ \A r, b : Wakes(q, r, b) => Ends(q, x, 1, r, b)
  BY RarSetPlain, SetWolIs
<1>2. d \in Seq(Accesses) /\ d \o <<>> = d
  BY <1>1 DEF Plain, Calm, Fresh
<1>3. /\ rtl8169_runtime_resume(q.v, q.board, q.wol, j, FALSE) = w \o x \o <<>>
      /\ rtl8169_resume(q.v, q.board, q.wol, j, FALSE) = z \o (w \o x \o <<>>)
  BY DEF rtl8169_runtime_resume, rtl8169_resume, If
<1>4. q.deaf => \A b : ~Asked(q, "RxConfig", b)
  BY DEF Asked, Wakes, Magic, Power, Link, Unicast, Broadcast, Multicast, Aspm, Filter, Gate, Reception, Receives
<1>5. Fresh(rtl_init_rxcfg) /\ NoEphy(rtl_init_rxcfg) /\ \A r, b : r # "RxConfig" => Clean(rtl_init_rxcfg, 1, r, b)
  BY InitRxIs
<1>6. q.deaf => Plain(q, rtl_init_rxcfg)
  BY <1>4, <1>5 DEF Plain, Calm, Safe
<1>7. q.v # 37 => z = <<>>
  BY DEF If
<1> HIDE DEF w, x, z
<1>8. Plain(q, d) /\ \A r, b : Wakes(q, r, b) => Ends(q, d, 1, r, b)
  BY <1>1, PlainJoins, EndsJoin DEF Plain, Calm, Fresh
<1>9. Plain(q, <<>>) /\ (q.v = 37 => z = rtl_init_rxcfg)
  BY EmptyPlain DEF z, If
<1> HIDE DEF d
<1>10. Plain(q, z) => Plain(q, z \o d) /\ \A r, b : Wakes(q, r, b) => Ends(q, z \o d, 1, r, b)
  BY <1>8, PlainJoins, EndsJoin DEF Plain, Calm, Fresh
<1>11. s = d \/ (s = z \o d /\ Plain(q, z))
  <2>1. w \o x \o <<>> = d
    BY <1>2 DEF d
  <2>2. s = d \/ s = z \o d
    BY <1>3, <2>1
  <2>3. CASE q.v = 37
    BY <1>3, <1>6, <1>9, <2>1, <2>2, <2>3
  <2>4. CASE q.v # 37
    BY <1>7, <1>9, <2>2, <2>4
  <2> QED BY <2>3, <2>4
<1> QED BY <1>8, <1>10, <1>11

-----------------------------------------------------------------------------
(* Putting the device down: what it shall receive, it opens again at the     *)
(* end.                                                                      *)
LEMMA WolRxIs ==
    ASSUME NEW q, NEW v, v = q.v
    PROVE  /\ Plain(q, rtl_wol_enable_rx(v))
           /\ v >= 25 => Ends(q, rtl_wol_enable_rx(v), 1, "RxConfig", "AcceptOk") \/ ~Asked(q, "RxConfig", "AcceptOk")
           /\ Gate(q, "MISC", "RXDV_GATED_EN") => Ends(q, rtl_wol_enable_rx(v), 1, "MISC", "RXDV_GATED_EN")
<1> DEFINE a == RMW("RxConfig", {}, {"AcceptOk"})
           x == If(v >= 25, a)
           y == If(v >= 40, rtl_disable_rxdvgate)
<1>1. /\ "RxConfig" \in PlainRegs /\ "MISC" \in PlainRegs /\ "RXDV_GATED_EN" \in Bits
      /\ {} \in SUBSET Bits /\ {"AcceptOk"} \in SUBSET Bits /\ {} \notin {ModeBits, ErrorBits}
  BY DEF PlainRegs, Registers, EriRegs, OcpRegs, Bits, ModeBits, ErrorBits
<1>2. Asked(q, "RxConfig", "AcceptOk") => Shall(q, "RxConfig", "AcceptOk")
  BY OnlyReception DEF Mode
<1>3. Fresh(a) /\ NoEphy(a) /\ Changes(a, "RxConfig", {}, {"AcceptOk"})
  BY <1>1, RMWChanges
<1>4. ~Shall(q, "MISC", "RXDV_GATED_EN")
  BY DEF Shall, Magic, Power, Link, Unicast, Broadcast, Multicast, Aspm, Filter, Reception
<1>5. /\ Plain(q, rtl_disable_rxdvgate) /\ Ends(q, rtl_disable_rxdvgate, 1, "MISC", "RXDV_GATED_EN")
  BY <1>1, <1>4, OneBit DEF rtl_disable_rxdvgate
<1>6. rtl_wol_enable_rx(v) = x \o y
  BY DEF rtl_wol_enable_rx
<1>7. /\ v >= 25 => x = a
      /\ v >= 40 => y = rtl_disable_rxdvgate
  BY DEF If
<1> HIDE DEF a
<1>8. Plain(q, a) /\ (Asked(q, "RxConfig", "AcceptOk") => Ends(q, a, 1, "RxConfig", "AcceptOk"))
  <2>1. \A b : Asked(q, "RxConfig", b) /\ b \in {} \cup {"AcceptOk"} => (b \in {"AcceptOk"} <=> Shall(q, "RxConfig", b))
    BY <1>2
  <2>2. Plain(q, a)
    BY <1>3, <2>1, ChangePlain
  <2>3. a \in Seq(Accesses) /\ "AcceptOk" \in {} \cup {"AcceptOk"} /\ "AcceptOk" \in {"AcceptOk"}
    BY <1>3 DEF Fresh
  <2>4. Shall(q, "RxConfig", "AcceptOk") => Ends(q, a, 1, "RxConfig", "AcceptOk")
    BY <1>3, <2>3, ChangeEnds
  <2> QED BY <1>2, <2>2, <2>4
<1>9. Plain(q, x) /\ Plain(q, y)
  BY <1>5, <1>8, IfPlain
<1> HIDE DEF x, y
<1>10. Plain(q, x \o y)
  BY <1>9, PlainJoins
<1>11. \A r, b : Asked(q, r, b) /\ (Ends(q, x, 1, r, b) \/ Ends(q, y, 1, r, b)) => Ends(q, x \o y, 1, r, b)
  BY <1>9, EndsAmong DEF Plain, Calm
<1>12. ASSUME Gate(q, "MISC", "RXDV_GATED_EN") PROVE Ends(q, x \o y, 1, "MISC", "RXDV_GATED_EN")
  <2>1. Asked(q, "MISC", "RXDV_GATED_EN") /\ v >= 40
    BY <1>12 DEF Asked, Gate
  <2> QED BY <1>5, <1>7, <1>11, <2>1
<1> QED BY <1>6, <1>7, <1>8, <1>10, <1>11, <1>12

(* rtl_prepare_power_down leaves the receiver on where the device shall wake *)
(* the system.                                                               *)
LEMMA PowerDownIs ==
    ASSUME NEW q, ~q.up, NEW w, w <=> ~q.deaf
    PROVE  /\ Calm(q, rtl_prepare_power_down(q.v, q.board, w))
           /\ q.v \notin {32, 33} => NoEphy(rtl_prepare_power_down(q.v, q.board, w))
           /\ \A r, b : Asked(q, r, b) /\ r \in {"RxConfig", "MISC"} =>
                Ends(q, rtl_prepare_power_down(q.v, q.board, w), 1, r, b)
<1> DEFINE t == If(q.v \in {32, 33}, Touch("ephy"))
           u == If(w, phy("0") \o rtl_wol_enable_rx(q.v))
           s == rtl_prepare_power_down(q.v, q.board, w)
<1>1. /\ Plain(q, rtl_wol_enable_rx(q.v))
      /\ q.v >= 25 => Ends(q, rtl_wol_enable_rx(q.v), 1, "RxConfig", "AcceptOk") \/ ~Asked(q, "RxConfig", "AcceptOk")
      /\ Gate(q, "MISC", "RXDV_GATED_EN") => Ends(q, rtl_wol_enable_rx(q.v), 1, "MISC", "RXDV_GATED_EN")
  BY WolRxIs
<1>2. Plain(q, phy("0"))
  BY PagePlain DEF Pages
<1>3. /\ Plain(q, phy("0") \o rtl_wol_enable_rx(q.v))
      /\ \A r, b : Ends(q, rtl_wol_enable_rx(q.v), 1, r, b) => Ends(q, phy("0") \o rtl_wol_enable_rx(q.v), 1, r, b)
  BY <1>1, <1>2, PlainJoins, EndsJoin DEF Plain, Calm, Fresh
<1>4. Plain(q, u) /\ Calm(q, t) /\ (q.v \notin {32, 33} => NoEphy(t))
  BY <1>3, IfPlain, IfCalm, EphyCalm, EmptyPlain DEF If, Plain
<1>5. /\ q.board.dash => s = <<>>
      /\ ~q.board.dash => s = t \o u
      /\ w => u = phy("0") \o rtl_wol_enable_rx(q.v)
  BY DEF rtl_prepare_power_down, If
<1>6. Plain(q, <<>>)
  BY EmptyPlain
<1> HIDE DEF t, u, s
<1>7. Calm(q, t \o u) /\ (q.v \notin {32, 33} => NoEphy(t \o u))
  BY <1>4, CalmJoins, NoEphyJoins DEF Plain, Calm, Fresh
<1>8. Calm(q, s) /\ (q.v \notin {32, 33} => NoEphy(s))
  BY <1>5, <1>6, <1>7 DEF Plain
<1>9. ASSUME NEW r, NEW b, Asked(q, r, b), r \in {"RxConfig", "MISC"} PROVE Ends(q, s, 1, r, b)
  <2>1. (r = "RxConfig" /\ Reception(q, r, b)) \/ Gate(q, r, b)
    BY <1>9 DEF Asked, Wakes, Magic, Power, Link, Unicast, Broadcast, Multicast, Aspm, Filter, Gate, Reception
  <2>2. Receives(q) /\ w /\ ~q.board.dash
    BY <2>1 DEF Reception, Gate, Receives
  <2>3. (r = "RxConfig" /\ b = "AcceptOk" /\ q.v >= 25) \/ (r = "MISC" /\ b = "RXDV_GATED_EN" /\ Gate(q, r, b))
    BY <2>1 DEF Reception, Gate
  <2>4. Ends(q, rtl_wol_enable_rx(q.v), 1, r, b)
    BY <1>1, <1>9, <2>3
  <2>5. Ends(q, u, 1, r, b)
    BY <1>3, <1>5, <2>2, <2>4
  <2>6. Ends(q, t \o u, 1, r, b)
    BY <1>4, <2>5, EndsJoin DEF Plain, Calm, Fresh
  <2> QED BY <1>5, <2>2, <2>6
<1> QED BY <1>8, <1>9 DEF s

(* So does rtl8169_down, which closes the receiver first.                    *)
LEMMA DownIs ==
    ASSUME NEW q, ~q.up, NEW w \in BOOLEAN, w <=> ~q.deaf
    PROVE  /\ Calm(q, rtl8169_down(q.v, q.board, w))
           /\ q.v \notin {32, 33} => NoEphy(rtl8169_down(q.v, q.board, w))
           /\ \A r, b : Asked(q, r, b) /\ r \in {"RxConfig", "MISC"} => Ends(q, rtl8169_down(q.v, q.board, w), 1, r, b)
<1> DEFINE t == Do("phy_stop", "phy", {}, {})
           u == If(~w, WriteBMCR(q.v, TRUE))
           x == rtl8169_cleanup(q.v)
           y == rtl_disable_exit_l1(q.v)
           z == rtl_prepare_power_down(q.v, q.board, w)
<1>1. Plain(q, t)
  BY LockClean DEF Names, Plain, Calm, Safe
<1>2. Plain(q, u)
  BY BMCRPlain, IfPlain
<1>3. Fresh(x) /\ NoEphy(x) /\ \A r, c : r \notin {"RxConfig", "MISC"} => Clean(x, 1, r, c)
  BY CleanupIs
<1>4. Plain(q, y)
  BY ExitL1Plain
<1>5. /\ Calm(q, z) /\ (q.v \notin {32, 33} => NoEphy(z))
      /\ \A r, b : Asked(q, r, b) /\ r \in {"RxConfig", "MISC"} => Ends(q, z, 1, r, b)
  BY PowerDownIs
<1>6. rtl8169_down(q.v, q.board, w) = t \o u \o x \o y \o z
  BY DEF rtl8169_down
<1> HIDE DEF t, u, x, y, z
<1>7. \A s : Fresh(s) => s \in Seq(Accesses)
  BY DEF Fresh
<1>8. Fresh(t) /\ Fresh(u) /\ Fresh(y) /\ Fresh(z) /\ NoEphy(t) /\ NoEphy(u) /\ NoEphy(y)
  BY <1>1, <1>2, <1>4, <1>5 DEF Plain, Calm
<1>9. /\ Fresh(t \o u) /\ Fresh(t \o u \o x) /\ Fresh(t \o u \o x \o y) /\ Fresh(t \o u \o x \o y \o z)
  BY <1>3, <1>8, FreshJoins
<1>10. /\ NoEphy(t \o u) /\ NoEphy(t \o u \o x) /\ NoEphy(t \o u \o x \o y)
       /\ NoEphy(z) => NoEphy(t \o u \o x \o y \o z)
  BY <1>3, <1>7, <1>8, <1>9, NoEphyJoins
<1>11. \A r, b : Ends(q, z, 1, r, b) => Ends(q, t \o u \o x \o y \o z, 1, r, b)
  BY <1>7, <1>8, <1>9, EndsJoin
<1>12. ASSUME NEW r, NEW b, Asked(q, r, b) PROVE Safe(q, t \o u \o x \o y \o z, 1, r, b)
  <2>1. CASE r \in {"RxConfig", "MISC"}
    BY <1>5, <1>11, <1>12, <2>1 DEF Safe
  <2>2. CASE r \notin {"RxConfig", "MISC"}
    <3>1. Safe(q, t, 1, r, b) /\ Safe(q, u, 1, r, b) /\ Safe(q, x, 1, r, b) /\ Safe(q, y, 1, r, b) /\ Safe(q, z, 1, r, b)
      BY <1>1, <1>2, <1>3, <1>4, <1>5, <1>12, <2>2 DEF Plain, Calm, Safe
    <3>2. Safe(q, t \o u, 1, r, b)
      BY <1>7, <1>8, <3>1, SafeJoins
    <3>3. Safe(q, t \o u \o x, 1, r, b)
      BY <1>3, <1>7, <1>9, <3>1, <3>2, SafeJoins
    <3>4. Safe(q, t \o u \o x \o y, 1, r, b)
      BY <1>7, <1>8, <1>9, <3>1, <3>3, SafeJoins
    <3> QED BY <1>7, <1>8, <1>9, <3>1, <3>4, SafeJoins
  <2> QED BY <2>1, <2>2
<1> QED BY <1>5, <1>6, <1>9, <1>10, <1>11, <1>12 DEF Calm

(* rtl8169_runtime_suspend asks for the link's changes alone, and gets them. *)
LEMMA RuntimeSuspendIs ==
    ASSUME NEW q, ~q.up, ~q.deaf, q.wol = {"PHY"}
    PROVE  /\ Calm(q, rtl8169_runtime_suspend(q.v, q.board, TRUE))
           /\ q.v \notin {32, 33} => NoEphy(rtl8169_runtime_suspend(q.v, q.board, TRUE))
           /\ \A r, b : Asked(q, r, b) =>
                Ends(q, rtl8169_runtime_suspend(q.v, q.board, TRUE), 1, r, b) \/ Aspm(r, b) \/ Filter(q, r, b)
<1> DEFINE x == rtl8169_set_wol(q.v, q.board, {"PHY"})
           y == rtl8169_down(q.v, q.board, TRUE)
<1>1. q.wol \subseteq WolOpts /\ (TRUE <=> ~q.deaf)
  BY DEF WolOpts
<1>2. Plain(q, x) /\ \A r, b : Wakes(q, r, b) => Ends(q, x, 1, r, b)
  BY <1>1, SetWolIs
<1>3. /\ Calm(q, y) /\ (q.v \notin {32, 33} => NoEphy(y))
      /\ \A r, b : Asked(q, r, b) /\ r \in {"RxConfig", "MISC"} => Ends(q, y, 1, r, b)
  BY <1>1, DownIs
<1>4. rtl8169_runtime_suspend(q.v, q.board, TRUE) = x \o y
  BY DEF rtl8169_runtime_suspend, rtl8169_net_suspend, If
<1> HIDE DEF x, y
<1>5. Calm(q, x \o y) /\ (q.v \notin {32, 33} => NoEphy(x \o y))
  BY <1>2, <1>3, CalmJoins, NoEphyJoins DEF Plain, Calm, Fresh
<1>6. \A r, b : Asked(q, r, b) /\ (Ends(q, x, 1, r, b) \/ Ends(q, y, 1, r, b)) => Ends(q, x \o y, 1, r, b)
  BY <1>2, <1>3, EndsAmong DEF Plain, Calm
<1>7. ASSUME NEW r, NEW b, Asked(q, r, b) PROVE Ends(q, x \o y, 1, r, b) \/ Aspm(r, b) \/ Filter(q, r, b)
  BY <1>2, <1>3, <1>6, <1>7 DEF Asked, Gate, Reception
<1> QED BY <1>4, <1>5, <1>7

-----------------------------------------------------------------------------
(* What phylib runs beside main: but for the reset of an RTL8125, it only    *)
(* uses the ERI window and the PHY.                                          *)
EriOnly(s) == \A i \in 1 .. Len(s) : s[i].op \notin {"wr", "put", "get", "ocp_write", "touch"}

(* Scripts that write through the ERI window alone, one after the other.     *)
LEMMA EriOnlyJoins ==
    ASSUME NEW s \in Seq(Accesses), NEW u \in Seq(Accesses), EriOnly(s), EriOnly(u)
    PROVE  EriOnly(s \o u)
<1> DEFINE z == s \o u
           m == Len(s)
           P(a) == a.op \notin {"wr", "put", "get", "ocp_write", "touch"}
<1>1. /\ Len(z) = m + Len(u) /\ m \in Nat /\ Len(u) \in Nat
      /\ \A i \in 1 .. m : z[i] = s[i]
      /\ \A i \in 1 .. Len(u) : z[m + i] = u[i]
  BY Joined
<1>2. /\ \A i \in 1 .. m : P(s[i])
      /\ \A i \in 1 .. Len(u) : P(u[i])
      /\ EriOnly(z) <=> \A i \in 1 .. Len(z) : P(z[i])
  BY DEF EriOnly
<1> HIDE DEF z, m, P
<1>3. ASSUME NEW i \in 1 .. Len(z) PROVE P(z[i])
  <2>1. CASE i \in 1 .. m BY <2>1, <1>1, <1>2
  <2>2. CASE i \notin 1 .. m
    <3>1. i - m \in 1 .. Len(u) /\ m + (i - m) = i
      BY <2>2, <1>1
    <3>2. z[m + (i - m)] = u[i - m]
      BY <3>1, <1>1
    <3> QED BY <3>1, <3>2, <1>2
  <2> QED BY <2>1, <2>2
<1> QED BY <1>2, <1>3 DEF z

(* An access that writes no other register.                                  *)
LEMMA EriOnlyOne ==
    ASSUME NEW op \in Ops \ {"wr", "put", "get", "ocp_write", "touch"}, NEW reg \in Names,
           NEW clear \in SUBSET Bits, NEW set \in SUBSET Bits
    PROVE  Do(op, reg, clear, set) \in Seq(Accesses) /\ EriOnly(Do(op, reg, clear, set))
<1> DEFINE s == Do(op, reg, clear, set)
<1>1. s \in Seq(Accesses) /\ Len(s) = 1 /\ s[1] = [op |-> op, reg |-> reg, clear |-> clear, set |-> set]
  BY One
<1>2. s[1].op = op
  BY <1>1
<1> HIDE DEF s
<1>3. EriOnly(s)
  BY <1>1, <1>2 DEF EriOnly
<1> QED BY <1>1, <1>3 DEF s

(* The accesses the link handler and phylib are made of.                     *)
LEMMA EriOnlyPieces ==
    /\ \A reg \in EriRegs : \A set \in SUBSET Bits :
         EriOnly(EriWrite(reg, set)) /\ EriWrite(reg, set) \in Seq(Accesses)
    /\ \A reg \in EriRegs : \A clear, set \in SUBSET Bits :
         EriOnly(EriModify(reg, clear, set)) /\ EriModify(reg, clear, set) \in Seq(Accesses)
    /\ EriOnly(phy("0")) /\ EriOnly(Paged("a43"))
    /\ \A s \in Seq(Accesses) : EriOnly(s) => EriOnly(Under("mdio_lock", s))
<1> DEFINE Some == Ops \ {"wr", "put", "get", "ocp_write", "touch"}
<1>1. {"eridr", "eri_write", "eri_read", "eri_data", "acquire", "release", "phy", "save", "restore"} \subseteq Some
  BY DEF Ops, PhyOps
<1>2. {} \in SUBSET Bits /\ Bits \in SUBSET Bits
  OBVIOUS
<1>3. EriRegs \subseteq Names /\ {"0", "a43", "mdio_lock"} \subseteq Names
  BY DEF EriRegs, Registers, Names, Pages, Locks
<1>4. \A op \in Some : \A reg \in Names : \A clear, set \in SUBSET Bits :
         Do(op, reg, clear, set) \in Seq(Accesses) /\ EriOnly(Do(op, reg, clear, set))
  BY EriOnlyOne
<1> HIDE DEF Some
<1>5. ASSUME NEW reg \in EriRegs, NEW set \in SUBSET Bits
      PROVE  EriOnly(EriWrite(reg, set)) /\ EriWrite(reg, set) \in Seq(Accesses)
  <2> DEFINE x == Do("eridr", reg, Bits, set)
             y == Do("eri_write", reg, Bits, set)
  <2>1. EriOnly(x) /\ EriOnly(y) /\ x \in Seq(Accesses) /\ y \in Seq(Accesses)
    BY <1>1, <1>2, <1>3, <1>4
  <2>2. EriWrite(reg, set) = x \o y
    BY DEF EriWrite
  <2> HIDE DEF x, y
  <2> QED BY <2>1, <2>2, EriOnlyJoins, Joined
<1>6. ASSUME NEW reg \in EriRegs, NEW clear \in SUBSET Bits, NEW set \in SUBSET Bits
      PROVE  EriOnly(EriModify(reg, clear, set)) /\ EriModify(reg, clear, set) \in Seq(Accesses)
  <2> DEFINE w == Do("eri_read", reg, {}, {})
             x == Do("eri_data", reg, {}, {})
             y == Do("eridr", reg, clear, set)
             z == Do("eri_write", reg, clear, set)
  <2>1. /\ EriOnly(w) /\ EriOnly(x) /\ EriOnly(y) /\ EriOnly(z)
        /\ w \in Seq(Accesses) /\ x \in Seq(Accesses) /\ y \in Seq(Accesses) /\ z \in Seq(Accesses)
    BY <1>1, <1>2, <1>3, <1>4
  <2>2. EriModify(reg, clear, set) = w \o x \o y \o z
    BY DEF EriModify, EriRead
  <2> HIDE DEF w, x, y, z
  <2>3. EriOnly(w \o x) /\ w \o x \in Seq(Accesses)
    BY <2>1, EriOnlyJoins, Joined
  <2>4. EriOnly(w \o x \o y) /\ w \o x \o y \in Seq(Accesses)
    BY <2>1, <2>3, EriOnlyJoins, Joined
  <2> QED BY <2>1, <2>2, <2>4, EriOnlyJoins, Joined
<1>7. ASSUME NEW s \in Seq(Accesses), EriOnly(s) PROVE EriOnly(Under("mdio_lock", s))
  <2> DEFINE x == Do("acquire", "mdio_lock", {}, {})
             y == Do("release", "mdio_lock", {}, {})
  <2>1. EriOnly(x) /\ EriOnly(y) /\ x \in Seq(Accesses) /\ y \in Seq(Accesses)
    BY <1>1, <1>2, <1>3, <1>4
  <2>2. Under("mdio_lock", s) = x \o s \o y
    BY DEF Under
  <2> HIDE DEF x, y
  <2>3. EriOnly(x \o s) /\ x \o s \in Seq(Accesses)
    BY <1>7, <2>1, EriOnlyJoins, Joined
  <2> QED BY <2>1, <2>2, <2>3, EriOnlyJoins
<1>8. EriOnly(phy("0"))
  BY <1>1, <1>2, <1>3, <1>4 DEF phy
<1>9. EriOnly(Paged("a43"))
  <2> DEFINE x == Do("save", "a43", {}, {})
             y == phy("a43")
             z == Do("restore", "0", {}, {})
  <2>1. /\ EriOnly(x) /\ EriOnly(y) /\ EriOnly(z)
        /\ x \in Seq(Accesses) /\ y \in Seq(Accesses) /\ z \in Seq(Accesses)
    BY <1>1, <1>2, <1>3, <1>4 DEF phy
  <2>2. Paged("a43") = Under("mdio_lock", x \o y \o z)
    BY DEF Paged
  <2> HIDE DEF x, y, z
  <2>3. EriOnly(x \o y) /\ x \o y \in Seq(Accesses)
    BY <2>1, EriOnlyJoins, Joined
  <2>4. EriOnly(x \o y \o z) /\ x \o y \o z \in Seq(Accesses)
    BY <2>1, <2>3, EriOnlyJoins, Joined
  <2> QED BY <1>7, <2>2, <2>4
<1> QED BY <1>5, <1>6, <1>7, <1>8, <1>9

(* The empty script.                                                         *)
LEMMA EmptyEriOnly == EriOnly(<<>>) /\ <<>> \in Seq(Accesses)
BY DEF EriOnly

(* rtl_link_chg_patch writes ERI registers alone, and spoils nothing.        *)
LEMMA LinkPatchIs ==
    ASSUME NEW v, NEW speed
    PROVE  /\ EriOnly(rtl_link_chg_patch(v, speed))
           /\ \A q : Plain(q, rtl_link_chg_patch(v, speed))
<1> DEFINE e == EriWrite("eri", {})
           f == rtl_reset_packet_filter
           g == EriWrite("eri_1d0", SetIf(speed = 10, {"b1"}))
           s == rtl_link_chg_patch(v, speed)
           P(z) == EriOnly(z) /\ z \in Seq(Accesses) /\ \A q : Plain(q, z)
<1>1. SetIf(speed = 10, {"b1"}) \in SUBSET Bits /\ {} \in SUBSET Bits /\ {"filter"} \in SUBSET Bits
  BY DEF SetIf, Bits
<1>2. "eri" \in EriRegs /\ "eri_1d0" \in EriRegs /\ "eri_dc" \in EriRegs
  BY DEF EriRegs
<1>3. P(e) /\ P(g)
  BY <1>1, <1>2, EriOnlyPieces, EriPlain
<1>4. P(f)
  <2> DEFINE x == EriModify("eri_dc", {"filter"}, {})
             y == EriModify("eri_dc", {}, {"filter"})
  <2>1. EriOnly(x) /\ EriOnly(y) /\ x \in Seq(Accesses) /\ y \in Seq(Accesses)
    BY <1>1, <1>2, EriOnlyPieces
  <2>2. f = x \o y
    BY DEF rtl_reset_packet_filter
  <2> HIDE DEF x, y, f
  <2>3. EriOnly(f) /\ f \in Seq(Accesses)
    BY <2>1, <2>2, EriOnlyJoins, Joined
  <2>4. \A q : Plain(q, f)
    BY FilterEnds DEF f
  <2> QED BY <2>3, <2>4
<1>5. P(<<>>)
  BY EmptyEriOnly, EmptyPlain
<1>6. \A x, y : P(x) /\ P(y) => P(x \o y)
  BY EriOnlyJoins, Joined, PlainJoins
<1>7. s \in {e \o e \o f, e \o e, g \o If(speed = 10, e), <<>>}
  BY DEF rtl_link_chg_patch
<1> HIDE DEF e, f, g, s, P
<1>8. P(If(speed = 10, e))
  BY <1>3, <1>5 DEF If
<1>9. P(e \o e) /\ P(e \o e \o f) /\ P(g \o If(speed = 10, e))
  BY <1>3, <1>4, <1>6, <1>8
<1>10. P(s)
  BY <1>5, <1>7, <1>9
<1> QED BY <1>10 DEF P, s

(* A script the link handler or phylib's other calls may run beside the      *)
(* operations, whatever is asked of the device meanwhile.                    *)
Linkable(v, b, s) ==
    /\ \A q : Suits(q) /\ q.v = v /\ q.board = b => Calm(q, s)
    /\ v >= 32 => Sheltered(s)
    /\ v < 61 => EriOnly(s)

(* What the link handler and phylib's other calls run is such a script.      *)
LEMMA LinkIs ==
    ASSUME NEW v \in Versions, NEW b \in Boards(v), NEW s,
           \/ \E speed : s = rtl_link_chg_patch(v, speed)
           \/ s = WriteBMCR(v, FALSE) \/ s = Paged("a43") \/ s = link_down(v, b)
    PROVE  Linkable(v, b, s)
<1> USE DEF Linkable
<1>0. v \in Nat
  BY DEF Versions
<1>1. CASE \E speed : s = rtl_link_chg_patch(v, speed)
  <2>1. EriOnly(s) /\ \A q : Plain(q, s)
    BY <1>1, LinkPatchIs
  <2>2. NoEphy(s)
    BY <2>1 DEF EriOnly, NoEphy
  <2> QED BY <2>1, <2>2, NoEphySheltered DEF Plain
<1>2. CASE s = WriteBMCR(v, FALSE)
  <2>1. \A q : Plain(q, s)
    BY <1>2, BMCRPlain
  <2>2. EriOnly(s)
    <3> DEFINE x == If(v = 40, EriModify("eri_1a8", SetIf(FALSE, {"b4"}), SetIf(~FALSE, {"b4"})))
               y == phy("0")
    <3>1. /\ SetIf(FALSE, {"b4"}) \in SUBSET Bits /\ SetIf(~FALSE, {"b4"}) \in SUBSET Bits
          /\ "eri_1a8" \in EriRegs
      BY DEF SetIf, Bits, EriRegs
    <3>2. EriOnly(x) /\ x \in Seq(Accesses)
      BY <3>1, EriOnlyPieces, EmptyEriOnly DEF If
    <3>3. EriOnly(y) /\ y \in Seq(Accesses)
      <4>1. \A q : Plain(q, y)
        BY PagePlain DEF Pages
      <4> QED BY <4>1, EriOnlyPieces DEF Plain, Calm, Fresh
    <3>4. s = Under("mdio_lock", x \o y)
      BY <1>2 DEF WriteBMCR, rtl8168g_phy_suspend_quirk
    <3> HIDE DEF x, y
    <3>5. EriOnly(x \o y) /\ x \o y \in Seq(Accesses)
      BY <3>2, <3>3, EriOnlyJoins, Joined
    <3> QED BY <3>4, <3>5, EriOnlyPieces
  <2>3. NoEphy(s)
    BY <2>2 DEF EriOnly, NoEphy
  <2> QED BY <2>1, <2>2, <2>3, NoEphySheltered DEF Plain
<1>3. CASE s = Paged("a43")
  <2>1. EriOnly(s)
    BY <1>3, EriOnlyPieces
  <2>2. \A q : Plain(q, s)
    BY <1>3, PagePlain DEF Pages
  <2>3. NoEphy(s)
    BY <2>1 DEF EriOnly, NoEphy
  <2> QED BY <2>1, <2>2, <2>3, NoEphySheltered DEF Plain
<1>4. CASE s = link_down(v, b) /\ v < 61
  <2>0. ~(v >= 61)
    BY <1>0, <1>4
  <2>1. s = <<>>
    BY <1>4, <2>0 DEF link_down, rtl_is_8125, If
  <2> QED BY <2>1, EmptyPlain, EmptyEriOnly, NoEphySheltered DEF Plain
<1>5. CASE s = link_down(v, b) /\ v >= 61
  <2>1. s = rtl_reset_work(v, b, FALSE)
    BY <1>0, <1>5 DEF link_down, rtl_is_8125, If
  <2>2. \A q : Suits(q) /\ q.v = v /\ q.board = b => Calm(q, s) /\ (v >= 32 => Sheltered(s))
    BY <2>1, ResetIs
  <2> DEFINE p == [v |-> v, board |-> b, aspm |-> b.aspm_manageable /\ v \notin {42, 43}]
  <2>3. Suits(p) /\ p.v = v /\ p.board = b
    BY DEF Suits
  <2> HIDE DEF p
  <2>4. ~(v < 61)
    BY <1>0, <1>5
  <2> QED BY <2>2, <2>3, <2>4
<1>6. v < 61 \/ v >= 61
  BY <1>0
<1> DEFINE G == Linkable(v, b, s)
<1>7. \/ \E speed : s = rtl_link_chg_patch(v, speed)
      \/ s = WriteBMCR(v, FALSE) \/ s = Paged("a43") \/ s = link_down(v, b)
  OBVIOUS
<1>8. /\ (\E speed : s = rtl_link_chg_patch(v, speed)) => G
      /\ s = WriteBMCR(v, FALSE) => G
      /\ s = Paged("a43") => G
      /\ s = link_down(v, b) /\ v < 61 => G
      /\ s = link_down(v, b) /\ v >= 61 => G
  BY <1>1, <1>2, <1>3, <1>4, <1>5
<1> HIDE DEF G
<1>9. G
  BY <1>6, <1>7, <1>8
<1> QED BY <1>9 DEF G

-----------------------------------------------------------------------------
(* Where a script leaves the page, and what it relies on before each access:   *)
(* the pages the PHY may be on, and the ones phylib may have saved; whether it *)
(* has the lock of the bus, and the firmware the page it means; and whether    *)
(* phylib is stopped, works beside it, or may but is not heeded (by the reset  *)
(* of 52, whose firmware moves the page under phylib).                         *)
PhylibKinds == {"off", "beside", "unheeded"}
Notes == [now : SUBSET Names, old : SUBSET Names, has : SUBSET {"bus", "fw"}, phylib : PhylibKinds]
Note(X, h, k) == [now |-> X, old |-> Names, has |-> h, phylib |-> k]

(* The page at rest, and the one the firmware leaves.                          *)
RestsOnFw == {25, 26, 29, 30, 35, 36}
Home(v) == {"0"} \cup (IF v \in RestsOnFw THEN {"fw"} ELSE {})
Left(v) == {"0"} \cup (IF v < 40 THEN {"fw"} ELSE {})

Fits(v, a, m) ==
    /\ a.op = "phy" => \A p \in m.now : p = a.reg \/ (v < 40 /\ p = "fw" /\ a.reg = "0")
    /\ a.op = "fw_data" => "fw" \in m.has
Turns(a, m, n) ==
    /\ a.op \in {"page", "save"} => a.reg \in n.now
    /\ a.op = "save" => m.now \subseteq n.old
    /\ a.op = "restore" => m.old \subseteq n.now /\ "0" \in n.old
    /\ a.op = "fw_page" => {"0", "fw"} \subseteq n.now
    /\ a.op = "fw_base" => "0" \in n.now
    /\ a.op \notin {"page", "save", "restore", "fw_page", "fw_base"} => m.now \subseteq n.now
    /\ a.op \notin {"save", "restore"} => m.old \subseteq n.old
    /\ "fw" \in n.has => a.op = "fw_page" \/ ("fw" \in m.has /\ a.op \notin PhyOps)
Keeps(a, m, n) ==
    /\ "bus" \in n.has <=>
         \/ a.op = "acquire" /\ a.reg = "mdio_lock"
         \/ "bus" \in m.has /\ ~(a.op = "release" /\ a.reg = "mdio_lock")
    /\ a.op = "phy_start" => n.phylib # "off"
    /\ m.phylib # "off" => n.phylib = m.phylib \/ a.op = "phy_stop"
    /\ m.phylib = "beside" /\ "bus" \notin m.has => a.op \notin PhyOps
Leads(v, a, m, n) == Fits(v, a, m) /\ Turns(a, m, n) /\ Keeps(a, m, n)

(* Beside phylib a script without the lock counts on the page at rest alone.   *)
Sound(v, m) ==
    /\ m \in Notes
    /\ m.phylib = "beside" /\ "bus" \notin m.has => m = Note(Home(v), {}, "beside")
    /\ m.phylib = "unheeded" => v = 52

Noted(v, s, N) ==
    /\ N \in [1 .. (Len(s) + 1) -> Notes]
    /\ \A i \in 1 .. (Len(s) + 1) : Sound(v, N[i])
    /\ \A i \in 1 .. Len(s) : Leads(v, s[i], N[i], N[i + 1])
Walk(v, m, s, n) ==
    /\ s \in Seq(Accesses)
    /\ \E N : Noted(v, s, N) /\ N[1] = m /\ N[Len(s) + 1] = n

-----------------------------------------------------------------------------
(* A script that does nothing, and one access.                                 *)
LEMMA EmptyWalk == ASSUME NEW v, NEW m, Sound(v, m) PROVE Walk(v, m, <<>>, m)
<1> DEFINE N == [i \in 1 .. 1 |-> m]
<1>1. <<>> \in Seq(Accesses) /\ Len(<<>>) = 0
  OBVIOUS
<1>2. m \in Notes
  BY DEF Sound
<1>3. N \in [1 .. 1 -> Notes] /\ N[1] = m
  BY <1>2
<1> HIDE DEF N
<1>4. 1 .. (Len(<<>>) + 1) = 1 .. 1 /\ (\A i \in 1 .. 1 : i = 1) /\ 1 .. Len(<<>>) = {}
  BY <1>1
<1>5. Noted(v, <<>>, N)
  BY <1>3, <1>4 DEF Noted
<1> QED BY <1>1, <1>3, <1>5 DEF Walk

(* A script of one access.                                                     *)
LEMMA OneWalk ==
    ASSUME NEW v, NEW m, NEW n, Sound(v, m), Sound(v, n),
           NEW op \in Ops, NEW reg \in Names, NEW clear \in SUBSET Bits, NEW set \in SUBSET Bits,
           Leads(v, [op |-> op, reg |-> reg, clear |-> clear, set |-> set], m, n)
    PROVE  Walk(v, m, Do(op, reg, clear, set), n)
<1> DEFINE s == Do(op, reg, clear, set)
           N == [i \in 1 .. 2 |-> IF i = 1 THEN m ELSE n]
<1>1. s \in Seq(Accesses) /\ Len(s) = 1 /\ s[1] = [op |-> op, reg |-> reg, clear |-> clear, set |-> set]
  BY One
<1> HIDE DEF s
<1>2. N[1] = m /\ N[2] = n
  OBVIOUS
<1>3. N \in [1 .. (Len(s) + 1) -> Notes] /\ \A i \in 1 .. (Len(s) + 1) : Sound(v, N[i])
  <2>1. m \in Notes /\ n \in Notes
    BY DEF Sound
  <2>2. 1 .. (Len(s) + 1) = 1 .. 2 /\ \A i \in 1 .. 2 : i = 1 \/ i = 2
    BY <1>1
  <2>3. N \in [1 .. 2 -> Notes]
    BY <2>1
  <2> QED BY <1>2, <2>2, <2>3
<1>4. \A i \in 1 .. Len(s) : Leads(v, s[i], N[i], N[i + 1])
  <2> TAKE i \in 1 .. Len(s)
  <2>1. i = 1 /\ i + 1 = 2
    BY <1>1
  <2> QED BY <1>1, <1>2, <2>1
<1>5. Noted(v, s, N)
  BY <1>3, <1>4 DEF Noted
<1> QED BY <1>1, <1>2, <1>5 DEF Walk, s

(* One walk after another.                                                     *)
LEMMA WalkJoins ==
    ASSUME NEW v, NEW m, NEW k, NEW n, NEW s, NEW u, Walk(v, m, s, k), Walk(v, k, u, n)
    PROVE  Walk(v, m, s \o u, n)
<1>1. s \in Seq(Accesses) /\ u \in Seq(Accesses)
  BY DEF Walk
<1>2. PICK M : Noted(v, s, M) /\ M[1] = m /\ M[Len(s) + 1] = k
  BY DEF Walk
<1>3. PICK N : Noted(v, u, N) /\ N[1] = k /\ N[Len(u) + 1] = n
  BY DEF Walk
<1> DEFINE z == s \o u
           c == Len(s)
           d == Len(u)
           R == [i \in 1 .. (c + d + 1) |-> IF i <= c THEN M[i] ELSE N[i - c]]
<1>4. /\ z \in Seq(Accesses) /\ Len(z) = c + d /\ c \in Nat /\ d \in Nat
      /\ \A i \in 1 .. c : z[i] = s[i]
      /\ \A i \in 1 .. d : z[c + i] = u[i]
  BY <1>1, Joined
<1>5. /\ \A i \in 1 .. (c + 1) : M[i] \in Notes /\ Sound(v, M[i])
      /\ \A i \in 1 .. c : Leads(v, s[i], M[i], M[i + 1])
      /\ M[c + 1] = N[1] /\ M[1] = m
  BY <1>2, <1>3 DEF Noted
<1>6. /\ \A i \in 1 .. (d + 1) : N[i] \in Notes /\ Sound(v, N[i])
      /\ \A i \in 1 .. d : Leads(v, u[i], N[i], N[i + 1])
      /\ N[d + 1] = n
  BY <1>3 DEF Noted
<1> HIDE DEF z, c, d
<1>7. /\ \A i \in 1 .. (c + 1) : R[i] = M[i]
      /\ \A i \in 1 .. (d + 1) : R[c + i] = N[i]
  <2>1. ASSUME NEW i \in 1 .. (c + 1) PROVE R[i] = M[i]
    <3>1. CASE i <= c
      BY <3>1, <1>4
    <3>2. CASE i = c + 1
      <4>1. i - c = 1 /\ ~(i <= c) /\ i \in 1 .. (c + d + 1)
        BY <3>2, <1>4
      <4>2. R[i] = N[1]
        BY <4>1
      <4> QED BY <4>2, <3>2, <1>5
    <3> QED BY <3>1, <3>2, <1>4
  <2>2. ASSUME NEW i \in 1 .. (d + 1) PROVE R[c + i] = N[i]
    <3>1. (c + i) - c = i /\ ~(c + i <= c) /\ c + i \in 1 .. (c + d + 1)
      BY <1>4
    <3> QED BY <3>1
  <2> QED BY <2>1, <2>2
<1>8. ASSUME NEW i \in 1 .. (Len(z) + 1) PROVE R[i] \in Notes /\ Sound(v, R[i])
  <2>1. CASE i \in 1 .. (c + 1)
    BY <2>1, <1>5, <1>7
  <2>2. CASE i - c \in 1 .. (d + 1) /\ c + (i - c) = i
    <3>1. R[c + (i - c)] = N[i - c]
      BY <2>2, <1>7
    <3> QED BY <3>1, <2>2, <1>6
  <2> QED BY <2>1, <2>2, <1>4
<1>9. ASSUME NEW i \in 1 .. Len(z) PROVE Leads(v, z[i], R[i], R[i + 1])
  <2>1. CASE i \in 1 .. c
    <3>1. i \in 1 .. (c + 1) /\ i + 1 \in 1 .. (c + 1)
      BY <2>1, <1>4
    <3> QED BY <3>1, <2>1, <1>4, <1>5, <1>7
  <2>2. CASE i - c \in 1 .. d /\ c + (i - c) = i
    <3> DEFINE j == i - c
    <3>1. j \in 1 .. (d + 1) /\ j + 1 \in 1 .. (d + 1) /\ c + (j + 1) = i + 1
      BY <2>2, <1>4
    <3>2. j \in 1 .. d /\ c + j = i
      BY <2>2
    <3> HIDE DEF j
    <3>3. z[c + j] = u[j] /\ R[c + j] = N[j] /\ R[c + (j + 1)] = N[j + 1]
      BY <3>1, <3>2, <1>4, <1>7
    <3>4. z[i] = u[j] /\ R[i] = N[j] /\ R[i + 1] = N[j + 1]
      BY <3>1, <3>2, <3>3
    <3> QED BY <3>2, <3>4, <1>6
  <2> QED BY <2>1, <2>2, <1>4
<1>10. R \in [1 .. (Len(z) + 1) -> Notes]
  <2>1. Len(z) + 1 = c + d + 1
    BY <1>4
  <2>2. \A i \in 1 .. (c + d + 1) : R[i] \in Notes
    BY <1>8, <2>1
  <2> QED BY <2>1, <2>2
<1>11. R[1] = m /\ R[Len(z) + 1] = n
  <2>1. 1 \in 1 .. (c + 1) /\ d + 1 \in 1 .. (d + 1) /\ c + (d + 1) = Len(z) + 1
    BY <1>4
  <2>2. R[1] = M[1] /\ R[c + (d + 1)] = N[d + 1]
    BY <2>1, <1>7
  <2> QED BY <2>1, <2>2, <1>5, <1>6
<1> HIDE DEF R
<1>12. Noted(v, z, R)
  BY <1>8, <1>9, <1>10 DEF Noted
<1> QED BY <1>4, <1>11, <1>12 DEF Walk, z

-----------------------------------------------------------------------------
(* Scripts that leave the page alone, whatever they were started in.           *)
Quiet(v, s) == \A m : Sound(v, m) => Walk(v, m, s, m)

(* An access outside the PHY, but for phylib and the lock of its bus.          *)
LEMMA QuietOne ==
    ASSUME NEW v, NEW op \in Ops \ (PhyOps \cup {"phy_stop", "phy_start"}), NEW reg \in Names,
           NEW clear \in SUBSET Bits, NEW set \in SUBSET Bits,
           op \in {"acquire", "release"} => reg # "mdio_lock"
    PROVE  Quiet(v, Do(op, reg, clear, set))
<1> SUFFICES ASSUME NEW m, Sound(v, m) PROVE Walk(v, m, Do(op, reg, clear, set), m)
  BY DEF Quiet
<1> DEFINE a == [op |-> op, reg |-> reg, clear |-> clear, set |-> set]
<1>1. a.op = op /\ a.reg = reg
  OBVIOUS
<1> HIDE DEF a
<1>3. Fits(v, a, m) /\ Turns(a, m, m) /\ Keeps(a, m, m)
  BY <1>1 DEF Fits, Turns, Keeps, PhyOps
<1> QED BY <1>3, OneWalk DEF Leads, a

(* One after the other, or left out.                                           *)
LEMMA QuietJoins == ASSUME NEW v, NEW s, NEW u, Quiet(v, s), Quiet(v, u) PROVE Quiet(v, s \o u)
BY WalkJoins DEF Quiet

(* A script that may be left out.                                              *)
LEMMA QuietIf == ASSUME NEW v, NEW s, NEW c, c => Quiet(v, s) PROVE Quiet(v, If(c, s)) /\ Quiet(v, <<>>)
BY EmptyWalk DEF Quiet, If

(* The accesses that scripts are made of, outside the PHY.                     *)
LEMMA QuietPieces ==
    ASSUME NEW v, NEW reg \in Names, NEW clear \in SUBSET Bits, NEW set \in SUBSET Bits
    PROVE  /\ Quiet(v, RMW(reg, clear, set)) /\ Quiet(v, Put(reg, set)) /\ Quiet(v, Touch(reg))
           /\ Quiet(v, ModConfig(reg, clear, set)) /\ Quiet(v, EriWrite(reg, set))
           /\ Quiet(v, EriModify(reg, clear, set)) /\ Quiet(v, OcpModify(reg, clear, set))
           /\ Quiet(v, Do("get", reg, {}, {}))
<1> DEFINE Q(s) == Quiet(v, s)
<1>1. /\ {"rd", "wr", "put", "get", "touch", "eri_read", "eri_data", "eridr", "eri_write", "ocp_addr",
          "ocp_data", "ocp_write", "acquire", "release"} \subseteq Ops \ (PhyOps \cup {"phy_stop", "phy_start"})
      /\ {} \in SUBSET Bits /\ Bits \in SUBSET Bits
      /\ "config25_lock" \in Names /\ "mac_ocp_lock" \in Names
  BY DEF Ops, PhyOps, Names, Locks
<1>2. /\ Q(Do("rd", reg, {}, {})) /\ Q(Do("wr", reg, clear, set)) /\ Q(Do("put", reg, {}, set))
      /\ Q(Do("touch", reg, {}, {})) /\ Q(Do("get", reg, {}, {}))
  BY <1>1, QuietOne
<1>3. /\ Q(Do("eridr", reg, Bits, set)) /\ Q(Do("eri_write", reg, Bits, set))
      /\ Q(Do("eri_read", reg, {}, {})) /\ Q(Do("eri_data", reg, {}, {}))
      /\ Q(Do("eridr", reg, clear, set)) /\ Q(Do("eri_write", reg, clear, set))
  BY <1>1, QuietOne
<1>4. /\ Q(Do("ocp_addr", reg, {}, {})) /\ Q(Do("ocp_data", reg, {}, {}))
      /\ Q(Do("ocp_write", reg, clear, set))
  BY <1>1, QuietOne
<1>5. \A l \in {"config25_lock", "mac_ocp_lock"} : Q(Do("acquire", l, {}, {})) /\ Q(Do("release", l, {}, {}))
  BY <1>1, QuietOne
<1>6. \A s, u : Q(s) /\ Q(u) => Q(s \o u)
  BY QuietJoins
<1> HIDE DEF Q
<1>7. Q(RMW(reg, clear, set)) /\ Q(Put(reg, set)) /\ Q(Touch(reg))
  BY <1>2, <1>6 DEF RMW, Put, Touch
<1>8. Q(ModConfig(reg, clear, set))
  BY <1>5, <1>6, <1>7 DEF ModConfig, Under
<1>9. Q(EriWrite(reg, set))
  BY <1>3, <1>6 DEF EriWrite
<1>10. Q(EriModify(reg, clear, set))
  BY <1>3, <1>6 DEF EriModify, EriRead
<1>11. Q(OcpModify(reg, clear, set))
  BY <1>4, <1>5, <1>6 DEF OcpModify, Under
<1> QED BY <1>2, <1>7, <1>8, <1>9, <1>10, <1>11 DEF Q

(* An unlocked stretch of them.                                                *)
LEMMA QuietUnlocked == ASSUME NEW v, NEW s, Quiet(v, s) PROVE Quiet(v, Unlocked(s))
<1>1. Quiet(v, Do("unlock", "Cfg9346", {}, {})) /\ Quiet(v, Do("lock", "Cfg9346", {}, {}))
  BY QuietOne DEF Ops, PhyOps, Names
<1> QED BY <1>1, QuietJoins DEF Unlocked

-----------------------------------------------------------------------------
(* What may stand between accesses outside the lock of the bus.                *)
Tidy(v, X, k) ==
    /\ X \subseteq Names /\ k \in PhylibKinds
    /\ k = "beside" => X = Home(v)
    /\ k = "unheeded" => v = 52

(* A page that phylib may find is sound with the bus and without it.           *)
LEMMA TidySound ==
    ASSUME NEW v, NEW X, NEW k, Tidy(v, X, k)
    PROVE  Sound(v, Note(X, {}, k)) /\ Sound(v, Note(X, {"bus"}, k))
<1>1. \A h \in {{}, {"bus"}} : Note(X, h, k) \in Notes
  BY DEF Note, Notes, Tidy
<1>2. \A h : Note(X, h, k).phylib = k /\ Note(X, h, k).has = h
  BY DEF Note
<1> QED BY <1>1, <1>2 DEF Sound, Tidy

(* Scripts that leave the page as it was, beside phylib if need be.            *)
Steady(v, s) == \A X, k : Tidy(v, X, k) => Walk(v, Note(X, {}, k), s, Note(X, {}, k))

(* What leaves every note alone leaves the page alone.                         *)
LEMMA QuietSteady == ASSUME NEW v, NEW s, Quiet(v, s) PROVE Steady(v, s)
BY TidySound DEF Quiet, Steady

(* One after the other leaves the page alone, too.                             *)
LEMMA SteadyJoins == ASSUME NEW v, NEW s, NEW u, Steady(v, s), Steady(v, u) PROVE Steady(v, s \o u)
BY WalkJoins DEF Steady

(* So does a script that may be left out.                                      *)
LEMMA SteadyIf == ASSUME NEW v, NEW s, NEW c, c => Steady(v, s) PROVE Steady(v, If(c, s)) /\ Steady(v, <<>>)
BY EmptyWalk, TidySound DEF Steady, If

(* So does one with the configuration registers unlocked.                      *)
LEMMA SteadyUnlocked == ASSUME NEW v, NEW s, Steady(v, s) PROVE Steady(v, Unlocked(s))
<1>1. Quiet(v, Do("unlock", "Cfg9346", {}, {})) /\ Quiet(v, Do("lock", "Cfg9346", {}, {}))
  BY QuietOne DEF Ops, PhyOps, Names
<1> QED BY <1>1, QuietSteady, SteadyJoins DEF Unlocked

(* The fields of a note.                                                       *)
LEMMA NoteIs ==
    ASSUME NEW X, NEW k
    PROVE  /\ Note(X, {"bus"}, k).now = X /\ Note(X, {"bus"}, k).old = Names /\ Note(X, {"bus"}, k).phylib = k
           /\ Note(X, {}, k).now = X /\ Note(X, {}, k).old = Names /\ Note(X, {}, k).phylib = k
           /\ Note(X, {"bus"}, k).has = {"bus"} /\ Note(X, {}, k).has = {}
BY DEF Note

(* Under the lock of the bus a script may leave another page.                  *)
LEMMA BusWalk ==
    ASSUME NEW v, NEW s, NEW X, NEW Y, NEW k, Tidy(v, X, k), Tidy(v, Y, k),
           Walk(v, Note(X, {"bus"}, k), s, Note(Y, {"bus"}, k))
    PROVE  Walk(v, Note(X, {}, k), Under("mdio_lock", s), Note(Y, {}, k))
<1>1. "acquire" \in Ops /\ "release" \in Ops /\ "mdio_lock" \in Names /\ {} \in SUBSET Bits
      /\ "acquire" \notin PhyOps /\ "release" \notin PhyOps
  BY DEF Ops, Names, Locks, PhyOps
<1> DEFINE a == [op |-> "acquire", reg |-> "mdio_lock", clear |-> {}, set |-> {}]
           b == [op |-> "release", reg |-> "mdio_lock", clear |-> {}, set |-> {}]
<1>2. a.op = "acquire" /\ a.reg = "mdio_lock" /\ b.op = "release" /\ b.reg = "mdio_lock"
  OBVIOUS
<1> HIDE DEF a, b
<1>3. Leads(v, a, Note(X, {}, k), Note(X, {"bus"}, k))
  <2>1. Fits(v, a, Note(X, {}, k))
    BY <1>2 DEF Fits
  <2>2. Turns(a, Note(X, {}, k), Note(X, {"bus"}, k))
    BY <1>2, NoteIs DEF Turns
  <2>3. Keeps(a, Note(X, {}, k), Note(X, {"bus"}, k))
    BY <1>1, <1>2, NoteIs DEF Keeps
  <2> QED BY <2>1, <2>2, <2>3 DEF Leads
<1>4. Leads(v, b, Note(Y, {"bus"}, k), Note(Y, {}, k))
  <2>1. Fits(v, b, Note(Y, {"bus"}, k))
    BY <1>2 DEF Fits
  <2>2. Turns(b, Note(Y, {"bus"}, k), Note(Y, {}, k))
    BY <1>2, NoteIs DEF Turns
  <2>3. Keeps(b, Note(Y, {"bus"}, k), Note(Y, {}, k))
    BY <1>1, <1>2, NoteIs DEF Keeps
  <2> QED BY <2>1, <2>2, <2>3 DEF Leads
<1>5. Walk(v, Note(X, {}, k), Do("acquire", "mdio_lock", {}, {}), Note(X, {"bus"}, k))
  BY <1>1, <1>3, OneWalk, TidySound DEF a
<1>6. Walk(v, Note(Y, {"bus"}, k), Do("release", "mdio_lock", {}, {}), Note(Y, {}, k))
  BY <1>1, <1>4, OneWalk, TidySound DEF b
<1> QED BY <1>5, <1>6, WalkJoins DEF Under

(* phylib's paged access puts the page back.                                   *)
LEMMA PagedSteady == ASSUME NEW v, NEW p \in Pages PROVE Steady(v, Paged(p))
<1> SUFFICES ASSUME NEW X, NEW k, Tidy(v, X, k)
             PROVE  Walk(v, Note(X, {}, k), Paged(p), Note(X, {}, k))
  BY DEF Steady
<1> DEFINE m == [now |-> {p}, old |-> X, has |-> {"bus"}, phylib |-> k]
           a == [op |-> "save", reg |-> p, clear |-> {}, set |-> {}]
           b == [op |-> "phy", reg |-> p, clear |-> {}, set |-> {}]
           c == [op |-> "restore", reg |-> "0", clear |-> {}, set |-> {}]
<1>1. /\ p \in Names /\ "0" \in Names /\ "mdio_lock" \in Names /\ {} \in SUBSET Bits
      /\ {"save", "phy", "restore"} \subseteq Ops
  BY DEF Names, Pages, Ops, PhyOps, Locks
<1>2. /\ m.now = {p} /\ m.old = X /\ m.has = {"bus"} /\ m.phylib = k
      /\ a.op = "save" /\ a.reg = p /\ b.op = "phy" /\ b.reg = p /\ c.op = "restore" /\ c.reg = "0"
  OBVIOUS
<1>3. m \in Notes
  BY <1>1 DEF Notes, Tidy
<1> HIDE DEF m, a, b, c
<1>4. Sound(v, m) /\ Sound(v, Note(X, {"bus"}, k))
  <2>1. "bus" \in m.has
    BY <1>2
  <2>2. Sound(v, m)
    BY <1>2, <1>3, <2>1 DEF Sound, Tidy
  <2> QED BY <2>2, TidySound
<1>5. Leads(v, a, Note(X, {"bus"}, k), m)
  <2>1. Fits(v, a, Note(X, {"bus"}, k))
    BY <1>2 DEF Fits
  <2>2. Turns(a, Note(X, {"bus"}, k), m)
    BY <1>2, NoteIs DEF Turns
  <2>3. Keeps(a, Note(X, {"bus"}, k), m)
    BY <1>2, NoteIs DEF Keeps
  <2> QED BY <2>1, <2>2, <2>3 DEF Leads
<1>6. Leads(v, b, m, m)
  BY <1>2 DEF Leads, Fits, Turns, Keeps
<1>7. Leads(v, c, m, Note(X, {"bus"}, k))
  <2>1. Fits(v, c, m)
    BY <1>2 DEF Fits
  <2>2. Turns(c, m, Note(X, {"bus"}, k))
    BY <1>1, <1>2, NoteIs DEF Turns
  <2>3. Keeps(c, m, Note(X, {"bus"}, k))
    BY <1>2, NoteIs DEF Keeps
  <2> QED BY <2>1, <2>2, <2>3 DEF Leads
<1>8. Walk(v, Note(X, {"bus"}, k), Do("save", p, {}, {}), m)
  BY <1>1, <1>4, <1>5, OneWalk DEF a
<1>9. Walk(v, m, Do("phy", p, {}, {}), m)
  BY <1>1, <1>4, <1>6, OneWalk DEF b
<1>10. Walk(v, m, Do("restore", "0", {}, {}), Note(X, {"bus"}, k))
  BY <1>1, <1>4, <1>7, OneWalk DEF c
<1>11. Walk(v, Note(X, {"bus"}, k), Do("save", p, {}, {}) \o phy(p) \o Do("restore", "0", {}, {}), Note(X, {"bus"}, k))
  BY <1>8, <1>9, <1>10, WalkJoins DEF phy
<1> QED BY <1>11, BusWalk DEF Paged

-----------------------------------------------------------------------------
(* While phylib is stopped: from one of the pages X to one of the pages Y.     *)
Leaves(v, h, X, s, Y) == Walk(v, Note(X, h, "off"), s, Note(Y, h, "off"))

Holdings == {{}, {"bus"}}

(* One after the other, while phylib is stopped.                               *)
LEMMA LeavesJoins ==
    ASSUME NEW v, NEW h, NEW X, NEW Y, NEW Z, NEW s, NEW u, Leaves(v, h, X, s, Y), Leaves(v, h, Y, u, Z)
    PROVE  Leaves(v, h, X, s \o u, Z)
BY WalkJoins DEF Leaves

(* What may stand between accesses, and what a steady script does with it.     *)
LEMMA OffTidy == ASSUME NEW v, NEW X \in SUBSET Names PROVE Tidy(v, X, "off")
BY DEF Tidy, PhylibKinds

(* What leaves the page alone does so while phylib is stopped.                 *)
LEMMA SteadyLeaves ==
    ASSUME NEW v, NEW s, Steady(v, s), NEW X \in SUBSET Names PROVE Leaves(v, {}, X, s, X)
BY OffTidy DEF Steady, Leaves

(* An access of the PHY while phylib is stopped.                               *)
LEMMA OffOne ==
    ASSUME NEW v, NEW p \in Names, NEW X \in SUBSET Names, NEW Y \in SUBSET Names, NEW h \in Holdings
    PROVE  /\ p \in Y => Leaves(v, h, X, Do("page", p, {}, {}), Y)
           /\ X \subseteq Left(v) => Leaves(v, h, X, Do("phy", "0", {}, {}), X)
           /\ Leaves(v, h, {p}, Do("phy", p, {}, {}), {p})
<1> DEFINE a == [op |-> "page", reg |-> p, clear |-> {}, set |-> {}]
           b == [op |-> "phy", reg |-> "0", clear |-> {}, set |-> {}]
           c == [op |-> "phy", reg |-> p, clear |-> {}, set |-> {}]
           N(Z) == Note(Z, h, "off")
<1>1. a.op = "page" /\ a.reg = p /\ b.op = "phy" /\ b.reg = "0" /\ c.op = "phy" /\ c.reg = p
  OBVIOUS
<1>2. \A Z : N(Z).now = Z /\ N(Z).old = Names /\ N(Z).has = h /\ N(Z).phylib = "off" /\ "fw" \notin N(Z).has
  <2>1. "fw" \notin h
    BY DEF Holdings
  <2> QED BY <2>1 DEF Note
<1>3. \A Z \in SUBSET Names : Sound(v, N(Z))
  <2>1. h = {} \/ h = {"bus"}
    BY DEF Holdings
  <2> QED BY <2>1, OffTidy, TidySound
<1> HIDE DEF a, b, c, N
<1>4. /\ "page" \in Ops /\ "phy" \in Ops /\ {} \in SUBSET Bits /\ "0" \in Names
      /\ {p} \in SUBSET Names
  BY DEF Ops, PhyOps, Names, Pages
<1>5. ASSUME p \in Y PROVE Leaves(v, h, X, Do("page", p, {}, {}), Y)
  <2>1. Leads(v, a, N(X), N(Y))
    <3>1. Fits(v, a, N(X)) /\ Turns(a, N(X), N(Y))
      BY <1>1, <1>2, <1>5 DEF Fits, Turns
    <3>2. Keeps(a, N(X), N(Y))
      BY <1>1, <1>2 DEF Keeps
    <3> QED BY <3>1, <3>2 DEF Leads
  <2>2. Walk(v, N(X), Do("page", p, {}, {}), N(Y))
    BY <1>3, <1>4, <2>1, OneWalk DEF a
  <2> QED BY <2>2 DEF Leaves, N
<1>6. ASSUME X \subseteq Left(v) PROVE Leaves(v, h, X, Do("phy", "0", {}, {}), X)
  <2>1. \A x \in X : x = "0" \/ (v < 40 /\ x = "fw" /\ "0" = "0")
    BY <1>6 DEF Left
  <2>2. Leads(v, b, N(X), N(X))
    <3>1. Fits(v, b, N(X)) /\ Turns(b, N(X), N(X))
      BY <1>1, <1>2, <2>1 DEF Fits, Turns
    <3>2. Keeps(b, N(X), N(X))
      BY <1>1, <1>2 DEF Keeps
    <3> QED BY <3>1, <3>2 DEF Leads
  <2>3. Walk(v, N(X), Do("phy", "0", {}, {}), N(X))
    BY <1>3, <1>4, <2>2, OneWalk DEF b
  <2> QED BY <2>3 DEF Leaves, N
<1>7. Leaves(v, h, {p}, Do("phy", p, {}, {}), {p})
  <2>1. Leads(v, c, N({p}), N({p}))
    <3>1. Fits(v, c, N({p})) /\ Turns(c, N({p}), N({p}))
      BY <1>1, <1>2 DEF Fits, Turns
    <3>2. Keeps(c, N({p}), N({p}))
      BY <1>1, <1>2 DEF Keeps
    <3> QED BY <3>1, <3>2 DEF Leads
  <2>2. Walk(v, N({p}), Do("phy", p, {}, {}), N({p}))
    BY <1>3, <1>4, <2>1, OneWalk DEF c
  <2> QED BY <2>2 DEF Leaves, N
<1> QED BY <1>5, <1>6, <1>7

(* Selecting a page makes it the page; an access of it leaves it.              *)
LEMMA SelectLeaves ==
    ASSUME NEW v, NEW h \in Holdings, NEW p \in Pages
    PROVE  /\ Leaves(v, h, {p}, phy(p), {p})
           /\ \A X \in SUBSET Names : Leaves(v, h, X, Select(p), {p}) /\ Leaves(v, h, X, On(p), {p})
           /\ \A X \in SUBSET Left(v) : Leaves(v, h, X, phy("0"), X)
<1>1. p \in Names /\ {p} \in SUBSET Names /\ Left(v) \subseteq Names
  BY DEF Names, Pages, Left
<1>2. Leaves(v, h, {p}, phy(p), {p})
  BY <1>1, OffOne DEF phy
<1>3. ASSUME NEW X \in SUBSET Names PROVE Leaves(v, h, X, Select(p), {p})
  <2>1. Leaves(v, h, X, Do("page", p, {}, {}), {p})
    BY <1>1, OffOne
  <2> QED BY <2>1 DEF Select
<1>4. \A X \in SUBSET Names : Leaves(v, h, X, On(p), {p})
  BY <1>2, <1>3, LeavesJoins DEF On
<1>5. ASSUME NEW X \in SUBSET Left(v) PROVE Leaves(v, h, X, phy("0"), X)
  BY <1>1, OffOne DEF phy
<1> QED BY <1>2, <1>3, <1>4, <1>5

(* A batch under the lock of the bus.                                          *)
LEMMA BatchLeaves ==
    ASSUME NEW v, NEW s, NEW X \in SUBSET Names, NEW Y \in SUBSET Names, Leaves(v, {"bus"}, X, s, Y)
    PROVE  Leaves(v, {}, X, rtl_writephy_batch(s), Y)
BY OffTidy, BusWalk DEF Leaves, rtl_writephy_batch

(* r8169_apply_firmware leaves the standard page, or on the older chips the    *)
(* one the firmware was on.                                                    *)
LEMMA FirmwareWalks ==
    ASSUME NEW v \in Nat, NEW X, NEW k, Tidy(v, X, k), k # "beside"
    PROVE  Walk(v, Note(X, {}, k), r8169_apply_firmware(v),
                Note(IF HasFirmware(v) THEN Left(v) ELSE X, {}, k))
<1> DEFINE m == [now |-> {"0", "fw"}, old |-> Names, has |-> {"fw"}, phylib |-> k]
           d == Note({"0", "fw"}, {}, k)
           e == Note(Left(v), {}, k)
           a == [op |-> "fw_page", reg |-> "fw", clear |-> {}, set |-> {}]
           b == [op |-> "fw_data", reg |-> "fw", clear |-> {}, set |-> {}]
           c == [op |-> "fw_base", reg |-> "0", clear |-> {}, set |-> {}]
           f == [op |-> "phy", reg |-> "0", clear |-> {}, set |-> {}]
<1>1. /\ "0" \in Names /\ "fw" \in Names /\ {} \in SUBSET Bits
      /\ {"fw_page", "fw_data", "fw_base", "phy"} \subseteq Ops
  BY DEF Names, Pages, Ops, PhyOps
<1>2. /\ a.op = "fw_page" /\ a.reg = "fw" /\ b.op = "fw_data" /\ b.reg = "fw"
      /\ c.op = "fw_base" /\ c.reg = "0" /\ f.op = "phy" /\ f.reg = "0"
      /\ m.now = {"0", "fw"} /\ m.old = Names /\ m.has = {"fw"} /\ m.phylib = k
  OBVIOUS
<1>3. Left(v) \subseteq {"0", "fw"} /\ "0" \in Left(v) /\ (v >= 40 => Left(v) = {"0"}) /\ (~(v >= 40) => Left(v) = {"0", "fw"})
  BY DEF Left
<1>4. Tidy(v, {"0", "fw"}, k) /\ Tidy(v, Left(v), k)
  BY <1>1, <1>3 DEF Tidy
<1>5. m \in Notes
  BY <1>1, <1>4 DEF Notes, Tidy
<1> HIDE DEF a, b, c, f, m
<1>6. Sound(v, Note(X, {}, k)) /\ Sound(v, d) /\ Sound(v, e) /\ Sound(v, m)
  <2>1. Sound(v, m)
    BY <1>2, <1>5 DEF Sound, Tidy
  <2> QED BY <2>1, <1>4, TidySound
<1>7. /\ Note(X, {}, k).now = X /\ Note(X, {}, k).old = Names /\ Note(X, {}, k).has = {} /\ Note(X, {}, k).phylib = k
      /\ d.now = {"0", "fw"} /\ d.old = Names /\ d.has = {} /\ d.phylib = k
      /\ e.now = Left(v) /\ e.old = Names /\ e.has = {} /\ e.phylib = k
  BY NoteIs
<1> HIDE DEF d, e
<1>8. Walk(v, Note(X, {}, k), Do("fw_page", "fw", {}, {}), m)
  <2>1. Leads(v, a, Note(X, {}, k), m)
    <3>1. Fits(v, a, Note(X, {}, k)) /\ Turns(a, Note(X, {}, k), m)
      BY <1>2, <1>7 DEF Fits, Turns
    <3>2. Keeps(a, Note(X, {}, k), m)
      BY <1>2, <1>7 DEF Keeps
    <3> QED BY <3>1, <3>2 DEF Leads
  <2> QED BY <1>1, <1>6, <2>1, OneWalk DEF a
<1>9. Walk(v, m, Do("fw_data", "fw", {}, {}), d)
  <2>1. Leads(v, b, m, d)
    BY <1>2, <1>7 DEF Leads, Fits, Turns, Keeps
  <2> QED BY <1>1, <1>6, <2>1, OneWalk DEF b
<1>10. Walk(v, d, If(v >= 40, Do("fw_base", "0", {}, {})), e)
  <2>1. CASE v >= 40
    <3>1. Leads(v, c, d, e)
      BY <1>2, <1>3, <1>7 DEF Leads, Fits, Turns, Keeps
    <3>2. Walk(v, d, Do("fw_base", "0", {}, {}), e)
      BY <1>1, <1>6, <3>1, OneWalk DEF c
    <3> QED BY <2>1, <3>2 DEF If
  <2>2. CASE ~(v >= 40)
    <3>1. d = e
      BY <1>3, <2>2 DEF d, e
    <3> QED BY <1>6, <2>2, <3>1, EmptyWalk DEF If
  <2> QED BY <2>1, <2>2
<1>11. Walk(v, e, phy("0"), e)
  <2>1. \A p \in Left(v) : p = "0" \/ (v < 40 /\ p = "fw" /\ "0" = "0")
    BY DEF Left
  <2>2. Leads(v, f, e, e)
    BY <1>2, <1>7, <2>1 DEF Leads, Fits, Turns, Keeps
  <2> QED BY <1>1, <1>6, <2>2, OneWalk DEF f, phy
<1>12. Walk(v, Note(X, {}, k), Do("fw_page", "fw", {}, {}) \o Do("fw_data", "fw", {}, {})
         \o If(v >= 40, Do("fw_base", "0", {}, {})) \o phy("0"), e)
  BY <1>8, <1>9, <1>10, <1>11, WalkJoins
<1>13. CASE HasFirmware(v)
  BY <1>12, <1>13 DEF r8169_apply_firmware, If, e
<1>14. CASE ~HasFirmware(v)
  BY <1>6, <1>14, EmptyWalk DEF r8169_apply_firmware, If
<1> QED BY <1>13, <1>14

-----------------------------------------------------------------------------
(* What the set-up functions of the PHY do with the page: from any page to     *)
(* some other, or to the standard one; and from a page that may be left, the   *)
(* standard one or the firmware's.                                             *)
Lefts(v) == {{"0"}, Left(v)}
Roams(v, h, s)   == \A X \in SUBSET Names : \E Y \in SUBSET Names : Leaves(v, h, X, s, Y)
Zeroes(v, h, s)  == \A X \in SUBSET Names : Leaves(v, h, X, s, {"0"})
Rests(v, s)      == \A X \in Lefts(v) : Leaves(v, {}, X, s, X)
Stays(v, s)      == \A X \in Lefts(v) : \E Y \in Lefts(v) : Leaves(v, {}, X, s, Y)
Goes(v, s)       == \A X \in Lefts(v) : \E Y \in SUBSET Names : Leaves(v, {}, X, s, Y)
Reaches(v, s, Y) == \A X \in Lefts(v) : Leaves(v, {}, X, s, Y)

(* The sets of pages the PHY may be left on.                                   *)
LEMMA LeftsAre == ASSUME NEW v PROVE Lefts(v) \subseteq SUBSET Names /\ Lefts(v) \subseteq SUBSET Left(v)
BY DEF Lefts, Left, Names, Pages

(* One after the other.                                                        *)
LEMMA RoamJoins ==
    ASSUME NEW v, NEW h, NEW s, NEW u
    PROVE  /\ Roams(v, h, s) /\ Roams(v, h, u) => Roams(v, h, s \o u)
           /\ Roams(v, h, s) /\ Zeroes(v, h, u) => Zeroes(v, h, s \o u)
           /\ Zeroes(v, h, s) => Roams(v, h, s)
<1>1. {"0"} \in SUBSET Names
  BY DEF Names, Pages
<1>2. ASSUME Roams(v, h, s), Roams(v, h, u) PROVE Roams(v, h, s \o u)
  <2> SUFFICES ASSUME NEW X \in SUBSET Names PROVE \E Y \in SUBSET Names : Leaves(v, h, X, s \o u, Y)
    BY DEF Roams
  <2>1. PICK Y \in SUBSET Names : Leaves(v, h, X, s, Y)
    BY <1>2 DEF Roams
  <2>2. PICK Z \in SUBSET Names : Leaves(v, h, Y, u, Z)
    BY <1>2 DEF Roams
  <2> QED BY <2>1, <2>2, LeavesJoins
<1>3. ASSUME Roams(v, h, s), Zeroes(v, h, u) PROVE Zeroes(v, h, s \o u)
  <2> SUFFICES ASSUME NEW X \in SUBSET Names PROVE Leaves(v, h, X, s \o u, {"0"})
    BY DEF Zeroes
  <2>1. PICK Y \in SUBSET Names : Leaves(v, h, X, s, Y)
    BY <1>3 DEF Roams
  <2>2. Leaves(v, h, Y, u, {"0"})
    BY <1>3 DEF Zeroes
  <2> QED BY <2>1, <2>2, LeavesJoins
<1>4. Zeroes(v, h, s) => Roams(v, h, s)
  BY <1>1 DEF Zeroes, Roams
<1> QED BY <1>2, <1>3, <1>4

(* The same for scripts in a row.                                              *)
LEMMA RestJoins ==
    ASSUME NEW v, NEW s, NEW u
    PROVE  /\ Rests(v, s) /\ Rests(v, u) => Rests(v, s \o u)
           /\ Stays(v, s) /\ Stays(v, u) => Stays(v, s \o u)
           /\ Goes(v, s) /\ Roams(v, {}, u) => Goes(v, s \o u)
           /\ Goes(v, s) /\ Zeroes(v, {}, u) => Reaches(v, s \o u, {"0"})
           /\ \A Y : Stays(v, s) /\ Reaches(v, u, Y) => Reaches(v, s \o u, Y)
           /\ \A Y \in Lefts(v) : Reaches(v, s, Y) /\ Rests(v, u) => Reaches(v, s \o u, Y)
           /\ Rests(v, s) => Stays(v, s)
           /\ \A Y \in Lefts(v) : Reaches(v, s, Y) => Stays(v, s)
           /\ Stays(v, s) => Goes(v, s)
           /\ Zeroes(v, {}, s) => Reaches(v, s, {"0"})
<1>1. Lefts(v) \subseteq SUBSET Names
  BY LeftsAre
<1>2. Rests(v, s) /\ Rests(v, u) => Rests(v, s \o u)
  BY LeavesJoins DEF Rests
<1>3. ASSUME Stays(v, s), Stays(v, u), NEW X \in Lefts(v) PROVE \E Y \in Lefts(v) : Leaves(v, {}, X, s \o u, Y)
  <2>1. PICK W \in Lefts(v) : Leaves(v, {}, X, s, W)
    BY <1>3 DEF Stays
  <2>2. PICK Y \in Lefts(v) : Leaves(v, {}, W, u, Y)
    BY <1>3 DEF Stays
  <2> QED BY <2>1, <2>2, LeavesJoins
<1>4. ASSUME Goes(v, s), Roams(v, {}, u), NEW X \in Lefts(v)
      PROVE  \E Y \in SUBSET Names : Leaves(v, {}, X, s \o u, Y)
  <2>1. PICK W \in SUBSET Names : Leaves(v, {}, X, s, W)
    BY <1>4 DEF Goes
  <2>2. PICK Y \in SUBSET Names : Leaves(v, {}, W, u, Y)
    BY <1>4 DEF Roams
  <2> QED BY <2>1, <2>2, LeavesJoins
<1>5. ASSUME Goes(v, s), Zeroes(v, {}, u), NEW X \in Lefts(v) PROVE Leaves(v, {}, X, s \o u, {"0"})
  <2>1. PICK W \in SUBSET Names : Leaves(v, {}, X, s, W)
    BY <1>5 DEF Goes
  <2> QED BY <1>5, <2>1, LeavesJoins DEF Zeroes
<1>6. ASSUME Stays(v, s), NEW Y, Reaches(v, u, Y), NEW X \in Lefts(v) PROVE Leaves(v, {}, X, s \o u, Y)
  <2>1. PICK W \in Lefts(v) : Leaves(v, {}, X, s, W)
    BY <1>6 DEF Stays
  <2> QED BY <1>6, <2>1, LeavesJoins DEF Reaches
<1>7. ASSUME NEW Y \in Lefts(v), Reaches(v, s, Y), Rests(v, u) PROVE Reaches(v, s \o u, Y)
  BY <1>7, LeavesJoins DEF Reaches, Rests
<1>8. Rests(v, s) => Stays(v, s)
  BY DEF Rests, Stays
<1>9. \A Y \in Lefts(v) : Reaches(v, s, Y) => Stays(v, s)
  BY DEF Reaches, Stays
<1>10. Stays(v, s) => Goes(v, s)
  BY <1>1 DEF Stays, Goes
<1>11. Zeroes(v, {}, s) => Reaches(v, s, {"0"})
  BY <1>1 DEF Zeroes, Reaches
<1>12. /\ Stays(v, s) /\ Stays(v, u) => Stays(v, s \o u)
       /\ Goes(v, s) /\ Roams(v, {}, u) => Goes(v, s \o u)
       /\ Goes(v, s) /\ Zeroes(v, {}, u) => Reaches(v, s \o u, {"0"})
  BY <1>3, <1>4, <1>5 DEF Stays, Goes, Reaches
<1>13. \A Y : Stays(v, s) /\ Reaches(v, u, Y) => Reaches(v, s \o u, Y)
  BY <1>6 DEF Reaches
<1> QED BY <1>2, <1>7, <1>8, <1>9, <1>10, <1>11, <1>12, <1>13

(* The pieces of the set-up functions.                                         *)
LEMMA PhyPieces ==
    ASSUME NEW v \in Nat
    PROVE  /\ \A s : Steady(v, s) => Rests(v, s) /\ Roams(v, {}, s)
           /\ Rests(v, phy("0")) /\ Rests(v, <<>>)
           /\ \A h \in Holdings :
                /\ \A p \in Pages : Roams(v, h, On(p)) /\ Roams(v, h, Select(p))
                /\ Zeroes(v, h, Select("0")) /\ Zeroes(v, h, On("0"))
           /\ \A s : Zeroes(v, {"bus"}, s) => Zeroes(v, {}, rtl_writephy_batch(s))
           /\ Stays(v, r8169_apply_firmware(v))
           /\ HasFirmware(v) => Reaches(v, r8169_apply_firmware(v), Left(v))
<1>1. Lefts(v) \subseteq SUBSET Names /\ Lefts(v) \subseteq SUBSET Left(v) /\ "0" \in Pages
      /\ \A p \in Pages : {p} \in SUBSET Names
  BY LeftsAre DEF Pages, Names
<1>2. \A s : Steady(v, s) => Rests(v, s) /\ Roams(v, {}, s)
  BY <1>1, SteadyLeaves DEF Rests, Roams
<1>3. Rests(v, phy("0"))
  <2>1. {} \in Holdings
    BY DEF Holdings
  <2> QED BY <1>1, <2>1, SelectLeaves DEF Rests
<1>4. Rests(v, <<>>)
  <2>1. \A X \in SUBSET Names : Sound(v, Note(X, {}, "off"))
    BY OffTidy, TidySound
  <2> QED BY <1>1, <2>1, EmptyWalk DEF Rests, Leaves
<1>5. ASSUME NEW h \in Holdings
      PROVE  /\ \A p \in Pages : Roams(v, h, On(p)) /\ Roams(v, h, Select(p))
             /\ Zeroes(v, h, Select("0")) /\ Zeroes(v, h, On("0"))
  <2>1. \A p \in Pages, X \in SUBSET Names : Leaves(v, h, X, Select(p), {p}) /\ Leaves(v, h, X, On(p), {p})
    BY SelectLeaves
  <2> QED BY <1>1, <2>1 DEF Roams, Zeroes
<1>6. ASSUME NEW s, Zeroes(v, {"bus"}, s) PROVE Zeroes(v, {}, rtl_writephy_batch(s))
  BY <1>1, <1>6, BatchLeaves DEF Zeroes
<1>7. ASSUME NEW X \in Lefts(v)
      PROVE  Leaves(v, {}, X, r8169_apply_firmware(v), IF HasFirmware(v) THEN Left(v) ELSE X)
  <2>1. Tidy(v, X, "off")
    BY <1>1, OffTidy
  <2> QED BY <2>1, FirmwareWalks DEF Leaves
<1>8. HasFirmware(v) => Reaches(v, r8169_apply_firmware(v), Left(v))
  BY <1>7 DEF Reaches
<1>9. Stays(v, r8169_apply_firmware(v))
  <2> SUFFICES ASSUME NEW X \in Lefts(v)
               PROVE  \E Y \in Lefts(v) : Leaves(v, {}, X, r8169_apply_firmware(v), Y)
    BY DEF Stays
  <2>1. Left(v) \in Lefts(v)
    BY DEF Lefts
  <2> QED BY <1>7, <2>1
<1> QED BY <1>2, <1>3, <1>4, <1>5, <1>6, <1>8, <1>9

-----------------------------------------------------------------------------
(* The shared pieces of the set-up functions leave the page as it was, but for *)
(* the first ones of an 8168d, and the one that ends on the standard page.     *)
LEMMA PhyPartsRest ==
    ASSUME NEW v \in Nat
    PROVE  /\ \A p \in Pages : Steady(v, Paged(p)) /\ Rests(v, Paged(p)) /\ Roams(v, {}, Paged(p))
           /\ Steady(v, r8168d_modify_extpage) /\ Steady(v, r8168d_phy_param) /\ Steady(v, r8168g_phy_param)
           /\ Steady(v, rtl8168f_config_eee_phy) /\ Steady(v, rtl8168g_config_eee_phy)
           /\ Steady(v, rtl8168h_config_eee_phy) /\ Steady(v, rtl8125a_config_eee_phy)
           /\ Steady(v, rtl8125b_config_eee_phy)
           /\ Steady(v, rtl8168g_disable_aldps) /\ Steady(v, rtl8168g_enable_gphy_10m)
           /\ Steady(v, rtl8168g_phy_adjust_10m_aldps) /\ Steady(v, rtl8125_legacy_force_mode)
           /\ Rests(v, rtl8168f_hw_phy_config)
           /\ Zeroes(v, {"bus"}, rtl8168d_1_phy_reg_init_0) /\ Roams(v, {}, rtl8168d_1_common)
           /\ Zeroes(v, {}, improve_swr)
<1> DEFINE P(p) == Steady(v, Paged(p))
<1>1. \A p \in Pages : P(p)
  BY PagedSteady
<1>2. /\ P("2") /\ P("5") /\ P("7") /\ P("a42") /\ P("a43") /\ P("a44") /\ P("a4a")
      /\ P("a5b") /\ P("a6d") /\ P("bcc")
  BY <1>1 DEF Pages
<1>3. Steady(v, r8168d_modify_extpage) /\ Steady(v, r8168d_phy_param) /\ Steady(v, r8168g_phy_param)
  BY <1>2 DEF r8168d_modify_extpage, r8168d_phy_param, r8168g_phy_param
<1>4. Steady(v, rtl8168f_config_eee_phy)
  BY <1>3, SteadyJoins DEF rtl8168f_config_eee_phy
<1>5. Steady(v, rtl8168g_config_eee_phy)
  BY <1>2 DEF rtl8168g_config_eee_phy
<1>6. Steady(v, rtl8168h_config_eee_phy)
  BY <1>2, <1>5, SteadyJoins DEF rtl8168h_config_eee_phy
<1>7. Steady(v, rtl8125a_config_eee_phy) /\ Steady(v, rtl8125b_config_eee_phy)
  BY <1>2, <1>6, SteadyJoins DEF rtl8125a_config_eee_phy, rtl8125b_config_eee_phy
<1>8. /\ Steady(v, rtl8168g_disable_aldps) /\ Steady(v, rtl8168g_enable_gphy_10m)
      /\ Steady(v, rtl8125_legacy_force_mode)
  BY <1>2 DEF rtl8168g_disable_aldps, rtl8168g_enable_gphy_10m, rtl8125_legacy_force_mode
<1>9. Steady(v, rtl8168g_phy_adjust_10m_aldps)
  BY <1>2, <1>3, SteadyJoins DEF rtl8168g_phy_adjust_10m_aldps
<1>10. \A s : Steady(v, s) => Rests(v, s) /\ Roams(v, {}, s)
  BY PhyPieces
<1>11. Rests(v, rtl8168f_hw_phy_config)
  <2>1. Rests(v, r8168d_phy_param) /\ Rests(v, r8168d_modify_extpage) /\ Rests(v, rtl8168f_config_eee_phy)
        /\ Rests(v, phy("0"))
    BY <1>3, <1>4, <1>10, PhyPieces
  <2> QED BY <2>1, RestJoins DEF rtl8168f_hw_phy_config
<1>12. \A h \in Holdings : /\ \A p \in Pages : Roams(v, h, On(p)) /\ Roams(v, h, Select(p))
                           /\ Zeroes(v, h, Select("0")) /\ Zeroes(v, h, On("0"))
  BY PhyPieces
<1>13. {} \in Holdings /\ {"bus"} \in Holdings
  BY DEF Holdings
<1>14. Zeroes(v, {"bus"}, rtl8168d_1_phy_reg_init_0)
  <2>1. /\ Roams(v, {"bus"}, On("1")) /\ Roams(v, {"bus"}, On("2")) /\ Roams(v, {"bus"}, On("3"))
        /\ Roams(v, {"bus"}, On("5")) /\ Zeroes(v, {"bus"}, On("0"))
    BY <1>12, <1>13 DEF Pages
  <2> QED BY <2>1, RoamJoins DEF rtl8168d_1_phy_reg_init_0
<1>15. Roams(v, {}, rtl8168d_1_common)
  <2>1. Roams(v, {}, Paged("2")) /\ Roams(v, {}, r8168d_phy_param) /\ Roams(v, {}, On("2"))
    BY <1>2, <1>3, <1>10, <1>12, <1>13 DEF Pages
  <2> QED BY <2>1, RoamJoins DEF rtl8168d_1_common
<1>16. Zeroes(v, {}, improve_swr)
  <2>1. Roams(v, {}, On("bcd")) /\ Roams(v, {}, On("bc8")) /\ Zeroes(v, {}, Select("0"))
    BY <1>12, <1>13 DEF Pages
  <2> QED BY <2>1, RoamJoins DEF improve_swr
<1> HIDE DEF P
<1> QED BY <1>1, <1>3, <1>4, <1>5, <1>6, <1>7, <1>8, <1>9, <1>10, <1>11, <1>14, <1>15, <1>16 DEF P

(* The functions without firmware, that end on the standard page or leave the  *)
(* page alone.                                                                 *)
LEMMA PlainConfigs ==
    ASSUME NEW v \in Nat
    PROVE  /\ Reaches(v, rtl8169s_hw_phy_config, {"0"}) /\ Reaches(v, rtl8169scd_hw_phy_config, {"0"})
           /\ Reaches(v, rtl8169sce_hw_phy_config, {"0"}) /\ Reaches(v, rtl8168bb_hw_phy_config, {"0"})
           /\ Reaches(v, rtl8168c_1_hw_phy_config, {"0"}) /\ Reaches(v, rtl8168c_2_hw_phy_config, {"0"})
           /\ Reaches(v, rtl8168c_3_hw_phy_config, {"0"}) /\ Reaches(v, rtl8102e_hw_phy_config, {"0"})
           /\ Reaches(v, rtl8168ep_2_hw_phy_config, {"0"})
           /\ Rests(v, rtl8169sb_hw_phy_config) /\ Rests(v, rtl8168bef_hw_phy_config)
           /\ Rests(v, rtl8168cp_1_hw_phy_config) /\ Rests(v, rtl8168cp_2_hw_phy_config)
           /\ Rests(v, rtl8168d_4_hw_phy_config) /\ Rests(v, rtl8401_hw_phy_config)
           /\ Rests(v, rtl8117_hw_phy_config)
<1> DEFINE Roam(s) == Roams(v, {"bus"}, s)
           Zero(s) == Zeroes(v, {"bus"}, s)
<1>1. {} \in Holdings /\ {"bus"} \in Holdings /\ {"0"} \in Lefts(v)
  BY DEF Holdings, Lefts
<1>2. /\ Roam(On("1")) /\ Roam(On("2")) /\ Roam(On("3")) /\ Zero(On("0")) /\ Zero(Select("0"))
      /\ Roam(On("0")) /\ Roam(Select("0"))
      /\ Roams(v, {}, On("1")) /\ Zeroes(v, {}, Select("0")) /\ Rests(v, phy("0"))
  BY <1>1, PhyPieces DEF Pages
<1>3. \A s, u : (Roam(s) /\ Roam(u) => Roam(s \o u)) /\ (Roam(s) /\ Zero(u) => Zero(s \o u))
  BY RoamJoins
<1>4. \A s : Zero(s) => Reaches(v, rtl_writephy_batch(s), {"0"})
  BY PhyPieces, RestJoins
<1>5. \A s : Steady(v, s) => Rests(v, s)
  BY PhyPieces
<1>6. Rests(v, Paged("1")) /\ Rests(v, Paged("2")) /\ Rests(v, Paged("c42"))
  BY PhyPartsRest DEF Pages
<1> DEFINE Re(s) == Reaches(v, s, {"0"})
           Rs(s) == Rests(v, s)
<1>7. \A s, u : (Rs(s) /\ Rs(u) => Rs(s \o u)) /\ (Re(s) /\ Rs(u) => Re(s \o u))
  BY <1>1, RestJoins
<1>71. \A s, u : Rs(s) /\ Re(u) => Re(s \o u)
  BY RestJoins
<1> HIDE DEF Roam, Zero, Re, Rs
<1>8. Zero(On("1") \o On("0"))
  BY <1>2, <1>3
<1>9. Zero(On("1") \o Select("0") \o On("1") \o Select("0") \o On("1") \o Select("0"))
  BY <1>2, <1>3
<1>10. Zero(On("1") \o Select("0") \o On("1") \o Select("0") \o On("1") \o Select("0")
             \o On("1") \o Select("0"))
  BY <1>2, <1>3
<1>11. Re(rtl8169s_hw_phy_config) /\ Re(rtl8169scd_hw_phy_config) /\ Re(rtl8169sce_hw_phy_config)
  BY <1>4, <1>8, <1>9, <1>10 DEF Re, rtl8169s_hw_phy_config, rtl8169scd_hw_phy_config, rtl8169sce_hw_phy_config
<1>12. Re(rtl8168bb_hw_phy_config)
  <2>1. Zeroes(v, {}, rtl8168bb_hw_phy_config)
    BY <1>2, RoamJoins DEF rtl8168bb_hw_phy_config
  <2> QED BY <2>1, RestJoins DEF Re
<1>13. Zero(On("1") \o On("2") \o On("3") \o Select("0") \o On("0"))
  BY <1>2, <1>3
<1>14. Zero(On("1") \o On("2") \o On("3") \o Select("0")) /\ Zero(On("3") \o Select("0"))
  BY <1>2, <1>3
<1>15. Rs(phy("0"))
  BY <1>2 DEF Rs
<1>16. Re(rtl8168c_1_hw_phy_config) /\ Re(rtl8168c_2_hw_phy_config) /\ Re(rtl8168c_3_hw_phy_config)
  <2>1. /\ Re(rtl_writephy_batch(On("1") \o On("2") \o On("3") \o Select("0") \o On("0")))
        /\ Re(rtl_writephy_batch(On("1") \o On("2") \o On("3") \o Select("0")))
    BY <1>4, <1>13, <1>14 DEF Re
  <2> QED BY <1>7, <1>15, <2>1
          DEF rtl8168c_1_hw_phy_config, rtl8168c_2_hw_phy_config, rtl8168c_3_hw_phy_config
<1>17. Re(rtl8102e_hw_phy_config)
  <2>1. Re(rtl_writephy_batch(On("3") \o Select("0")))
    BY <1>4, <1>14 DEF Re
  <2> QED BY <1>71, <1>15, <2>1 DEF rtl8102e_hw_phy_config
<1>18. /\ Rs(Paged("1")) /\ Rs(Paged("2")) /\ Rs(Paged("c42")) /\ Rs(r8168d_modify_extpage)
       /\ Rs(r8168g_phy_param) /\ Rs(rtl8168g_phy_adjust_10m_aldps) /\ Rs(rtl8168g_disable_aldps)
       /\ Rs(rtl8168g_config_eee_phy) /\ Rs(rtl8168g_enable_gphy_10m) /\ Rs(rtl8168h_config_eee_phy)
  BY <1>5, <1>6, PhyPartsRest DEF Rs
<1>19. Re(improve_swr)
  BY PhyPartsRest, RestJoins DEF Re
<1>20. Re(rtl8168ep_2_hw_phy_config)
  BY <1>7, <1>71, <1>18, <1>19 DEF rtl8168ep_2_hw_phy_config
<1>21. Rs(rtl8169sb_hw_phy_config) /\ Rs(rtl8168bef_hw_phy_config)
  BY <1>18 DEF rtl8169sb_hw_phy_config, rtl8168bef_hw_phy_config
<1>22. Rs(rtl8168cp_1_hw_phy_config) /\ Rs(rtl8168cp_2_hw_phy_config) /\ Rs(rtl8401_hw_phy_config)
  BY <1>7, <1>15, <1>18 DEF rtl8168cp_1_hw_phy_config, rtl8168cp_2_hw_phy_config, rtl8401_hw_phy_config
<1>23. Rs(rtl8168d_4_hw_phy_config) /\ Rs(rtl8117_hw_phy_config)
  BY <1>7, <1>15, <1>18 DEF rtl8168d_4_hw_phy_config, rtl8117_hw_phy_config
<1> QED BY <1>11, <1>12, <1>16, <1>17, <1>20, <1>21, <1>22, <1>23 DEF Re, Rs

-----------------------------------------------------------------------------
(* The functions with firmware, before the 8168G: they end on the standard     *)
(* page, or where the firmware left it.                                        *)
LEMMA OldConfigs ==
    ASSUME NEW v \in Nat, NEW efuse, HasFirmware(v)
    PROVE  /\ Reaches(v, rtl8168d_1_hw_phy_config(v, efuse), Left(v))
           /\ Reaches(v, rtl8168d_2_hw_phy_config(v, efuse), Left(v))
           /\ Reaches(v, rtl8105e_hw_phy_config(v), Left(v))
           /\ Reaches(v, rtl8168f_1_hw_phy_config(v), Left(v))
           /\ Reaches(v, rtl8168f_2_hw_phy_config(v), Left(v))
           /\ Reaches(v, rtl8168e_1_hw_phy_config(v), {"0"})
           /\ Reaches(v, rtl8168e_2_hw_phy_config(v), {"0"})
           /\ Reaches(v, rtl8402_hw_phy_config(v), {"0"})
           /\ Reaches(v, rtl8411_hw_phy_config(v), {"0"})
           /\ Reaches(v, rtl8106e_hw_phy_config(v), {"0"})
<1> DEFINE Ro(s) == Roams(v, {}, s)
           Ze(s) == Zeroes(v, {}, s)
           Rs(s) == Rests(v, s)
           Go(s) == Goes(v, s)
           St(s) == Stays(v, s)
           Re(s) == Reaches(v, s, {"0"})
           Rl(s) == Reaches(v, s, Left(v))
           fw == r8169_apply_firmware(v)
<1>1. {} \in Holdings /\ {"bus"} \in Holdings /\ {"0"} \in Lefts(v) /\ Left(v) \in Lefts(v)
  BY DEF Holdings, Lefts
<1>2. \A s, u : /\ Ro(s) /\ Ro(u) => Ro(s \o u)
                /\ Ro(s) /\ Ze(u) => Ze(s \o u)
  BY RoamJoins
<1>3. \A s, u : /\ Rs(s) /\ Rs(u) => Rs(s \o u)
                /\ St(s) /\ Rs(u) => St(s \o u)
                /\ Go(s) /\ Ro(u) => Go(s \o u)
                /\ Go(s) /\ Ze(u) => Re(s \o u)
                /\ Re(s) /\ Rs(u) => Re(s \o u)
                /\ Rl(s) /\ Rs(u) => Rl(s \o u)
                /\ St(s) /\ Rl(u) => Rl(s \o u)
                /\ St(s) /\ Re(u) => Re(s \o u)
                /\ Rl(s) /\ Re(u) => Re(s \o u)
  BY <1>1, RestJoins
<1>4. \A s : /\ Rs(s) => St(s)
             /\ Re(s) => St(s)
             /\ Rl(s) => St(s)
             /\ St(s) => Go(s)
             /\ Ze(s) => Re(s)
             /\ Steady(v, s) => Rs(s) /\ Ro(s)
  BY <1>1, RestJoins, PhyPieces
<1>5. /\ Ro(On("2")) /\ Ro(On("3")) /\ Ro(On("4")) /\ Ro(On("5")) /\ Ze(Select("0")) /\ Rs(phy("0"))
      /\ Rl(fw) /\ \A s : Zeroes(v, {"bus"}, s) => Ze(rtl_writephy_batch(s))
  BY <1>1, PhyPieces DEF Pages
<1>6. /\ Rs(Paged("1")) /\ Rs(Paged("2")) /\ Rs(Paged("3")) /\ Rs(Paged("4")) /\ Rs(Paged("5"))
      /\ Rs(Paged("6")) /\ Ro(Paged("2"))
  BY PhyPartsRest DEF Pages
<1> HIDE DEF Ro, Ze, Rs, Go, St, Re, Rl
<1>7. /\ Rs(r8168d_modify_extpage) /\ Rs(r8168d_phy_param) /\ Ro(r8168d_phy_param)
      /\ Rs(rtl8168f_config_eee_phy) /\ Rs(rtl8168f_hw_phy_config) /\ Ro(rtl8168d_1_common)
  BY <1>4, PhyPartsRest DEF Rs, Ro
<1>8. Ze(rtl_writephy_batch(rtl8168d_1_phy_reg_init_0))
  BY <1>5, PhyPartsRest
<1>81. /\ Zeroes(v, {"bus"}, On("1") \o On("3") \o Select("0"))
       /\ Zeroes(v, {"bus"}, On("4") \o Select("0"))
  <2>1. /\ Roams(v, {"bus"}, On("1")) /\ Roams(v, {"bus"}, On("3")) /\ Roams(v, {"bus"}, On("4"))
        /\ Zeroes(v, {"bus"}, Select("0"))
    BY <1>1, PhyPieces DEF Pages
  <2> QED BY <2>1, RoamJoins
<1>9. /\ Ze(rtl_writephy_batch(On("1") \o On("3") \o Select("0")))
      /\ Ze(rtl_writephy_batch(On("4") \o Select("0")))
  BY <1>5, <1>81
<1>10. Rl(rtl8168d_apply_firmware_cond(v)) /\ Ze(On("5") \o Select("0"))
  <2>1. Ze(On("5") \o Select("0"))
    BY <1>2, <1>5
  <2>2. St(On("5") \o Select("0"))
    BY <1>4, <2>1
  <2> QED BY <2>1, <2>2, <1>3, <1>5 DEF rtl8168d_apply_firmware_cond
<1>11. Ro(IF efuse THEN rtl8168d_1_common ELSE Paged("2") \o r8168d_phy_param)
  BY <1>2, <1>6, <1>7
<1> DEFINE e == IF efuse THEN rtl8168d_1_common ELSE Paged("2") \o r8168d_phy_param
           i == rtl_writephy_batch(rtl8168d_1_phy_reg_init_0)
<1>12. Ro(e) /\ Ze(i) /\ Ro(i)
  <2>1. Ro(i)
    BY <1>8, RoamJoins DEF Ro, Ze
  <2> QED BY <2>1, <1>8, <1>11
<1>13. /\ rtl8168d_1_hw_phy_config(v, efuse) =
            i \o On("2") \o e \o On("2") \o On("2") \o Select("0") \o rtl8168d_apply_firmware_cond(v)
       /\ rtl8168d_2_hw_phy_config(v, efuse) =
            i \o e \o On("2") \o Select("0") \o Paged("2") \o rtl8168d_apply_firmware_cond(v)
  BY DEF rtl8168d_1_hw_phy_config, rtl8168d_2_hw_phy_config
<1> HIDE DEF e, i, fw
<1>14. Rl(rtl8168d_1_hw_phy_config(v, efuse))
  <2>1. Ze(i \o On("2") \o e \o On("2") \o On("2") \o Select("0"))
    BY <1>2, <1>5, <1>12
  <2>2. St(i \o On("2") \o e \o On("2") \o On("2") \o Select("0"))
    BY <2>1, <1>4
  <2> QED BY <2>2, <1>3, <1>10, <1>13
<1>15. Rl(rtl8168d_2_hw_phy_config(v, efuse))
  <2>1. Ze(i \o e \o On("2") \o Select("0"))
    BY <1>2, <1>5, <1>12
  <2>2. St(i \o e \o On("2") \o Select("0"))
    BY <2>1, <1>4
  <2> QED BY <2>2, <1>3, <1>6, <1>10, <1>13
<1>16. Rl(rtl8105e_hw_phy_config(v))
  <2>1. St(phy("0"))
    BY <1>4, <1>5
  <2> QED BY <2>1, <1>3, <1>5, <1>6 DEF rtl8105e_hw_phy_config, fw
<1>17. Rl(rtl8168f_1_hw_phy_config(v)) /\ Rl(rtl8168f_2_hw_phy_config(v))
  BY <1>3, <1>5, <1>6, <1>7 DEF rtl8168f_1_hw_phy_config, rtl8168f_2_hw_phy_config, fw
<1>18. Re(rtl8168e_1_hw_phy_config(v))
  <2> DEFINE b == rtl_writephy_batch(On("1") \o On("3") \o Select("0"))
  <2>1. Re(fw \o r8168d_phy_param \o b)
    <3>1. Re(b)
      BY <1>4, <1>9
    <3> HIDE DEF b
    <3>2. Rl(fw \o r8168d_phy_param)
      BY <1>3, <1>5, <1>7
    <3> QED BY <3>1, <3>2, <1>3
  <2>2. rtl8168e_1_hw_phy_config(v) =
          fw \o r8168d_phy_param \o b \o r8168d_modify_extpage \o Paged("2") \o r8168d_modify_extpage \o phy("0")
            \o r8168d_phy_param \o r8168d_modify_extpage \o Paged("6") \o phy("0")
    BY DEF rtl8168e_1_hw_phy_config, fw
  <2> HIDE DEF b
  <2> QED BY <2>1, <2>2, <1>3, <1>5, <1>6, <1>7
<1>19. Re(rtl8168e_2_hw_phy_config(v))
  <2> DEFINE f == fw \o r8168d_modify_extpage \o Paged("3") \o r8168d_phy_param
             g == f \o On("5") \o Select("0") \o r8168d_modify_extpage \o phy("0") \o r8168d_phy_param
                    \o rtl8168f_config_eee_phy
  <2>1. Go(f)
    <3>1. Rl(f)
      BY <1>3, <1>5, <1>6, <1>7
    <3> QED BY <3>1, <1>4
  <2>2. rtl8168e_2_hw_phy_config(v) = g \o On("3") \o Select("0") \o Paged("5")
    BY DEF rtl8168e_2_hw_phy_config, fw
  <2> HIDE DEF f
  <2>3. Re(f \o On("5") \o Select("0"))
    BY <2>1, <1>3, <1>5
  <2>4. Re(g)
    BY <2>3, <1>3, <1>5, <1>7
  <2>5. Go(g)
    BY <2>4, <1>4
  <2> HIDE DEF g
  <2>6. Re(g \o On("3") \o Select("0"))
    BY <2>5, <1>3, <1>5
  <2> QED BY <2>2, <2>6, <1>3, <1>6
<1>20. Go(phy("0") \o fw)
  <2>1. St(phy("0"))
    BY <1>4, <1>5
  <2>2. Rl(phy("0") \o fw)
    BY <2>1, <1>3, <1>5
  <2> QED BY <2>2, <1>4
<1>21. Re(rtl8402_hw_phy_config(v))
  BY <1>3, <1>5, <1>20 DEF rtl8402_hw_phy_config, fw
<1>22. Re(rtl8106e_hw_phy_config(v))
  BY <1>3, <1>9, <1>20 DEF rtl8106e_hw_phy_config, fw
<1>23. Re(rtl8411_hw_phy_config(v))
  <2> DEFINE f == fw \o rtl8168f_hw_phy_config \o r8168d_phy_param \o Paged("3")
                    \o r8168d_phy_param \o r8168d_modify_extpage \o r8168d_phy_param \o Paged("3")
                    \o r8168d_phy_param
  <2>1. Rl(f)
    BY <1>3, <1>5, <1>6, <1>7
  <2>2. rtl8411_hw_phy_config(v) = f \o On("3") \o Select("0")
    BY DEF rtl8411_hw_phy_config, fw
  <2> HIDE DEF f
  <2> QED BY <2>1, <2>2, <1>3, <1>4, <1>5
<1> QED BY <1>14, <1>15, <1>16, <1>17, <1>18, <1>19, <1>21, <1>22, <1>23 DEF Re, Rl

(* From the 8168G on the firmware leaves the standard page, and so does every  *)
(* function.                                                                   *)
LEMMA NewConfigs ==
    ASSUME NEW v \in Nat, v >= 40
    PROVE  /\ Reaches(v, rtl8168g_1_hw_phy_config(v), {"0"}) /\ Reaches(v, rtl8168g_2_hw_phy_config(v), {"0"})
           /\ Reaches(v, rtl8168h_2_hw_phy_config(v), {"0"}) /\ Reaches(v, rtl8125a_2_hw_phy_config(v), {"0"})
           /\ Reaches(v, rtl8125b_hw_phy_config(v), {"0"})
<1> DEFINE Rs(s) == Rests(v, s)
           Re(s) == Reaches(v, s, {"0"})
<1>1. {} \in Holdings /\ Lefts(v) = {{"0"}} /\ Left(v) = {"0"}
  BY DEF Holdings, Lefts, Left
<1>2. /\ Roams(v, {}, On("b87")) /\ Roams(v, {}, On("a43")) /\ Zeroes(v, {}, Select("0"))
      /\ Stays(v, r8169_apply_firmware(v))
  BY <1>1, PhyPieces DEF Pages
<1>3. \A s : Stays(v, s) => Re(s)
  BY <1>1 DEF Stays, Reaches
<1>4. \A s : Rs(s) => Re(s)
  BY <1>3, RestJoins
<1>5. \A s, u : /\ Re(s) /\ Re(u) => Re(s \o u)
  BY <1>1, RestJoins
<1>6. /\ Re(Paged("a42")) /\ Re(Paged("a43")) /\ Re(Paged("a44")) /\ Re(Paged("a46")) /\ Re(Paged("a4b"))
      /\ Re(Paged("a4c")) /\ Re(Paged("ad4")) /\ Re(Paged("b54")) /\ Re(Paged("bcc")) /\ Re(Paged("bcd"))
      /\ Re(Paged("bcf")) /\ Re(Paged("bf0")) /\ Re(Paged("c41")) /\ Re(Paged("c42")) /\ Re(Paged("d06"))
  BY <1>4, PhyPartsRest DEF Pages
<1>7. Zeroes(v, {}, On("b87") \o Select("0")) /\ Zeroes(v, {}, On("a43") \o Select("0"))
  BY <1>2, RoamJoins
<1>8. /\ Re(On("b87") \o Select("0")) /\ Re(On("a43") \o Select("0")) /\ Re(r8169_apply_firmware(v))
      /\ Re(improve_swr)
  BY <1>2, <1>3, <1>7, RestJoins, PhyPartsRest
<1>9. \A s : Steady(v, s) => Re(s)
  BY <1>4, PhyPieces
<1>10. Steady(v, Do("touch", "ocp", {}, {}))
  BY QuietOne, QuietSteady DEF Ops, PhyOps, Names
<1> HIDE DEF Re, Rs
<1>11. /\ Re(r8168g_phy_param) /\ Re(rtl8168g_config_eee_phy) /\ Re(rtl8168g_phy_adjust_10m_aldps)
       /\ Re(rtl8168g_disable_aldps) /\ Re(rtl8168g_enable_gphy_10m) /\ Re(rtl8125a_config_eee_phy)
       /\ Re(rtl8125b_config_eee_phy) /\ Re(rtl8125_legacy_force_mode) /\ Re(Do("touch", "ocp", {}, {}))
  BY <1>9, <1>10, PhyPartsRest
<1>12. Re(rtl8168g_1_hw_phy_config(v)) /\ Re(rtl8168g_2_hw_phy_config(v))
  BY <1>5, <1>6, <1>8, <1>11 DEF rtl8168g_1_hw_phy_config, rtl8168g_2_hw_phy_config
<1>13. Re(rtl8168h_2_hw_phy_config(v))
  BY <1>5, <1>6, <1>8, <1>11 DEF rtl8168h_2_hw_phy_config
<1>14. ASSUME NEW s, Re(s)
       PROVE  Re(s \o On("b87") \o Select("0")) /\ Re(s \o On("a43") \o Select("0"))
  <2>1. Goes(v, s)
    BY <1>1, <1>14, RestJoins DEF Re
  <2>2. Goes(v, s \o On("b87")) /\ Goes(v, s \o On("a43"))
    BY <2>1, <1>2, RestJoins
  <2> QED BY <2>2, <1>2, RestJoins DEF Re
<1>15. Re(rtl8125a_2_hw_phy_config(v))
  <2>1. Re(Paged("ad4") \o On("b87") \o Select("0"))
    BY <1>6, <1>14
  <2>2. Re(Paged("ad4") \o On("b87") \o Select("0") \o On("a43") \o Select("0"))
    BY <2>1, <1>14
  <2> QED BY <2>2, <1>5, <1>6, <1>8, <1>11 DEF rtl8125a_2_hw_phy_config
<1>16. Re(rtl8125b_hw_phy_config(v))
  <2>1. Re(r8169_apply_firmware(v) \o Paged("a44"))
    BY <1>5, <1>6, <1>8
  <2>2. Re(r8169_apply_firmware(v) \o Paged("a44") \o On("b87") \o Select("0"))
    BY <2>1, <1>14
  <2> QED BY <2>2, <1>5, <1>6, <1>11 DEF rtl8125b_hw_phy_config
<1> QED BY <1>12, <1>13, <1>15, <1>16 DEF Re

(* The functions without firmware are chosen by version.                       *)
LEMMA ConfigOf ==
    ASSUME NEW v \in Nat, NEW efuse
    PROVE  /\ v \in {2, 3} => r8169_hw_phy_config(v, efuse) = rtl8169s_hw_phy_config
           /\ v = 4 => r8169_hw_phy_config(v, efuse) = rtl8169sb_hw_phy_config
           /\ v = 5 => r8169_hw_phy_config(v, efuse) = rtl8169scd_hw_phy_config
           /\ v = 6 => r8169_hw_phy_config(v, efuse) = rtl8169sce_hw_phy_config
           /\ v \in 7..9 => r8169_hw_phy_config(v, efuse) = rtl8102e_hw_phy_config
           /\ v = 11 => r8169_hw_phy_config(v, efuse) = rtl8168bb_hw_phy_config
           /\ v = 14 => r8169_hw_phy_config(v, efuse) = rtl8401_hw_phy_config
           /\ v = 17 => r8169_hw_phy_config(v, efuse) = rtl8168bef_hw_phy_config
           /\ v = 18 => r8169_hw_phy_config(v, efuse) = rtl8168cp_1_hw_phy_config
           /\ v = 19 => r8169_hw_phy_config(v, efuse) = rtl8168c_1_hw_phy_config
           /\ v = 20 => r8169_hw_phy_config(v, efuse) = rtl8168c_2_hw_phy_config
           /\ v \in {21, 22} => r8169_hw_phy_config(v, efuse) = rtl8168c_3_hw_phy_config
           /\ v \in {23, 24} => r8169_hw_phy_config(v, efuse) = rtl8168cp_2_hw_phy_config
           /\ v = 28 => r8169_hw_phy_config(v, efuse) = rtl8168d_4_hw_phy_config
           /\ v = 51 => r8169_hw_phy_config(v, efuse) = rtl8168ep_2_hw_phy_config
           /\ v \in {52, 53} => r8169_hw_phy_config(v, efuse) = rtl8117_hw_phy_config
           /\ v \in {10, 31} => r8169_hw_phy_config(v, efuse) = <<>>
<1>1. v \in {2, 3} => r8169_hw_phy_config(v, efuse) = rtl8169s_hw_phy_config
  <2>1. v = 2 => r8169_hw_phy_config(v, efuse) = rtl8169s_hw_phy_config
    BY DEF r8169_hw_phy_config
  <2>2. v = 3 => r8169_hw_phy_config(v, efuse) = rtl8169s_hw_phy_config
    BY DEF r8169_hw_phy_config
  <2> QED BY <2>1, <2>2
<1>2. v = 4 => r8169_hw_phy_config(v, efuse) = rtl8169sb_hw_phy_config
  BY DEF r8169_hw_phy_config
<1>3. v = 5 => r8169_hw_phy_config(v, efuse) = rtl8169scd_hw_phy_config
  BY DEF r8169_hw_phy_config
<1>4. v = 6 => r8169_hw_phy_config(v, efuse) = rtl8169sce_hw_phy_config
  BY DEF r8169_hw_phy_config
<1>5. v \in 7..9 => r8169_hw_phy_config(v, efuse) = rtl8102e_hw_phy_config
  <2>1. v = 7 => r8169_hw_phy_config(v, efuse) = rtl8102e_hw_phy_config
    BY DEF r8169_hw_phy_config
  <2>2. v = 8 => r8169_hw_phy_config(v, efuse) = rtl8102e_hw_phy_config
    BY DEF r8169_hw_phy_config
  <2>3. v = 9 => r8169_hw_phy_config(v, efuse) = rtl8102e_hw_phy_config
    BY DEF r8169_hw_phy_config
  <2> QED BY <2>1, <2>2, <2>3
<1>6. v = 11 => r8169_hw_phy_config(v, efuse) = rtl8168bb_hw_phy_config
  BY DEF r8169_hw_phy_config
<1>7. v = 14 => r8169_hw_phy_config(v, efuse) = rtl8401_hw_phy_config
  BY DEF r8169_hw_phy_config
<1>8. v = 17 => r8169_hw_phy_config(v, efuse) = rtl8168bef_hw_phy_config
  BY DEF r8169_hw_phy_config
<1>9. v = 18 => r8169_hw_phy_config(v, efuse) = rtl8168cp_1_hw_phy_config
  BY DEF r8169_hw_phy_config
<1>10. v = 19 => r8169_hw_phy_config(v, efuse) = rtl8168c_1_hw_phy_config
  BY DEF r8169_hw_phy_config
<1>11. v = 20 => r8169_hw_phy_config(v, efuse) = rtl8168c_2_hw_phy_config
  BY DEF r8169_hw_phy_config
<1>12. v \in {21, 22} => r8169_hw_phy_config(v, efuse) = rtl8168c_3_hw_phy_config
  <2>1. v = 21 => r8169_hw_phy_config(v, efuse) = rtl8168c_3_hw_phy_config
    BY DEF r8169_hw_phy_config
  <2>2. v = 22 => r8169_hw_phy_config(v, efuse) = rtl8168c_3_hw_phy_config
    BY DEF r8169_hw_phy_config
  <2> QED BY <2>1, <2>2
<1>13. v \in {23, 24} => r8169_hw_phy_config(v, efuse) = rtl8168cp_2_hw_phy_config
  <2>1. v = 23 => r8169_hw_phy_config(v, efuse) = rtl8168cp_2_hw_phy_config
    BY DEF r8169_hw_phy_config
  <2>2. v = 24 => r8169_hw_phy_config(v, efuse) = rtl8168cp_2_hw_phy_config
    BY DEF r8169_hw_phy_config
  <2> QED BY <2>1, <2>2
<1>14. v = 28 => r8169_hw_phy_config(v, efuse) = rtl8168d_4_hw_phy_config
  BY DEF r8169_hw_phy_config
<1>15. v = 51 => r8169_hw_phy_config(v, efuse) = rtl8168ep_2_hw_phy_config
  BY DEF r8169_hw_phy_config
<1>16. v \in {52, 53} => r8169_hw_phy_config(v, efuse) = rtl8117_hw_phy_config
  BY DEF r8169_hw_phy_config
<1>17. v \in {10, 31} => r8169_hw_phy_config(v, efuse) = <<>>
  <2>1. v = 10 => r8169_hw_phy_config(v, efuse) = <<>>
    BY DEF r8169_hw_phy_config
  <2>2. v = 31 => r8169_hw_phy_config(v, efuse) = <<>>
    BY DEF r8169_hw_phy_config
  <2> QED BY <2>1, <2>2
<1> QED BY <1>1, <1>2, <1>3, <1>4, <1>5, <1>6, <1>7, <1>8, <1>9, <1>10, <1>11, <1>12, <1>13, <1>14, <1>15, <1>16, <1>17

(* And of the others, whose set-up looks at the version or the fuse.           *)
LEMMA ConfigOfOthers ==
    ASSUME NEW v, NEW efuse
    PROVE  /\ v = 25 => r8169_hw_phy_config(v, efuse) = rtl8168d_1_hw_phy_config(v, efuse)
           /\ v = 26 => r8169_hw_phy_config(v, efuse) = rtl8168d_2_hw_phy_config(v, efuse)
           /\ v \in {29, 30} => r8169_hw_phy_config(v, efuse) = rtl8105e_hw_phy_config(v)
           /\ v \in {32, 33} => r8169_hw_phy_config(v, efuse) = rtl8168e_1_hw_phy_config(v)
           /\ v = 34 => r8169_hw_phy_config(v, efuse) = rtl8168e_2_hw_phy_config(v)
           /\ v = 35 => r8169_hw_phy_config(v, efuse) = rtl8168f_1_hw_phy_config(v)
           /\ v = 36 => r8169_hw_phy_config(v, efuse) = rtl8168f_2_hw_phy_config(v)
           /\ v = 37 => r8169_hw_phy_config(v, efuse) = rtl8402_hw_phy_config(v)
           /\ v = 38 => r8169_hw_phy_config(v, efuse) = rtl8411_hw_phy_config(v)
           /\ v = 39 => r8169_hw_phy_config(v, efuse) = rtl8106e_hw_phy_config(v)
           /\ v = 40 => r8169_hw_phy_config(v, efuse) = rtl8168g_1_hw_phy_config(v)
           /\ v \in {42, 43, 44} => r8169_hw_phy_config(v, efuse) = rtl8168g_2_hw_phy_config(v)
           /\ v \in {46, 48} => r8169_hw_phy_config(v, efuse) = rtl8168h_2_hw_phy_config(v)
           /\ v = 61 => r8169_hw_phy_config(v, efuse) = rtl8125a_2_hw_phy_config(v)
           /\ v = 63 => r8169_hw_phy_config(v, efuse) = rtl8125b_hw_phy_config(v)
<1>1. v = 25 => r8169_hw_phy_config(v, efuse) = rtl8168d_1_hw_phy_config(v, efuse)
  BY DEF r8169_hw_phy_config
<1>2. v = 26 => r8169_hw_phy_config(v, efuse) = rtl8168d_2_hw_phy_config(v, efuse)
  BY DEF r8169_hw_phy_config
<1>3. v \in {29, 30} => r8169_hw_phy_config(v, efuse) = rtl8105e_hw_phy_config(v)
  <2>1. v = 29 => r8169_hw_phy_config(v, efuse) = rtl8105e_hw_phy_config(v)
    BY DEF r8169_hw_phy_config
  <2>2. v = 30 => r8169_hw_phy_config(v, efuse) = rtl8105e_hw_phy_config(v)
    BY DEF r8169_hw_phy_config
  <2> QED BY <2>1, <2>2
<1>4. v \in {32, 33} => r8169_hw_phy_config(v, efuse) = rtl8168e_1_hw_phy_config(v)
  <2>1. v = 32 => r8169_hw_phy_config(v, efuse) = rtl8168e_1_hw_phy_config(v)
    BY DEF r8169_hw_phy_config
  <2>2. v = 33 => r8169_hw_phy_config(v, efuse) = rtl8168e_1_hw_phy_config(v)
    BY DEF r8169_hw_phy_config
  <2> QED BY <2>1, <2>2
<1>5. v = 34 => r8169_hw_phy_config(v, efuse) = rtl8168e_2_hw_phy_config(v)
  BY DEF r8169_hw_phy_config
<1>6. v = 35 => r8169_hw_phy_config(v, efuse) = rtl8168f_1_hw_phy_config(v)
  BY DEF r8169_hw_phy_config
<1>7. v = 36 => r8169_hw_phy_config(v, efuse) = rtl8168f_2_hw_phy_config(v)
  BY DEF r8169_hw_phy_config
<1>8. v = 37 => r8169_hw_phy_config(v, efuse) = rtl8402_hw_phy_config(v)
  BY DEF r8169_hw_phy_config
<1>9. v = 38 => r8169_hw_phy_config(v, efuse) = rtl8411_hw_phy_config(v)
  BY DEF r8169_hw_phy_config
<1>10. v = 39 => r8169_hw_phy_config(v, efuse) = rtl8106e_hw_phy_config(v)
  BY DEF r8169_hw_phy_config
<1>11. v = 40 => r8169_hw_phy_config(v, efuse) = rtl8168g_1_hw_phy_config(v)
  BY DEF r8169_hw_phy_config
<1>12. v \in {42, 43, 44} => r8169_hw_phy_config(v, efuse) = rtl8168g_2_hw_phy_config(v)
  <2>1. v = 42 => r8169_hw_phy_config(v, efuse) = rtl8168g_2_hw_phy_config(v)
    BY DEF r8169_hw_phy_config
  <2>2. v = 43 => r8169_hw_phy_config(v, efuse) = rtl8168g_2_hw_phy_config(v)
    BY DEF r8169_hw_phy_config
  <2>3. v = 44 => r8169_hw_phy_config(v, efuse) = rtl8168g_2_hw_phy_config(v)
    BY DEF r8169_hw_phy_config
  <2> QED BY <2>1, <2>2, <2>3
<1>13. v \in {46, 48} => r8169_hw_phy_config(v, efuse) = rtl8168h_2_hw_phy_config(v)
  <2>1. v = 46 => r8169_hw_phy_config(v, efuse) = rtl8168h_2_hw_phy_config(v)
    BY DEF r8169_hw_phy_config
  <2>2. v = 48 => r8169_hw_phy_config(v, efuse) = rtl8168h_2_hw_phy_config(v)
    BY DEF r8169_hw_phy_config
  <2> QED BY <2>1, <2>2
<1>14. v = 61 => r8169_hw_phy_config(v, efuse) = rtl8125a_2_hw_phy_config(v)
  BY DEF r8169_hw_phy_config
<1>15. v = 63 => r8169_hw_phy_config(v, efuse) = rtl8125b_hw_phy_config(v)
  BY DEF r8169_hw_phy_config
<1> QED BY <1>1, <1>2, <1>3, <1>4, <1>5, <1>6, <1>7, <1>8, <1>9, <1>10, <1>11, <1>12, <1>13, <1>14, <1>15

(* The set-up of the PHY ends on the page it began on, the one at rest.        *)
LEMMA ConfigLeaves ==
    ASSUME NEW v \in Versions, NEW efuse
    PROVE  Leaves(v, {}, Home(v), r8169_hw_phy_config(v, efuse), Home(v))
<1> DEFINE L(s) == Leaves(v, {}, Home(v), s, Home(v))
<1>1. v \in Nat /\ Home(v) \in Lefts(v) /\ {"0"} \in Lefts(v)
  BY DEF Versions, Home, Lefts, Left, RestsOnFw
<1>2. \A s : Rests(v, s) => L(s)
  BY <1>1 DEF Rests
<1>3. v \notin RestsOnFw => \A s : Reaches(v, s, {"0"}) => L(s)
  <2>1. v \notin RestsOnFw => Home(v) = {"0"}
    BY DEF Home
  <2> QED BY <1>1, <2>1 DEF Reaches
<1>4. v \in RestsOnFw => HasFirmware(v) /\ \A s : Reaches(v, s, Left(v)) => L(s)
  <2>1. v \in RestsOnFw => Home(v) = Left(v)
    BY DEF Home, Left, RestsOnFw
  <2>2. v \in RestsOnFw => HasFirmware(v)
    BY DEF RestsOnFw, HasFirmware
  <2> QED BY <1>1, <2>1, <2>2 DEF Reaches
<1> SUFFICES L(r8169_hw_phy_config(v, efuse))
  OBVIOUS
<1> HIDE DEF L
<1>5. v \notin RestsOnFw =>
        /\ L(rtl8169s_hw_phy_config) /\ L(rtl8169scd_hw_phy_config)
        /\ L(rtl8169sce_hw_phy_config) /\ L(rtl8168bb_hw_phy_config)
        /\ L(rtl8168c_1_hw_phy_config) /\ L(rtl8168c_2_hw_phy_config)
        /\ L(rtl8168c_3_hw_phy_config) /\ L(rtl8102e_hw_phy_config)
        /\ L(rtl8168ep_2_hw_phy_config)
  BY <1>1, <1>3, PlainConfigs
<1>6. /\ L(rtl8169sb_hw_phy_config) /\ L(rtl8168bef_hw_phy_config)
      /\ L(rtl8168cp_1_hw_phy_config) /\ L(rtl8168cp_2_hw_phy_config)
      /\ L(rtl8168d_4_hw_phy_config) /\ L(rtl8401_hw_phy_config)
      /\ L(rtl8117_hw_phy_config) /\ L(<<>>)
  BY <1>1, <1>2, PlainConfigs, PhyPieces
<1>7. v \in RestsOnFw =>
        /\ L(rtl8168d_1_hw_phy_config(v, efuse)) /\ L(rtl8168d_2_hw_phy_config(v, efuse))
        /\ L(rtl8105e_hw_phy_config(v)) /\ L(rtl8168f_1_hw_phy_config(v)) /\ L(rtl8168f_2_hw_phy_config(v))
  BY <1>1, <1>4, OldConfigs
<1>8. v \notin RestsOnFw /\ HasFirmware(v) =>
        /\ L(rtl8168e_1_hw_phy_config(v)) /\ L(rtl8168e_2_hw_phy_config(v)) /\ L(rtl8402_hw_phy_config(v))
        /\ L(rtl8411_hw_phy_config(v)) /\ L(rtl8106e_hw_phy_config(v))
  BY <1>1, <1>3, OldConfigs
<1>9. v \notin RestsOnFw /\ v >= 40 =>
        /\ L(rtl8168g_1_hw_phy_config(v)) /\ L(rtl8168g_2_hw_phy_config(v))
        /\ L(rtl8168h_2_hw_phy_config(v)) /\ L(rtl8125a_2_hw_phy_config(v)) /\ L(rtl8125b_hw_phy_config(v))
  BY <1>1, <1>3, NewConfigs
<1>10. /\ v \in RestsOnFw <=> v \in {25, 26, 29, 30, 35, 36}
       /\ v \in {32, 33, 34, 37, 38, 39} => HasFirmware(v)
  BY DEF RestsOnFw, HasFirmware
<1>11. CASE v \in (2 .. 24) \cup {28, 31, 51, 52, 53}
  <2>1. /\ L(rtl8169s_hw_phy_config) /\ L(rtl8169scd_hw_phy_config)
        /\ L(rtl8169sce_hw_phy_config) /\ L(rtl8168bb_hw_phy_config)
        /\ L(rtl8168c_1_hw_phy_config) /\ L(rtl8168c_2_hw_phy_config)
        /\ L(rtl8168c_3_hw_phy_config) /\ L(rtl8102e_hw_phy_config)
        /\ L(rtl8168ep_2_hw_phy_config)
    BY <1>5, <1>10, <1>11
  <2> QED BY <2>1, <1>1, <1>6, <1>11, ConfigOf DEF Versions
<1>12. CASE v \in {25, 26, 29, 30, 35, 36}
  <2>1. /\ L(rtl8168d_1_hw_phy_config(v, efuse)) /\ L(rtl8168d_2_hw_phy_config(v, efuse))
        /\ L(rtl8105e_hw_phy_config(v)) /\ L(rtl8168f_1_hw_phy_config(v)) /\ L(rtl8168f_2_hw_phy_config(v))
    BY <1>7, <1>10, <1>12
  <2> QED BY <2>1, <1>12, ConfigOfOthers
<1>13. CASE v \in {32, 33, 34, 37, 38, 39}
  <2>1. /\ L(rtl8168e_1_hw_phy_config(v)) /\ L(rtl8168e_2_hw_phy_config(v)) /\ L(rtl8402_hw_phy_config(v))
        /\ L(rtl8411_hw_phy_config(v)) /\ L(rtl8106e_hw_phy_config(v))
    BY <1>8, <1>10, <1>13
  <2> QED BY <2>1, <1>13, ConfigOfOthers
<1>14. CASE v \in {40, 42, 43, 44, 46, 48, 61, 63}
  <2>1. v \notin RestsOnFw /\ v >= 40
    BY <1>10, <1>14
  <2>2. /\ L(rtl8168g_1_hw_phy_config(v)) /\ L(rtl8168g_2_hw_phy_config(v))
        /\ L(rtl8168h_2_hw_phy_config(v)) /\ L(rtl8125a_2_hw_phy_config(v)) /\ L(rtl8125b_hw_phy_config(v))
    BY <1>9, <2>1
  <2> QED BY <2>2, <1>14, ConfigOfOthers
<1> QED BY <1>11, <1>12, <1>13, <1>14 DEF Versions

-----------------------------------------------------------------------------
(* With the page at rest: what main may know of phylib then.  On 52 it works   *)
(* unheeded while the device is up, for the sake of the firmware in its reset. *)
KindUp(v) == IF v = 52 THEN "unheeded" ELSE "beside"
Kinds(v) == {"off", KindUp(v)}
AtHome(v, k) == Note(Home(v), {}, k)
Homely(v, s) == \A k \in Kinds(v) : Walk(v, AtHome(v, k), s, AtHome(v, k))

(* The page at rest is one that may be left, and so may its note.              *)
LEMMA HomeTidy ==
    ASSUME NEW v
    PROVE  /\ Tidy(v, Home(v), "beside") /\ Home(v) \in SUBSET Names /\ "0" \in Home(v)
           /\ \A k \in Kinds(v) : Tidy(v, Home(v), k) /\ Sound(v, AtHome(v, k))
<1>1. Home(v) \in SUBSET Names /\ "0" \in Home(v)
  BY DEF Home, Names, Pages
<1>2. Tidy(v, Home(v), "beside") /\ \A k \in Kinds(v) : Tidy(v, Home(v), k)
  BY <1>1 DEF Tidy, Kinds, KindUp, PhylibKinds
<1> QED BY <1>1, <1>2, TidySound DEF AtHome

(* What leaves every page alone leaves the one at rest alone.                  *)
LEMMA SteadyHomely == ASSUME NEW v, NEW s, Steady(v, s) PROVE Homely(v, s)
BY HomeTidy DEF Steady, Homely, AtHome

(* One after the other leaves the page at rest alone, too.                     *)
LEMMA HomelyJoins == ASSUME NEW v, NEW s, NEW u, Homely(v, s), Homely(v, u) PROVE Homely(v, s \o u)
BY WalkJoins DEF Homely

(* So does a script that may be left out.                                      *)
LEMMA HomelyIf == ASSUME NEW v, NEW s, NEW c, c => Homely(v, s) PROVE Homely(v, If(c, s)) /\ Homely(v, <<>>)
BY EmptyWalk, HomeTidy DEF Homely, If

(* So does one with the configuration registers unlocked.                      *)
LEMMA HomelyUnlocked == ASSUME NEW v, NEW s, Homely(v, s) PROVE Homely(v, Unlocked(s))
<1>1. Quiet(v, Do("unlock", "Cfg9346", {}, {})) /\ Quiet(v, Do("lock", "Cfg9346", {}, {}))
  BY QuietOne DEF Ops, PhyOps, Names
<1> QED BY <1>1, QuietSteady, SteadyHomely, HomelyJoins DEF Unlocked

-----------------------------------------------------------------------------
(* The pieces of the start functions leave the page alone.                     *)
LEMMA PiecesSteady ==
    ASSUME NEW v
    PROVE  /\ Steady(v, Touch("ephy")) /\ Steady(v, rtl_ephy_init)
           /\ Steady(v, EriWrite("eri", {})) /\ Steady(v, rtl_set_fifo_size)
           /\ Steady(v, rtl8168g_set_pause_thresholds) /\ Steady(v, rtl8168_config_eee_mac)
           /\ Steady(v, EriModify("eri_1d0", {}, {"b1"})) /\ Steady(v, EriModify("eri_1d0", {}, {"b1", "b4"}))
           /\ Steady(v, EriModify("eri_1b0", {}, {"b4"})) /\ Steady(v, EriModify("eri_1b0", {"b12"}, {}))
           /\ Steady(v, EriModify("eri_2fc", {"b1"}, {"b0"})) /\ Steady(v, EriModify("eri_dc", {}, {"b2"}))
           /\ Steady(v, EriModify("eri_d4", {}, {"b4"})) /\ Steady(v, EriWrite("eri_1b0", {}))
           /\ Steady(v, EriWrite("eri_1d0", {})) /\ Steady(v, EriModify("eri_d4", {"exit_l1"}, {"exit_l1"}))
           /\ Steady(v, rtl_reset_packet_filter)
           /\ Steady(v, rtl_set_def_aspm_entry_latency) /\ Steady(v, Touch("ocp"))
           /\ Steady(v, rtl_disable_clock_request) /\ Steady(v, rtl_enable_clock_request)
           /\ Steady(v, rtl_pcie_state_l2l3_disable) /\ Steady(v, no_beacon)
           /\ Steady(v, RMW("Config1", {}, {"Speed_down"})) /\ Steady(v, RMW("Config1", {"Speed_down"}, {}))
           /\ Steady(v, RMW("Config1", {"LEDS0"}, {})) /\ Steady(v, ModConfig("Config5", {"Spi_en"}, {}))
           /\ Steady(v, rtl_disable_rxdvgate) /\ Steady(v, rtl_enable_rxdvgate) /\ Steady(v, Paged("c42"))
           /\ Steady(v, Put("Config1", {"LEDS0", "Speed_down", "PMEnable"})) /\ Steady(v, Put("Config1", {"PMEnable"}))
<1> DEFINE S(s) == Steady(v, s)
           regs == {"eri", "eri_1d0", "eri_1b0", "eri_2fc", "eri_d4", "eri_dc"}
<1>1. /\ regs \subseteq Names /\ {"LnkCtl", "Config1", "Config3", "Config5", "MISC"} \subseteq Names
      /\ {"ephy", "ocp", "csi"} \subseteq Names
  BY DEF Names, Registers
<1>2. /\ {} \in SUBSET Bits /\ {"CLKREQ_EN"} \in SUBSET Bits /\ {"Rdy_to_L23"} \in SUBSET Bits
      /\ {"Beacon_en"} \in SUBSET Bits /\ {"Speed_down"} \in SUBSET Bits /\ {"LEDS0"} \in SUBSET Bits
      /\ {"Spi_en"} \in SUBSET Bits /\ {"RXDV_GATED_EN"} \in SUBSET Bits /\ {"PMEnable"} \in SUBSET Bits
      /\ {"LEDS0", "Speed_down", "PMEnable"} \in SUBSET Bits
  BY DEF Bits
<1>3. /\ {"b1"} \in SUBSET Bits /\ {"b4"} \in SUBSET Bits /\ {"b12"} \in SUBSET Bits
      /\ {"b0"} \in SUBSET Bits /\ {"b1", "b4"} \in SUBSET Bits /\ {"exit_l1"} \in SUBSET Bits
      /\ {"eee"} \in SUBSET Bits /\ {"b2"} \in SUBSET Bits /\ {"filter"} \in SUBSET Bits
  BY DEF Bits
<1>4. ASSUME NEW reg \in Names, NEW clear \in SUBSET Bits, NEW set \in SUBSET Bits
      PROVE  /\ S(RMW(reg, clear, set)) /\ S(Put(reg, set)) /\ S(Touch(reg))
             /\ S(ModConfig(reg, clear, set)) /\ S(EriWrite(reg, set)) /\ S(EriModify(reg, clear, set))
  BY QuietPieces, QuietSteady
<1>5. \A s, u : S(s) /\ S(u) => S(s \o u)
  BY SteadyJoins
<1>6. S(Paged("c42"))
  BY PagedSteady DEF Pages
<1> HIDE DEF S
<1>7. S(Touch("ephy")) /\ S(rtl_ephy_init) /\ S(rtl_set_def_aspm_entry_latency) /\ S(Touch("ocp"))
  BY <1>1, <1>2, <1>4 DEF rtl_ephy_init, rtl_set_def_aspm_entry_latency
<1>8. /\ S(EriWrite("eri", {})) /\ S(EriWrite("eri_1b0", {})) /\ S(EriWrite("eri_1d0", {}))
      /\ S(EriModify("eri_1d0", {}, {"b1"})) /\ S(EriModify("eri_1d0", {}, {"b1", "b4"}))
      /\ S(EriModify("eri_1b0", {}, {"b4"})) /\ S(EriModify("eri_1b0", {"b12"}, {}))
  BY <1>1, <1>2, <1>3, <1>4
<1>9. /\ S(EriModify("eri_2fc", {"b1"}, {"b0"})) /\ S(EriModify("eri_dc", {}, {"b2"}))
      /\ S(EriModify("eri_d4", {}, {"b4"})) /\ S(EriModify("eri_d4", {"exit_l1"}, {"exit_l1"}))
      /\ S(EriModify("eri_1b0", {}, {"eee"}))
      /\ S(EriModify("eri_dc", {"filter"}, {})) /\ S(EriModify("eri_dc", {}, {"filter"}))
  BY <1>1, <1>2, <1>3, <1>4
<1>10. /\ S(rtl_set_fifo_size) /\ S(rtl8168g_set_pause_thresholds) /\ S(rtl8168_config_eee_mac)
       /\ S(rtl_reset_packet_filter)
  BY <1>5, <1>8, <1>9
     DEF rtl_set_fifo_size, rtl8168g_set_pause_thresholds, rtl8168_config_eee_mac, rtl_reset_packet_filter
<1>11. /\ S(rtl_disable_clock_request) /\ S(rtl_enable_clock_request)
       /\ S(rtl_pcie_state_l2l3_disable) /\ S(no_beacon)
       /\ S(rtl_disable_rxdvgate) /\ S(rtl_enable_rxdvgate)
  BY <1>1, <1>2, <1>4
     DEF rtl_disable_clock_request, rtl_enable_clock_request, rtl_pcie_state_l2l3_disable, no_beacon,
         rtl_disable_rxdvgate, rtl_enable_rxdvgate
<1>12. /\ S(RMW("Config1", {}, {"Speed_down"})) /\ S(RMW("Config1", {"Speed_down"}, {}))
       /\ S(RMW("Config1", {"LEDS0"}, {})) /\ S(ModConfig("Config5", {"Spi_en"}, {}))
       /\ S(Put("Config1", {"LEDS0", "Speed_down", "PMEnable"})) /\ S(Put("Config1", {"PMEnable"}))
  BY <1>1, <1>2, <1>4
<1> QED BY <1>6, <1>7, <1>8, <1>9, <1>10, <1>11, <1>12 DEF S

(* The start function of each chip begins and ends with the page at rest; that *)
(* of 52 runs the firmware.                                                    *)
LEMMA StartHomely ==
    ASSUME NEW v
    PROVE  /\ Homely(v, rtl_hw_start_8168b) /\ Homely(v, rtl_hw_start_8168cp_1) /\ Homely(v, rtl_hw_start_8168cp_2)
           /\ Homely(v, rtl_hw_start_8168cp_3) /\ Homely(v, rtl_hw_start_8168c_1) /\ Homely(v, rtl_hw_start_8168c_2)
           /\ Homely(v, rtl_hw_start_8168c_4) /\ Homely(v, rtl_hw_start_8168d) /\ Homely(v, rtl_hw_start_8168d_4)
           /\ Homely(v, rtl_hw_start_8168e_1) /\ Homely(v, rtl_hw_start_8168e_2) /\ Homely(v, rtl_hw_start_8168f)
           /\ Homely(v, rtl_hw_start_8168f_1) /\ Homely(v, rtl_hw_start_8411) /\ Homely(v, rtl_hw_start_8168g)
           /\ Homely(v, rtl_hw_start_8168g_1) /\ Homely(v, rtl_hw_start_8168g_2) /\ Homely(v, rtl_hw_start_8411_2)
           /\ Homely(v, rtl_hw_start_8168h_1) /\ Homely(v, rtl_hw_start_8168ep_3) /\ (v \in {52, 53} => Homely(v, rtl_hw_start_8117(v)))
           /\ Homely(v, rtl_hw_start_8401) /\ Homely(v, rtl_hw_start_8105e_1) /\ Homely(v, rtl_hw_start_8105e_2)
           /\ Homely(v, rtl_hw_start_8402) /\ Homely(v, rtl_hw_start_8106) /\ Homely(v, rtl_hw_start_8125a_2)
           /\ Homely(v, rtl_hw_start_8125b)
           /\ /\ Homely(v, rtl_hw_start_8102e_1) /\ Homely(v, rtl_hw_start_8102e_2)
           /\ Homely(v, rtl_hw_start_8102e_3)
<1> DEFINE C(s) == Homely(v, s)
<1>1. C(Touch("ephy")) /\ C(rtl_ephy_init)
  BY PiecesSteady, SteadyHomely
<1>2. /\ C(EriWrite("eri", {})) /\ C(rtl_set_fifo_size) /\ C(rtl8168g_set_pause_thresholds)
      /\ C(rtl8168_config_eee_mac) /\ C(EriModify("eri_1d0", {}, {"b1"}))
      /\ C(EriModify("eri_1d0", {}, {"b1", "b4"})) /\ C(EriModify("eri_1b0", {}, {"b4"}))
      /\ C(EriModify("eri_1b0", {"b12"}, {})) /\ C(EriModify("eri_2fc", {"b1"}, {"b0"}))
      /\ C(EriModify("eri_dc", {}, {"b2"})) /\ C(EriModify("eri_d4", {}, {"b4"}))
      /\ C(EriWrite("eri_1b0", {})) /\ C(EriWrite("eri_1d0", {}))
      /\ C(EriModify("eri_d4", {"exit_l1"}, {"exit_l1"})) /\ C(rtl_reset_packet_filter)
  BY PiecesSteady, SteadyHomely
<1>3. /\ C(rtl_set_def_aspm_entry_latency) /\ C(Touch("ocp")) /\ C(rtl_disable_clock_request)
      /\ C(rtl_enable_clock_request) /\ C(rtl_pcie_state_l2l3_disable) /\ C(no_beacon)
      /\ C(RMW("Config1", {}, {"Speed_down"})) /\ C(RMW("Config1", {"Speed_down"}, {}))
      /\ C(RMW("Config1", {"LEDS0"}, {})) /\ C(ModConfig("Config5", {"Spi_en"}, {}))
      /\ C(rtl_disable_rxdvgate) /\ C(Paged("c42"))
  BY PiecesSteady, SteadyHomely
<1>4. C(Put("Config1", {"LEDS0", "Speed_down", "PMEnable"})) /\ C(Put("Config1", {"PMEnable"}))
  BY PiecesSteady, SteadyHomely
<1>41. v \in {52, 53} => C(r8169_apply_firmware(v))
  <2>1. CASE v = 52
    <3>1. HasFirmware(v) /\ Left(v) = Home(v) /\ v \in Nat
      BY <2>1 DEF HasFirmware, Left, Home, RestsOnFw
    <3>2. \A k \in Kinds(v) : Tidy(v, Home(v), k) /\ k # "beside"
      BY <2>1, HomeTidy DEF Kinds, KindUp
    <3> QED BY <3>1, <3>2, FirmwareWalks DEF Homely, AtHome
  <2>2. CASE v = 53
    <3>1. ~HasFirmware(v)
      BY <2>2 DEF HasFirmware
    <3>2. r8169_apply_firmware(v) = <<>>
      BY <3>1 DEF r8169_apply_firmware, If
    <3> QED BY <3>2, HomelyIf
  <2> QED BY <2>1, <2>2
<1> HIDE DEF C
<1>5. ASSUME NEW s, NEW u, C(s), C(u) PROVE C(s \o u)
  BY <1>5, HomelyJoins DEF C
<1>6. C(rtl_hw_start_8168b)
  BY <1>5, <1>3 DEF rtl_hw_start_8168b
<1>7. C(rtl_hw_start_8168cp)
  BY <1>5, <1>3 DEF rtl_hw_start_8168cp
<1>8. C(rtl_hw_start_8168cp_1)
  BY <1>5, <1>1, <1>3, <1>7 DEF rtl_hw_start_8168cp_1
<1>9. C(rtl_hw_start_8168cp_2)
  BY <1>5, <1>3 DEF rtl_hw_start_8168cp_2
<1>10. C(rtl_hw_start_8168cp_3)
  BY <1>5, <1>3 DEF rtl_hw_start_8168cp_3
<1>11. C(rtl_hw_start_8168c_1)
  BY <1>5, <1>1, <1>3, <1>7 DEF rtl_hw_start_8168c_1
<1>12. C(rtl_hw_start_8168c_2)
  BY <1>5, <1>1, <1>3, <1>7 DEF rtl_hw_start_8168c_2
<1>13. C(rtl_hw_start_8168c_4)
  BY <1>5, <1>3, <1>7 DEF rtl_hw_start_8168c_4
<1>14. C(rtl_hw_start_8168d)
  BY <1>5, <1>3 DEF rtl_hw_start_8168d
<1>15. C(rtl_hw_start_8168d_4)
  BY <1>5, <1>1, <1>3 DEF rtl_hw_start_8168d_4
<1>16. C(rtl_hw_start_8168e_1)
  BY <1>5, <1>1, <1>3 DEF rtl_hw_start_8168e_1
<1>17. C(rtl_hw_start_8168e_2)
  BY <1>5, <1>1, <1>2, <1>3 DEF rtl_hw_start_8168e_2
<1>18. C(rtl_hw_start_8168f)
  BY <1>5, <1>2, <1>3 DEF rtl_hw_start_8168f
<1>19. C(rtl_hw_start_8168f_1)
  BY <1>5, <1>1, <1>18 DEF rtl_hw_start_8168f_1
<1>20. C(rtl_hw_start_8411)
  BY <1>5, <1>1, <1>3, <1>18 DEF rtl_hw_start_8411
<1>21. C(rtl_hw_start_8168g)
  BY <1>5, <1>2, <1>3 DEF rtl_hw_start_8168g
<1>22. C(rtl_hw_start_8168g_1)
  BY <1>5, <1>1, <1>21 DEF rtl_hw_start_8168g_1
<1>23. C(rtl_hw_start_8168g_2)
  BY <1>5, <1>1, <1>21 DEF rtl_hw_start_8168g_2
<1>24. C(rtl_hw_start_8411_2)
  BY <1>5, <1>1, <1>3, <1>21 DEF rtl_hw_start_8411_2
<1>25. C(rtl_hw_start_8168h_1)
  BY <1>5, <1>1, <1>2, <1>3 DEF rtl_hw_start_8168h_1
<1>26. C(rtl_hw_start_8168ep)
  BY <1>5, <1>2, <1>3 DEF rtl_hw_start_8168ep
<1>27. C(rtl_hw_start_8168ep_3)
  BY <1>5, <1>1, <1>3, <1>26 DEF rtl_hw_start_8168ep_3
<1>28. v \in {52, 53} => C(rtl_hw_start_8117(v))
  BY <1>5, <1>1, <1>2, <1>3, <1>41 DEF rtl_hw_start_8117
<1>29. C(rtl_hw_start_8102e_1)
  BY <1>5, <1>1, <1>3, <1>4 DEF rtl_hw_start_8102e_1
<1>30. C(rtl_hw_start_8102e_2)
  BY <1>5, <1>3, <1>4 DEF rtl_hw_start_8102e_2
<1>31. C(rtl_hw_start_8102e_3)
  BY <1>5, <1>1, <1>30 DEF rtl_hw_start_8102e_3
<1>32. C(rtl_hw_start_8401)
  BY <1>5, <1>1, <1>3 DEF rtl_hw_start_8401
<1>33. C(rtl_hw_start_8105e_1)
  BY <1>5, <1>1, <1>3 DEF rtl_hw_start_8105e_1
<1>34. C(rtl_hw_start_8105e_2)
  BY <1>5, <1>1, <1>33 DEF rtl_hw_start_8105e_2
<1>35. C(rtl_hw_start_8402)
  BY <1>5, <1>1, <1>2, <1>3 DEF rtl_hw_start_8402
<1>36. C(rtl_hw_start_8106)
  BY <1>5, <1>2, <1>3 DEF rtl_hw_start_8106
<1>37. C(rtl_hw_start_8125_common)
  BY <1>5, <1>3 DEF rtl_hw_start_8125_common
<1>38. C(rtl_hw_start_8125a_2)
  BY <1>5, <1>1, <1>3, <1>37 DEF rtl_hw_start_8125a_2
<1>39. C(rtl_hw_start_8125b)
  BY <1>5, <1>1, <1>3, <1>37 DEF rtl_hw_start_8125b
<1> QED
  BY <1>6, <1>7, <1>8, <1>9, <1>10, <1>11, <1>12, <1>13, <1>14, <1>15, <1>16, <1>17,
     <1>18, <1>19, <1>20, <1>21, <1>22, <1>23, <1>24, <1>25, <1>26, <1>27, <1>28, <1>29,
     <1>30, <1>31, <1>32, <1>33, <1>34, <1>35, <1>36, <1>37, <1>38, <1>39 DEF C


(* So does the start function of every version.                                *)
LEMMA HwConfigHomely == ASSUME NEW v PROVE Homely(v, rtl_hw_config(v))
<1> DEFINE C(s) == Homely(v, s)
<1>1. /\ C(rtl_hw_start_8168b) /\ C(rtl_hw_start_8168cp_1) /\ C(rtl_hw_start_8168cp_2)
      /\ C(rtl_hw_start_8168cp_3) /\ C(rtl_hw_start_8168c_1) /\ C(rtl_hw_start_8168c_2)
      /\ C(rtl_hw_start_8168c_4) /\ C(rtl_hw_start_8168d) /\ C(rtl_hw_start_8168d_4)
      /\ C(rtl_hw_start_8168e_1) /\ C(rtl_hw_start_8168e_2) /\ C(rtl_hw_start_8168f_1)
      /\ C(rtl_hw_start_8411) /\ C(rtl_hw_start_8168g_1) /\ C(rtl_hw_start_8168g_2)
      /\ C(rtl_hw_start_8411_2) /\ C(rtl_hw_start_8168h_1) /\ C(rtl_hw_start_8168ep_3)
      /\ C(rtl_hw_start_8401) /\ C(rtl_hw_start_8105e_1)
      /\ C(rtl_hw_start_8105e_2) /\ C(rtl_hw_start_8402) /\ C(rtl_hw_start_8106)
      /\ C(rtl_hw_start_8125a_2) /\ C(rtl_hw_start_8125b) /\ C(<<>>)
      /\ C(rtl_hw_start_8102e_1) /\ C(rtl_hw_start_8102e_2) /\ C(rtl_hw_start_8102e_3)
  BY StartHomely, HomelyIf
<1>2. v \in {52, 53} => C(rtl_hw_start_8117(v))
  BY StartHomely
<1> SUFFICES C(rtl_hw_config(v))
  OBVIOUS
<1> HIDE DEF C
<1> QED BY <1>1, <1>2 DEF rtl_hw_config

-----------------------------------------------------------------------------
(* The rest of a start, and what only touches other registers, leaves the page *)
(* alone.                                                                      *)
LEMMA PartsSteady ==
    ASSUME NEW v, NEW b, NEW j
    PROVE  /\ Steady(v, AspmOff(v, b)) /\ Steady(v, AspmOn(v, b))
           /\ Steady(v, rtl_enable_exit_l1(v)) /\ Steady(v, rtl_disable_exit_l1(v))
           /\ Steady(v, rtl_jumbo_config(v, j)) /\ Steady(v, rtl_init_rxcfg)
           /\ Steady(v, rtl_set_rx_mode) /\ Steady(v, rtl_set_rx_config_features)
           /\ Steady(v, rtl8169_cleanup(v)) /\ Steady(v, rtl_wol_enable_rx(v)) /\ Steady(v, rtl_rar_set(v))
<1> DEFINE S(s) == Steady(v, s)
<1>1. /\ {"Config2", "Config5", "Config3", "Config4", "RxConfig", "MAC", "ocp_e092", "ocp_c0ac", "eri_d4",
          "eri", "mode", "features"} \subseteq Names
  BY DEF Names, Registers
<1>2. /\ {} \in SUBSET Bits /\ {"ASPM_en"} \in SUBSET Bits /\ {"ClkReqEn"} \in SUBSET Bits /\ {"b2"} \in SUBSET Bits
      /\ {"exit_l1"} \in SUBSET Bits /\ {"Jumbo_En0"} \in SUBSET Bits /\ {"Jumbo_En1"} \in SUBSET Bits
      /\ {"AcceptOk", "AcceptAllPhys", "AcceptErr"} \in SUBSET Bits /\ {"AcceptOk", "AcceptAllPhys"} \in SUBSET Bits
      /\ {"AcceptErr"} \in SUBSET Bits /\ {"AcceptOk"} \in SUBSET Bits
  BY DEF Bits
<1>3. ASSUME NEW reg \in Names, NEW clear \in SUBSET Bits, NEW set \in SUBSET Bits
      PROVE  /\ S(RMW(reg, clear, set)) /\ S(Put(reg, set))
             /\ S(ModConfig(reg, clear, set)) /\ S(EriWrite(reg, set)) /\ S(EriModify(reg, clear, set))
             /\ S(OcpModify(reg, clear, set)) /\ S(Do("get", reg, {}, {}))
  BY QuietPieces, QuietSteady
<1>4. \A s, u : S(s) /\ S(u) => S(s \o u)
  BY SteadyJoins
<1>5. \A s : S(s) => S(Unlocked(s))
  BY SteadyUnlocked
<1>6. S(<<>>) /\ \A s, c : S(s) => S(If(c, s))
  BY SteadyIf
<1>7. S(rtl_disable_rxdvgate) /\ S(rtl_enable_rxdvgate)
  BY PiecesSteady
<1> HIDE DEF S
<1>8. /\ S(ModConfig("Config5", {}, {"ASPM_en"})) /\ S(ModConfig("Config2", {}, {"ClkReqEn"}))
      /\ S(ModConfig("Config5", {"ASPM_en"}, {})) /\ S(ModConfig("Config2", {"ClkReqEn"}, {}))
      /\ S(OcpModify("ocp_e092", {"b2"}, {"b2"})) /\ S(OcpModify("ocp_e092", {"b2"}, {}))
  BY <1>1, <1>2, <1>3
<1>9. S(AspmOff(v, b)) /\ S(AspmOn(v, b))
  <2>1. S(If(HasL12(v), OcpModify("ocp_e092", {"b2"}, {}))
            \o ModConfig("Config2", {"ClkReqEn"}, {}) \o ModConfig("Config5", {"ASPM_en"}, {}))
    BY <1>4, <1>6, <1>8
  <2>2. S(If(v \notin {42, 43},
             ModConfig("Config5", {}, {"ASPM_en"}) \o ModConfig("Config2", {}, {"ClkReqEn"})
               \o If(HasL12(v), OcpModify("ocp_e092", {"b2"}, {"b2"}))))
    BY <1>4, <1>6, <1>8
  <2> QED BY <1>6, <2>1, <2>2 DEF AspmOff, AspmOn, rtl_hw_aspm_clkreq_enable
<1>10. S(rtl_enable_exit_l1(v)) /\ S(rtl_disable_exit_l1(v))
  <2>1. /\ S(EriModify("eri_d4", {}, {"exit_l1"})) /\ S(EriModify("eri_d4", {"exit_l1"}, {}))
        /\ S(OcpModify("ocp_c0ac", {}, {"exit_l1"})) /\ S(OcpModify("ocp_c0ac", {"exit_l1"}, {}))
    BY <1>1, <1>2, <1>3
  <2> QED BY <1>4, <1>6, <2>1 DEF rtl_enable_exit_l1, rtl_disable_exit_l1
<1>11. S(rtl_jumbo_config(v, j))
  <2>1. \A x : SetIf(j, x) \in {x, {}} /\ SetIf(~j, x) \in {x, {}}
    BY DEF SetIf
  <2>2. S(jumbo_bit("Config3", "Jumbo_En0", j)) /\ S(jumbo_bit("Config4", "Jumbo_En1", j))
    BY <1>1, <1>2, <1>3, <2>1 DEF jumbo_bit
  <2> QED BY <1>4, <1>5, <1>6, <2>2 DEF rtl_jumbo_config
<1>12. S(rtl_init_rxcfg) /\ S(rtl_rx_close) /\ S(RMW("RxConfig", {}, {"AcceptOk"}))
  BY <1>1, <1>2, <1>3 DEF rtl_init_rxcfg, rtl_rx_close
<1>13. S(rtl_set_rx_mode) /\ S(rtl_set_rx_config_features)
  <2>1. /\ S(Do("get", "mode", {}, {})) /\ S(Do("get", "features", {}, {}))
        /\ S(RMW("RxConfig", {"AcceptOk", "AcceptAllPhys"}, {})) /\ S(RMW("RxConfig", {"AcceptErr"}, {}))
    BY <1>1, <1>2, <1>3
  <2> QED BY <1>4, <2>1 DEF rtl_set_rx_mode, rtl_set_rx_config_features
<1>14. S(rtl8169_cleanup(v)) /\ S(rtl_wol_enable_rx(v))
  BY <1>4, <1>6, <1>7, <1>12 DEF rtl8169_cleanup, rtl_wol_enable_rx
<1>15. S(rtl_rar_set(v))
  <2>1. S(Put("MAC", {})) /\ S(EriWrite("eri", {}))
    BY <1>1, <1>2, <1>3
  <2> QED BY <1>4, <1>5, <1>6, <2>1 DEF rtl_rar_set
<1> QED BY <1>9, <1>10, <1>11, <1>12, <1>13, <1>14, <1>15 DEF S

(* So does rtl8169_set_wol.                                                    *)
LEMMA WolSteady == ASSUME NEW v, NEW b, NEW o PROVE Steady(v, rtl8169_set_wol(v, b, o))
<1> DEFINE S(s) == Steady(v, s)
           B == {"MagicPacket_v2", "b0", "LinkUp", "UWF", "BWF", "MWF", "LanWake", "MagicPacket", "PMEnable",
                 "PME_SIGNAL", "D3_NO_PLL_DOWN"}
           R == {"eri_dc", "ocp_c0b6", "Config1", "Config2", "Config3", "Config5", "PMCH"}
<1>1. R \subseteq Names /\ B \subseteq Bits /\ {} \in SUBSET Bits /\ \A x \in B : {x} \in SUBSET Bits
  BY DEF Names, Registers, Bits
<1>2. \A x \in B : \A c : SetIf(c, {x}) \in SUBSET Bits
  BY <1>1 DEF SetIf
<1>3. ASSUME NEW reg \in R, NEW clear \in SUBSET Bits, NEW set \in SUBSET Bits
      PROVE  S(RMW(reg, clear, set)) /\ S(ModConfig(reg, clear, set)) /\ S(EriModify(reg, clear, set))
             /\ S(OcpModify(reg, clear, set))
  BY <1>1, QuietPieces, QuietSteady
<1>4. \A s, u : S(s) /\ S(u) => S(s \o u)
  BY SteadyJoins
<1>5. \A s : S(s) => S(Unlocked(s))
  BY SteadyUnlocked
<1>6. \A s, c : S(s) => S(If(c, s))
  BY SteadyIf
<1>7. \A s : S(s) => S(Under("config25_lock", s))
  <2>1. S(Do("acquire", "config25_lock", {}, {})) /\ S(Do("release", "config25_lock", {}, {}))
    BY QuietOne, QuietSteady DEF Ops, PhyOps, Names, Locks
  <2> QED BY <1>4, <2>1 DEF Under
<1>8. /\ "eri_dc" \in R /\ "ocp_c0b6" \in R /\ "Config1" \in R /\ "Config2" \in R /\ "Config3" \in R
      /\ "Config5" \in R /\ "PMCH" \in R
      /\ "MagicPacket_v2" \in B /\ "b0" \in B /\ "LinkUp" \in B /\ "UWF" \in B /\ "BWF" \in B /\ "MWF" \in B
      /\ "LanWake" \in B /\ "MagicPacket" \in B /\ "PMEnable" \in B /\ "PME_SIGNAL" \in B /\ "D3_NO_PLL_DOWN" \in B
  OBVIOUS
<1> HIDE DEF S, B, R
<1>9. ASSUME NEW r \in R, NEW x \in B, NEW c PROVE S(RMW(r, {x}, SetIf(c, {x})))
  BY <1>1, <1>2, <1>3
<1>10. S(WolMagicConfig(v, o))
  BY <1>6, <1>8, <1>9 DEF WolMagicConfig, wol_bit
<1>11. S(WolBits(v, o))
  <2>1. /\ S(wol_bit(o, {"PHY"}, "Config3", "LinkUp")) /\ S(wol_bit(o, {"UCAST"}, "Config5", "UWF"))
        /\ S(wol_bit(o, {"BCAST"}, "Config5", "BWF")) /\ S(wol_bit(o, {"MCAST"}, "Config5", "MWF"))
        /\ S(wol_bit(o, WolOpts, "Config5", "LanWake"))
    BY <1>8, <1>9 DEF wol_bit
  <2> QED BY <1>4, <1>10, <2>1 DEF WolBits
<1>12. S(WolMagicEri(v, o)) /\ S(WolMagicOcp(v, o))
  BY <1>2, <1>3, <1>6, <1>8 DEF WolMagicEri, WolMagicOcp
<1>13. S(WolPme1(v, o)) /\ S(WolPme2(v, o))
  BY <1>1, <1>2, <1>3, <1>6, <1>8 DEF WolPme1, WolPme2
<1>14. S(WolPll(v, b, o))
  <2>1. \A x : S(rtl_set_d3_pll_down(v, x))
    BY <1>2, <1>3, <1>6, <1>8 DEF rtl_set_d3_pll_down
  <2> QED BY <1>6, <2>1 DEF WolPll
<1>15. S(WolMagicEri(v, o) \o WolMagicOcp(v, o) \o Under("config25_lock", WolBits(v, o))
           \o WolPme1(v, o) \o WolPme2(v, o))
  BY <1>4, <1>7, <1>11, <1>12, <1>13
<1>16. S(rtl8169_set_wol(v, b, o))
  BY <1>4, <1>5, <1>14, <1>15, SetWolPieces
<1> QED BY <1>16 DEF S

-----------------------------------------------------------------------------
(* The chip's start and a reset.                                               *)
LEMMA ResetHomely == ASSUME NEW v, NEW b, NEW j PROVE Homely(v, rtl_reset_work(v, b, j))
<1> DEFINE C(s) == Homely(v, s)
<1>1. /\ C(AspmOff(v, b)) /\ C(AspmOn(v, b)) /\ C(rtl_enable_exit_l1(v)) /\ C(rtl_jumbo_config(v, j))
      /\ C(rtl_init_rxcfg) /\ C(rtl_set_rx_mode) /\ C(rtl_set_rx_config_features) /\ C(rtl8169_cleanup(v))
  BY PartsSteady, SteadyHomely
<1>2. C(rtl_hw_config(v)) /\ \A s : C(s) => C(Unlocked(s))
  BY HwConfigHomely, HomelyUnlocked
<1>3. \A s, u : C(s) /\ C(u) => C(s \o u)
  BY HomelyJoins
<1> HIDE DEF C
<1>4. C(AspmOff(v, b) \o rtl_hw_config(v) \o rtl_enable_exit_l1(v) \o AspmOn(v, b))
  BY <1>1, <1>2, <1>3
<1>5. C(rtl_hw_start(v, b, j))
  BY <1>1, <1>2, <1>3, <1>4 DEF rtl_hw_start, AspmOff, AspmOn
<1>6. C(rtl_reset_work(v, b, j))
  BY <1>1, <1>3, <1>5 DEF rtl_reset_work
<1> QED BY <1>6 DEF C

(* A write of BMCR: from and to the page at rest, whoever writes it.           *)
LEMMA BMCRWalks ==
    ASSUME NEW v, NEW down \in BOOLEAN, NEW k, Tidy(v, Home(v), k)
    PROVE  Walk(v, AtHome(v, k), WriteBMCR(v, down), AtHome(v, k))
<1> DEFINE clear == SetIf(down, {"b4"})
           set == SetIf(~down, {"b4"})
           m == Note(Home(v), {"bus"}, k)
           a == [op |-> "phy", reg |-> "0", clear |-> {}, set |-> {}]
<1>1. /\ "eri_1a8" \in Names /\ clear \in SUBSET Bits /\ set \in SUBSET Bits /\ {} \in SUBSET Bits
      /\ "0" \in Names /\ "phy" \in Ops
  BY DEF Names, Registers, Pages, SetIf, Bits, Ops, PhyOps
<1>2. Sound(v, m)
  BY TidySound
<1>3. rtl8168g_phy_suspend_quirk(v, down) = If(v = 40, EriModify("eri_1a8", clear, set))
  BY DEF rtl8168g_phy_suspend_quirk
<1>4. a.op = "phy" /\ a.reg = "0" /\ m.now = Home(v) /\ m.old = Names /\ m.has = {"bus"} /\ m.phylib = k
  BY NoteIs
<1>5. \A p \in Home(v) : p = "0" \/ (v < 40 /\ p = "fw" /\ "0" = "0")
  BY DEF Home, RestsOnFw
<1> HIDE DEF clear, set, m, a
<1>6. Leads(v, a, m, m)
  BY <1>4, <1>5 DEF Leads, Fits, Turns, Keeps
<1>7. Walk(v, m, phy("0"), m)
  BY <1>1, <1>2, <1>6, OneWalk DEF phy, a
<1>8. Quiet(v, rtl8168g_phy_suspend_quirk(v, down))
  <2>1. Quiet(v, EriModify("eri_1a8", clear, set))
    BY <1>1, QuietPieces
  <2> QED BY <1>3, <2>1, QuietIf
<1>9. Walk(v, m, rtl8168g_phy_suspend_quirk(v, down) \o phy("0"), m)
  BY <1>2, <1>7, <1>8, WalkJoins DEF Quiet
<1> QED BY <1>9, BusWalk DEF WriteBMCR, AtHome, m

(* Setting the PHY up while phylib is stopped.                                 *)
LEMMA InitPhyLeaves ==
    ASSUME NEW v \in Versions, NEW b
    PROVE  Leaves(v, {}, Home(v), rtl8169_init_phy(v, b), Home(v))
<1> DEFINE L(s) == Leaves(v, {}, Home(v), s, Home(v))
<1>1. Home(v) \in SUBSET Names /\ Home(v) \in SUBSET Left(v) /\ Tidy(v, Home(v), "off") /\ {} \in Holdings
  BY HomeTidy, OffTidy DEF Home, Left, RestsOnFw, Holdings
<1>2. L(r8169_hw_phy_config(v, b.efuse))
  BY ConfigLeaves
<1>3. L(If(v = 5, Paged("1")))
  <2>1. Steady(v, Paged("1"))
    BY PagedSteady DEF Pages
  <2>2. Steady(v, If(v = 5, Paged("1")))
    BY <2>1, SteadyIf
  <2> QED BY <1>1, <2>2, SteadyLeaves
<1>4. L(phy("0"))
  <2>1. "0" \in Pages
    BY DEF Pages
  <2> QED BY <1>1, <2>1, SelectLeaves
<1>5. L(WriteBMCR(v, FALSE))
  BY <1>1, BMCRWalks DEF AtHome, Leaves
<1>6. \A s, u : L(s) /\ L(u) => L(s \o u)
  BY LeavesJoins
<1> SUFFICES L(rtl8169_init_phy(v, b))
  OBVIOUS
<1> HIDE DEF L
<1> QED BY <1>2, <1>3, <1>4, <1>5, <1>6 DEF rtl8169_init_phy

-----------------------------------------------------------------------------
(* Taking the device down stops phylib, bringing it up starts it again.        *)
Falls(v, s) == Walk(v, AtHome(v, KindUp(v)), s, AtHome(v, "off"))
Rises(v, s) == Walk(v, AtHome(v, "off"), s, AtHome(v, KindUp(v)))

(* phy_stop and phy_start.                                                     *)
LEMMA PhylibTurns ==
    ASSUME NEW v
    PROVE  Falls(v, Do("phy_stop", "phy", {}, {})) /\ Rises(v, Do("phy_start", "phy", {}, {}))
<1> DEFINE a == [op |-> "phy_stop", reg |-> "phy", clear |-> {}, set |-> {}]
           b == [op |-> "phy_start", reg |-> "phy", clear |-> {}, set |-> {}]
           m == AtHome(v, KindUp(v))
           n == AtHome(v, "off")
<1>1. a.op = "phy_stop" /\ b.op = "phy_start"
  OBVIOUS
<1>2. /\ m.now = Home(v) /\ m.old = Names /\ m.has = {} /\ m.phylib = KindUp(v)
      /\ n.now = Home(v) /\ n.old = Names /\ n.has = {} /\ n.phylib = "off"
  BY NoteIs DEF AtHome
<1>3. Sound(v, m) /\ Sound(v, n)
  BY HomeTidy DEF Kinds
<1>4. /\ {"phy_stop", "phy_start"} \subseteq Ops /\ "phy" \in Names /\ {} \in SUBSET Bits
      /\ "phy_stop" \notin PhyOps /\ "phy_start" \notin PhyOps
  BY DEF Ops, PhyOps, Names
<1>5. KindUp(v) # "off"
  BY DEF KindUp
<1> HIDE DEF a, b, m, n
<1>6. Leads(v, a, m, n)
  BY <1>1, <1>2, <1>4 DEF Leads, Fits, Turns, Keeps
<1>7. Leads(v, b, n, m)
  BY <1>1, <1>2, <1>4, <1>5 DEF Leads, Fits, Turns, Keeps
<1>8. Walk(v, m, Do("phy_stop", "phy", {}, {}), n)
  BY <1>3, <1>4, <1>6, OneWalk DEF a
<1>9. Walk(v, n, Do("phy_start", "phy", {}, {}), m)
  BY <1>3, <1>4, <1>7, OneWalk DEF b
<1> QED BY <1>8, <1>9 DEF Falls, Rises, m, n

(* rtl8169_down and the runtime suspend leave phylib stopped and the page at rest. *)
LEMMA DownFalls ==
    ASSUME NEW v \in Versions, NEW b, NEW wake
    PROVE  Falls(v, rtl8169_down(v, b, wake)) /\ Falls(v, rtl8169_runtime_suspend(v, b, TRUE))
<1> DEFINE L(s) == Leaves(v, {}, Home(v), s, Home(v))
<1>1. Home(v) \in SUBSET Names /\ Home(v) \in SUBSET Left(v) /\ Tidy(v, Home(v), "off") /\ {} \in Holdings
  BY HomeTidy, OffTidy DEF Home, Left, RestsOnFw, Holdings
<1>2. L(<<>>) /\ \A s : Steady(v, s) => L(s)
  BY <1>1, SteadyLeaves, SteadyIf
<1>3. \A s, u : L(s) /\ L(u) => L(s \o u)
  BY LeavesJoins
<1>4. \A s, c : L(s) => L(If(c, s))
  BY <1>2 DEF If
<1>5. L(WriteBMCR(v, TRUE)) /\ L(phy("0"))
  <2>1. "0" \in Pages
    BY DEF Pages
  <2>2. L(phy("0"))
    BY <1>1, <2>1, SelectLeaves
  <2> QED BY <2>2, <1>1, BMCRWalks DEF AtHome, Leaves
<1>6. L(rtl8169_cleanup(v)) /\ L(rtl_disable_exit_l1(v)) /\ L(rtl_wol_enable_rx(v)) /\ L(Touch("ephy"))
  BY <1>2, PartsSteady, PiecesSteady
<1>7. \A s, u : Falls(v, s) /\ L(u) => Falls(v, s \o u)
  BY WalkJoins DEF Falls, Leaves, AtHome
<1> HIDE DEF L
<1>8. \A w : L(rtl_prepare_power_down(v, b, w))
  BY <1>3, <1>4, <1>5, <1>6 DEF rtl_prepare_power_down
<1>9. \A w : Falls(v, rtl8169_down(v, b, w))
  BY <1>4, <1>5, <1>6, <1>7, <1>8, PhylibTurns DEF rtl8169_down
<1>10. Homely(v, rtl8169_set_wol(v, b, {"PHY"}))
  BY WolSteady, SteadyHomely
<1>11. Falls(v, rtl8169_runtime_suspend(v, b, TRUE))
  <2>1. KindUp(v) \in Kinds(v)
    BY DEF Kinds
  <2> QED BY <1>9, <1>10, <2>1, WalkJoins DEF Homely, Falls, rtl8169_runtime_suspend, rtl8169_net_suspend, If
<1> QED BY <1>9, <1>11

(* Opening the device and resuming it open start phylib on the page at rest;   *)
(* resuming it closed leaves phylib stopped.                                   *)
LEMMA UpRises ==
    ASSUME NEW v \in Versions, NEW b, NEW o, NEW j
    PROVE  /\ Rises(v, rtl8169_up(v, b, j))
           /\ Rises(v, rtl8169_runtime_resume(v, b, o, j, TRUE)) /\ Rises(v, rtl8169_resume(v, b, o, j, TRUE))
           /\ Walk(v, AtHome(v, "off"), rtl8169_runtime_resume(v, b, o, j, FALSE), AtHome(v, "off"))
           /\ Walk(v, AtHome(v, "off"), rtl8169_resume(v, b, o, j, FALSE), AtHome(v, "off"))
<1> DEFINE L(s) == Walk(v, AtHome(v, "off"), s, AtHome(v, "off"))
<1>1. \A s : Homely(v, s) => L(s)
  BY DEF Homely, Kinds
<1>2. \A s : Steady(v, s) => L(s)
  BY <1>1, SteadyHomely
<1>3. L(WriteBMCR(v, FALSE)) /\ L(rtl8169_init_phy(v, b)) /\ L(rtl_reset_work(v, b, j))
  <2>1. Tidy(v, Home(v), "off")
    BY HomeTidy DEF Kinds
  <2> QED BY <1>1, <2>1, BMCRWalks, InitPhyLeaves, ResetHomely DEF Leaves, AtHome
<1>4. L(rtl_rar_set(v)) /\ L(rtl8169_set_wol(v, b, o)) /\ L(rtl_init_rxcfg) /\ L(If(v = 37, rtl_init_rxcfg))
  <2>1. Steady(v, rtl_init_rxcfg) /\ Steady(v, rtl_rar_set(v))
    BY PartsSteady
  <2> QED BY <1>2, <2>1, WolSteady, SteadyIf
<1>5. \A s, u : /\ L(s) /\ L(u) => L(s \o u)
                /\ L(s) /\ Rises(v, u) => Rises(v, s \o u)
  BY WalkJoins DEF Rises
<1>6. L(<<>>)
  BY <1>2, SteadyIf
<1>7. \A s : If(TRUE, s) = s /\ If(FALSE, s) = <<>>
  BY DEF If
<1> SUFFICES /\ Rises(v, rtl8169_up(v, b, j))
             /\ Rises(v, rtl8169_runtime_resume(v, b, o, j, TRUE)) /\ Rises(v, rtl8169_resume(v, b, o, j, TRUE))
             /\ L(rtl8169_runtime_resume(v, b, o, j, FALSE)) /\ L(rtl8169_resume(v, b, o, j, FALSE))
  OBVIOUS
<1> HIDE DEF L
<1>8. Rises(v, rtl8169_up(v, b, j))
  BY <1>3, <1>5, PhylibTurns DEF rtl8169_up
<1>9. Rises(v, rtl8169_runtime_resume(v, b, o, j, TRUE)) /\ L(rtl8169_runtime_resume(v, b, o, j, FALSE))
  BY <1>4, <1>5, <1>6, <1>7, <1>8 DEF rtl8169_runtime_resume
<1>10. Rises(v, rtl8169_resume(v, b, o, j, TRUE)) /\ L(rtl8169_resume(v, b, o, j, FALSE))
  BY <1>4, <1>5, <1>9 DEF rtl8169_resume
<1> QED BY <1>8, <1>9, <1>10

-----------------------------------------------------------------------------
(* What phylib runs, beside main.                                              *)
LEMMA LinkWalks ==
    ASSUME NEW v \in Versions, NEW b, NEW s,
           \/ \E speed : s = rtl_link_chg_patch(v, speed)
           \/ s = link_down(v, b) \/ s = WriteBMCR(v, FALSE) \/ s = Paged("a43")
    PROVE  Walk(v, AtHome(v, "beside"), s, AtHome(v, "beside"))
<1> DEFINE L(u) == Walk(v, AtHome(v, "beside"), u, AtHome(v, "beside"))
<1>1. Tidy(v, Home(v), "beside")
  BY HomeTidy
<1>2. \A u : Steady(v, u) => L(u)
  BY <1>1 DEF Steady, AtHome
<1>3. L(WriteBMCR(v, FALSE))
  BY <1>1, BMCRWalks
<1>4. L(Paged("a43"))
  <2>1. "a43" \in Pages
    BY DEF Pages
  <2> QED BY <1>2, <2>1, PagedSteady
<1>5. L(link_down(v, b))
  <2>1. CASE rtl_is_8125(v)
    <3>1. "beside" \in Kinds(v)
      BY <2>1 DEF rtl_is_8125, Kinds, KindUp
    <3> QED BY <2>1, <3>1, ResetHomely DEF link_down, If, Homely
  <2>2. CASE ~rtl_is_8125(v)
    BY <1>2, <2>2, SteadyIf DEF link_down, If
  <2> QED BY <2>1, <2>2
<1>6. ASSUME NEW speed PROVE L(rtl_link_chg_patch(v, speed))
  <2> DEFINE S(u) == Steady(v, u)
  <2>1. "eri" \in Names /\ "eri_1d0" \in Names /\ {} \in SUBSET Bits /\ {"b1"} \in SUBSET Bits
        /\ SetIf(speed = 10, {"b1"}) \in SUBSET Bits
    BY DEF Names, Registers, Bits, SetIf
  <2>2. /\ S(EriWrite("eri", {})) /\ S(EriWrite("eri_1d0", SetIf(speed = 10, {"b1"})))
    BY <2>1, QuietPieces, QuietSteady
  <2>3. S(rtl_reset_packet_filter)
    BY PiecesSteady
  <2>4. \A u, w : S(u) /\ S(w) => S(u \o w)
    BY SteadyJoins
  <2>5. S(<<>>) /\ S(If(speed = 10, EriWrite("eri", {})))
    BY <2>2, SteadyIf
  <2> HIDE DEF S
  <2>6. /\ S(EriWrite("eri", {}) \o EriWrite("eri", {}) \o rtl_reset_packet_filter)
        /\ S(EriWrite("eri", {}) \o EriWrite("eri", {}))
        /\ S(EriWrite("eri_1d0", SetIf(speed = 10, {"b1"})) \o If(speed = 10, EriWrite("eri", {})))
    BY <2>2, <2>3, <2>4, <2>5
  <2>7. S(rtl_link_chg_patch(v, speed))
    BY <2>5, <2>6 DEF rtl_link_chg_patch
  <2> QED BY <1>2, <2>7 DEF S
<1> QED BY <1>3, <1>4, <1>5, <1>6
=============================================================================
