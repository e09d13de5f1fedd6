------------------------------ MODULE Firmware ------------------------------
(***************************************************************************)
(* PHY firmware: drv-r8169/r8169_firmware.c and its use in r8169_main.c.   *)
(* An image is requested once, checked for its format and then word by     *)
(* word, and kept; rtl8169_init_phy applies it by interpreting its words,  *)
(* a small program with jumps and skips that reads and writes PHY or MAC   *)
(* registers through ocp_base.  The image is whatever the file holds.      *)
(***************************************************************************)
EXTENDS Integers, Sequences

CONSTANTS
    Files,    \* the images a file may hold
    SizeT,    \* the modulus of size_t, 2^64 in the code
    PhyVals,  \* what a register read may return (-ETIMEDOUT as a u32)
    MaxApply, \* bound on the runs of the program
    MaxCount  \* bound on the reads of a run (a backward jump repeats them)

(* An image: its bytes, its header (magic # 0 means there is none; sum is the *)
(* checksum, start and len the fields), and its words from where code starts. *)
FwOpcodeSize == 4
FwInfoSize   == 45
OcpStdPhyBase == 41984    \* 0xa400

Ops    == 0 .. 15
MaxRegno == 4095
Regnos == 0 .. MaxRegno
MaxData == 65535
U16    == 0 .. MaxData
Word   == [op : Ops, regno : Regnos, data : U16]

ASSUME FirmwareAssumption ==
    /\ \A f \in Files :
         /\ f.size \in Nat /\ f.magic \in BOOLEAN /\ f.sum \in Nat
         /\ f.start \in Nat /\ f.len \in Nat /\ f.words \in Seq(Word)
         /\ f.size < SizeT
         /\ Len(f.words) = (IF f.magic THEN f.size \div FwOpcodeSize
                            ELSE IF f.start > f.size THEN 0
                            ELSE (f.size - f.start) \div FwOpcodeSize)
    /\ SizeT \in Nat /\ SizeT > 65536
    /\ PhyVals \subseteq Nat /\ PhyVals # {} /\ MaxApply \in Nat /\ MaxCount \in Nat

VARIABLES
    file,     \* the image on disk
    loaded,   \* rtl_p->rtl_fw is not NULL
    held,     \* references to the image (request_firmware, release_firmware)
    pa,       \* phy_action: where the words start in the file, how many
    pc, index, predata, count, mac, \* the interpreter and its locals
    ocp_base, \* the page that PHY and MCU accesses go to
    applied   \* runs so far

vars == <<file, loaded, held, pa, pc, index, predata, count, mac, ocp_base, applied>>

-----------------------------------------------------------------------------
(* rtl_fw_format_ok: the size and offset of the words, or a refusal. *)
MutFormatOk(f) == f.magic \/ (f.size >= FwInfoSize /\ f.sum = 0 /\ f.start <= f.size)

FormatOk(f) ==
    /\ f.size >= FwOpcodeSize
    /\ IF f.magic
       THEN f.size % FwOpcodeSize = 0
       ELSE /\ f.size >= FwInfoSize
            /\ f.sum = 0
            /\ f.start <= f.size
            /\ f.len <= (f.size - f.start) \div FwOpcodeSize

CodeStart(f) == IF f.magic THEN 0 ELSE f.start
CodeSize(f)  == IF f.magic THEN f.size \div FwOpcodeSize ELSE f.len

(* rtl_fw_data_ok for the word at position i of n. *)
MutWordOk(w, i, n) ==
    CASE w.op \in {0, 1, 2, 7, 8, 12, 14} -> TRUE
      [] w.op = 4                         -> w.data <= 1
      [] w.op = 3                         -> w.regno <= i
      [] w.op = 9                         -> i + 2 < n
      [] w.op \in {10, 11, 13}            -> i + w.regno < n
      [] OTHER                            -> FALSE

WordOk(w, i, n) ==
    CASE w.op \in {0, 1, 2, 7, 8, 12, 14} -> TRUE
      [] w.op = 4                         -> w.data <= 1
      [] w.op = 3                         -> w.regno <= i
      [] w.op = 9                         -> i + 2 < n
      [] w.op \in {10, 11, 13}            -> i + 1 + w.regno < n
      [] OTHER                            -> FALSE

(* Past the image's end lies memory of no word; ReadsInsideFile: never read. *)
ZeroWord     == [op |-> 0, regno |-> 0, data |-> 0]
WordAt(f, i) == IF i < Len(f.words) THEN f.words[i + 1] ELSE ZeroWord

DataOk(f) == \A i \in 0 .. CodeSize(f) - 1 : WordOk(WordAt(f, i), i, CodeSize(f))

(* size_t arithmetic for x within one modulus of the range. *)
WrapT(x) == IF x < 0 THEN x + SizeT ELSE IF x >= SizeT THEN x - SizeT ELSE x

BitOr[a \in Nat, b \in Nat] ==
    IF a = 0 \/ b = 0 THEN a + b
    ELSE 2 * BitOr[a \div 2, b \div 2] + (IF a % 2 = 1 \/ b % 2 = 1 THEN 1 ELSE 0)

BitAnd[a \in Nat, b \in Nat] ==
    IF a = 0 \/ b = 0 THEN 0
    ELSE 2 * BitAnd[a \div 2, b \div 2] + (IF a % 2 = 1 /\ b % 2 = 1 THEN 1 ELSE 0)

-----------------------------------------------------------------------------
NoCode == [start |-> 0, size |-> 0]

Init ==
    /\ file \in Files
    /\ loaded = FALSE /\ held = 0 /\ pa = NoCode
    /\ pc = "idle" /\ index = 0 /\ predata = 0 /\ count = 0 /\ mac = FALSE
    /\ ocp_base = OcpStdPhyBase /\ applied = 0

MutRequest ==
    /\ pc = "idle" /\ ~loaded
    /\ held' = held + 1
    /\ loaded' = (FormatOk(file) /\ DataOk(file))
    /\ pa' = IF loaded' THEN [start |-> CodeStart(file), size |-> CodeSize(file)] ELSE NoCode
    /\ UNCHANGED <<file, pc, index, predata, count, mac, ocp_base, applied>>

(* rtl_request_firmware: nothing to do when it is loaded; an image that fails *)
(* a check is released.                                                       *)
Request ==
    /\ pc = "idle" /\ ~loaded
    /\ IF FormatOk(file) /\ DataOk(file)
       THEN /\ loaded' = TRUE /\ held' = held + 1
            /\ pa' = [start |-> CodeStart(file), size |-> CodeSize(file)]
       ELSE UNCHANGED <<loaded, held, pa>>
    /\ UNCHANGED <<file, pc, index, predata, count, mac, ocp_base, applied>>

(* rtl_release_firmware: nothing to release when none is loaded. *)
Release ==
    /\ pc = "idle" /\ loaded
    /\ loaded' = FALSE /\ held' = held - 1 /\ pa' = NoCode
    /\ UNCHANGED <<file, pc, index, predata, count, mac, ocp_base, applied>>

(* r8169_apply_firmware calls rtl_fw_write_firmware. *)
Apply ==
    /\ pc = "idle" /\ loaded /\ applied < MaxApply
    /\ pc' = "run" /\ index' = 0 /\ predata' = 0 /\ count' = 0 /\ mac' = FALSE
    /\ applied' = applied + 1
    /\ UNCHANGED <<file, loaded, held, pa, ocp_base>>

Cur == WordAt(file, index)

(* The loop's condition fails, or the word is zero. *)
AtEnd == index >= pa.size \/ Cur = ZeroWord
More  == pc = "run" /\ ~AtEnd

(* How a word moves the index, before the loop's index++ . *)
MutJump(w) ==
    CASE w.op = 3                         -> -(w.regno + 1)
      [] w.op = 13                        -> -w.regno
      [] w.op = 10 /\ predata = w.data    -> w.regno
      [] w.op = 11 /\ predata # w.data    -> w.regno
      [] w.op = 9 /\ count = w.data       -> 1
      [] OTHER                            -> 0

Jump(w) ==
    CASE w.op = 3                         -> -(w.regno + 1)
      [] w.op = 13                        -> w.regno
      [] w.op = 10 /\ predata = w.data    -> w.regno
      [] w.op = 11 /\ predata # w.data    -> w.regno
      [] w.op = 9 /\ count = w.data       -> 1
      [] OTHER                            -> 0

(* Modulo SizeT, wrapping once at the end is wrapping at every step. *)
NextIndex(w) == WrapT(index + Jump(w) + 1)

(* r8168g_mdio_write and mac_mcu_write: register 0x1f selects the page. *)
PageAfter(w, v) ==
    IF w.regno # 31 THEN ocp_base
    ELSE IF mac \/ v # 0 THEN v * 16 ELSE OcpStdPhyBase

(* r8168g_mdio_read, mac_mcu_read: the page itself, or what the register holds. *)
ReadOf(w) ==
    IF w.regno = 31 /\ ~mac
    THEN {IF ocp_base = OcpStdPhyBase THEN 0 ELSE ocp_base \div 16}
    ELSE PhyVals

(* PHY_READ *)
StepRead ==
    /\ More /\ Cur.op = 0 /\ count < MaxCount
    /\ predata' \in ReadOf(Cur) /\ count' = count + 1
    /\ index' = NextIndex(Cur)
    /\ UNCHANGED <<file, loaded, held, pa, pc, mac, ocp_base, applied>>

(* PHY_DATA_OR, PHY_DATA_AND, PHY_CLEAR_READCOUNT, PHY_MDIO_CHG, PHY_DELAY_MS *)
StepData ==
    /\ More /\ Cur.op \in {1, 2, 4, 7, 14}
    /\ predata' = CASE Cur.op = 1 -> BitOr[predata, Cur.data]
                    [] Cur.op = 2 -> BitAnd[predata, Cur.data]
                    [] OTHER -> predata
    /\ count' = IF Cur.op = 7 THEN 0 ELSE count
    /\ mac' = IF Cur.op = 4 THEN Cur.data # 0 ELSE mac
    /\ index' = NextIndex(Cur)
    /\ UNCHANGED <<file, loaded, held, pa, pc, ocp_base, applied>>

(* PHY_WRITE, PHY_WRITE_PREVIOUS *)
StepWrite ==
    /\ More /\ Cur.op \in {8, 12}
    /\ ocp_base' = PageAfter(Cur, IF Cur.op = 8 THEN Cur.data ELSE predata)
    /\ index' = NextIndex(Cur)
    /\ UNCHANGED <<file, loaded, held, pa, pc, predata, count, mac, applied>>

(* PHY_BJMPN, PHY_READCOUNT_EQ_SKIP, PHY_COMP_EQ_SKIPN, PHY_COMP_NEQ_SKIPN, PHY_SKIPN *)
StepJump ==
    /\ More /\ Cur.op \in {3, 9, 10, 11, 13}
    /\ index' = NextIndex(Cur)
    /\ UNCHANGED <<file, loaded, held, pa, pc, predata, count, mac, ocp_base, applied>>

(* The end of the program; r8169_apply_firmware then selects the standard page, *)
(* since the program need not.                                                  *)
Finish ==
    /\ pc = "run" /\ AtEnd
    /\ pc' = "idle" /\ ocp_base' = OcpStdPhyBase
    /\ index' = 0 /\ predata' = 0 /\ count' = 0 /\ mac' = FALSE
    /\ UNCHANGED <<file, loaded, held, pa, applied>>

Step == StepRead \/ StepData \/ StepWrite \/ StepJump

Next == Request \/ Release \/ Apply \/ Step \/ Finish

Spec == Init /\ [][Next]_vars

(* The interpreter runs to its end once called: it is a plain loop. *)
LiveSpec == Spec /\ WF_vars(Step \/ Finish)

-----------------------------------------------------------------------------
(* Every variable has its type: the index is a size_t, and the image is never *)
(* released more often than it was requested.                                 *)
TypeOK ==
    /\ loaded \in BOOLEAN /\ held \in Nat
    /\ pa \in [start : Nat, size : Nat]
    /\ pc \in {"idle", "run"} /\ index \in 0 .. SizeT - 1
    /\ count \in Nat /\ mac \in BOOLEAN /\ applied \in Nat

(* A validated program never jumps or skips out of its words: only falling    *)
(* through the last word, or a zero word, ends it, so that no part of a PHY   *)
(* patch is silently cut off (size_t underflow of BJMPN included).            *)
JumpsLandInside ==
    [][pc = "run" /\ pc' = "run" /\ index' # index + 1 => index' < pa.size]_vars

(* The interpreter's index never passes the end, and every word it can read   *)
(* lies inside the file, whatever the header claims.                          *)
ReadsInsideFile ==
    /\ index <= pa.size
    /\ pa.start + FwOpcodeSize * pa.size <= file.size
    /\ loaded => pa.size <= Len(file.words)

(* The image is held exactly while the driver keeps it: a refused image is    *)
(* released, an accepted one is released once.                                *)
HeldWhileLoaded == held = (IF loaded THEN 1 ELSE 0)

(* A program without backward jumps ends.  (With one it need not: the checks  *)
(* accept a word that jumps to itself.)                                       *)
ForwardProgramsEnd ==
    pc = "run" /\ (\A i \in 1 .. pa.size : file.words[i].op # 3) ~> pc = "idle"
=============================================================================
