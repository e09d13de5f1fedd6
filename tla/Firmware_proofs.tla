-------------------------- MODULE Firmware_proofs --------------------------
(***************************************************************************)
(* For every image: rtl_fw_format_ok and rtl_fw_data_ok, which look at the *)
(* words once and in order, keep the interpreter's index, moved by         *)
(* arithmetic on size_t, inside the words, and the words inside the file.  *)
(***************************************************************************)
EXTENDS Firmware, TLAPS

(* What the interpreter relies on: a program runs only on a kept image, a    *)
(* kept image passed both checks, and the index has not left its words.      *)
Checked ==
    /\ FormatOk(file) /\ DataOk(file)
    /\ pa = [start |-> CodeStart(file), size |-> CodeSize(file)]

Kept ==
    /\ file \in Files
    /\ loaded \in BOOLEAN
    /\ loaded = TRUE => Checked
    /\ loaded = FALSE => pa = NoCode
    /\ pc = "run" => loaded = TRUE

Inside ==
    /\ index \in Nat /\ index <= pa.size
    /\ pc # "run" => index = 0

IInv == Kept /\ Inside

(* A checked image's words lie in it, and are as many as the header says.     *)
LEMMA SizesOfChecked ==
    ASSUME NEW f \in Files, FormatOk(f)
    PROVE  /\ CodeStart(f) \in Nat /\ CodeSize(f) \in Nat
           /\ CodeStart(f) + 4 * CodeSize(f) <= f.size
           /\ CodeSize(f) <= Len(f.words)
           /\ CodeSize(f) < SizeT
<1>1. /\ f.size \in Nat /\ f.magic \in BOOLEAN /\ f.start \in Nat /\ f.len \in Nat
      /\ f.size < SizeT /\ SizeT \in Nat
      /\ Len(f.words) = (IF f.magic THEN f.size \div 4
                         ELSE IF f.start > f.size THEN 0
                         ELSE (f.size - f.start) \div 4)
  BY FirmwareAssumption DEF FwOpcodeSize
<1>2. CASE f.magic
  BY <1>1, <1>2 DEF CodeStart, CodeSize, FwOpcodeSize
<1>3. CASE ~f.magic
  BY <1>1, <1>3 DEF CodeStart, CodeSize, FormatOk, FwOpcodeSize
<1>4. QED BY <1>1, <1>2, <1>3

(* The words of an image are words; so is the one taken past its end.         *)
LEMMA WordAtIsWord ==
    ASSUME NEW f \in Files, NEW i \in Nat
    PROVE  WordAt(f, i) \in Word
<1>1. f.words \in Seq(Word)
  BY FirmwareAssumption
<1>2. ZeroWord \in Word
  <2>1. MaxRegno \in Nat /\ MaxData \in Nat
    BY DEF MaxRegno, MaxData
  <2>2. 0 \in Ops /\ 0 \in Regnos /\ 0 \in U16
    BY <2>1 DEF Ops, Regnos, U16
  <2>3. QED BY <2>2 DEF ZeroWord, Word
<1>3. CASE i < Len(f.words)
  <2>1. i + 1 \in 1 .. Len(f.words)
    BY <1>1, <1>3
  <2>2. QED BY <1>1, <1>3, <2>1 DEF WordAt
<1>4. CASE ~(i < Len(f.words))
  BY <1>2, <1>4 DEF WordAt
<1>5. QED BY <1>3, <1>4

(* The numbers of an interval from 0 are natural.                            *)
LEMMA IntervalIsNat == \A n : \A x \in 0 .. n : x \in Nat
OBVIOUS

(* An opcode has four bits, a register is a number.                          *)
LEMMA WordFields ==
    ASSUME NEW w \in Word
    PROVE  w.op \in 0 .. 15 /\ w.regno \in Nat
<1>1. w.op \in Ops /\ w.regno \in Regnos
  BY DEF Word
<1>2. w.op \in 0 .. 15
  BY <1>1 DEF Ops
<1>3. w.regno \in Nat
  BY <1>1, IntervalIsNat DEF Regnos
<1>4. QED BY <1>2, <1>3

(* Where a step may go: on to the next word, or by a jump to a word.          *)
LEMMA StepStaysInside ==
    ASSUME IInv, More
    PROVE  /\ NextIndex(Cur) \in Nat
           /\ NextIndex(Cur) = index + 1 \/ NextIndex(Cur) < pa.size
           /\ NextIndex(Cur) <= pa.size
<1> DEFINE n == pa.size
           w == Cur
<1>1. Checked /\ file \in Files /\ index \in Nat
  BY DEF IInv, Kept, Inside, More
<1>2. n = CodeSize(file) /\ n \in Nat /\ n < SizeT /\ SizeT \in Nat
  BY <1>1, SizesOfChecked, FirmwareAssumption DEF Checked
<1>3. index < n
  BY <1>1, <1>2 DEF More, AtEnd
<1>4. w \in Word
  BY <1>1, WordAtIsWord DEF Cur
<1>5. w.op \in 0 .. 15 /\ w.regno \in Nat
  BY <1>4, WordFields
<1>6. WordOk(w, index, n)
  BY <1>1, <1>2, <1>3 DEF Checked, DataOk, Cur
<1> DEFINE j == Jump(w)
<1>7. j \in Int /\ index + j + 1 >= 0 /\ (j = 0 \/ index + j + 1 < n)
  <2>1. CASE w.op = 3
    <3>1. w.regno <= index
      BY <1>6, <2>1 DEF WordOk
    <3>2. j = -(w.regno + 1)
      BY <2>1 DEF Jump
    <3>3. QED BY <1>1, <1>2, <1>3, <1>5, <3>1, <3>2
  <2>2. CASE w.op = 9
    <3>1. index + 2 < n
      BY <1>6, <2>2 DEF WordOk
    <3>2. j = 0 \/ j = 1
      BY <2>2 DEF Jump
    <3>3. QED BY <1>1, <1>2, <3>1, <3>2
  <2>3. CASE w.op \in {10, 11, 13}
    <3>1. index + 1 + w.regno < n
      BY <1>6, <2>3 DEF WordOk
    <3>2. j = 0 \/ j = w.regno
      BY <2>3 DEF Jump
    <3>3. QED BY <1>1, <1>2, <1>5, <3>1, <3>2
  <2>4. CASE w.op \notin {3, 9, 10, 11, 13}
    <3>1. j = 0
      BY <2>4 DEF Jump
    <3>2. QED BY <1>1, <3>1
  <2>5. QED BY <2>1, <2>2, <2>3, <2>4
<1>8. NextIndex(w) = index + j + 1
  BY <1>1, <1>2, <1>3, <1>7 DEF NextIndex, WrapT
<1>9. QED BY <1>1, <1>2, <1>3, <1>7, <1>8

(* Nothing is read before a file is accepted.                                *)
LEMMA InsideInit == Init => IInv
<1> SUFFICES ASSUME Init PROVE IInv
  OBVIOUS
<1>1. Kept
  BY DEF Init, Kept
<1>2. Inside
  BY DEF Init, Inside, NoCode
<1>3. QED BY <1>1, <1>2 DEF IInv

(* A step that leaves the image alone leaves what was checked alone.          *)
LEMMA KeptSame ==
    ASSUME Kept, UNCHANGED <<file, loaded, pa>>, pc' = "run" => loaded = TRUE
    PROVE  Kept'
<1>1. file' = file /\ loaded' = loaded /\ pa' = pa
  OBVIOUS
<1>2. Checked => Checked'
  BY <1>1 DEF Checked, FormatOk, DataOk, CodeStart, CodeSize
<1>3. QED BY <1>1, <1>2 DEF Kept

(* pa.size is a size, loaded or not. *)
LEMMA SizeIsNat == ASSUME Kept PROVE pa.size \in Nat
<1>1. CASE loaded = TRUE
  BY <1>1, SizesOfChecked DEF Kept, Checked
<1>2. CASE loaded = FALSE
  BY <1>2 DEF Kept, NoCode
<1>3. QED BY <1>1, <1>2 DEF Kept

(* One step per action. *)
LEMMA InsideNext == IInv /\ [Next]_vars => IInv'
<1> SUFFICES ASSUME IInv, [Next]_vars PROVE IInv'
  OBVIOUS
<1>0. Kept /\ Inside /\ pa.size \in Nat
  BY SizeIsNat DEF IInv
<1>1. CASE Request
  <2>0. pc = "idle" /\ UNCHANGED <<file, pc, index>> /\ index = 0
    BY <1>0, <1>1 DEF Request, Inside
  <2>1. CASE FormatOk(file) /\ DataOk(file)
    <3>1. CodeSize(file) \in Nat
      BY <1>0, <2>1, SizesOfChecked DEF Kept
    <3>2. pa' = [start |-> CodeStart(file), size |-> CodeSize(file)] /\ loaded' = TRUE
      BY <1>1, <2>1 DEF Request
    <3>3. Checked'
      BY <2>0, <2>1, <3>2 DEF Checked, FormatOk, DataOk, CodeStart, CodeSize
    <3>4. Kept'
      BY <1>0, <2>0, <3>2, <3>3 DEF Kept
    <3>5. Inside'
      BY <2>0, <3>1, <3>2 DEF Inside
    <3>6. QED BY <3>4, <3>5 DEF IInv
  <2>2. CASE ~(FormatOk(file) /\ DataOk(file))
    <3>1. UNCHANGED <<loaded, pa>>
      BY <1>1, <2>2 DEF Request
    <3>2. Kept'
      BY <1>0, <2>0, <3>1, KeptSame DEF Kept
    <3>3. Inside'
      BY <1>0, <2>0, <3>1 DEF Inside
    <3>4. QED BY <3>2, <3>3 DEF IInv
  <2>3. QED BY <2>1, <2>2
<1>2. CASE Release
  <2>1. /\ loaded' = FALSE /\ pa' = NoCode /\ pc = "idle"
        /\ file' = file /\ index' = index /\ pc' = pc
    BY <1>2 DEF Release
  <2>2. pc' # "run"
    BY <2>1
  <2>3. Kept'
    BY <1>0, <2>1, <2>2 DEF Kept
  <2>4. Inside'
    BY <1>0, <2>1 DEF Inside, NoCode
  <2>5. QED BY <2>3, <2>4 DEF IInv
<1>3. CASE Apply
  <2>1. loaded = TRUE /\ UNCHANGED <<file, loaded, pa>> /\ index' = 0 /\ pc' = "run"
    BY <1>3 DEF Apply
  <2>2. Kept'
    BY <1>0, <2>1, KeptSame
  <2>3. Inside'
    BY <1>0, <2>1 DEF Inside
  <2>4. QED BY <2>2, <2>3 DEF IInv
<1>4. CASE Step
  <2>1. More /\ UNCHANGED <<file, loaded, pa, pc>> /\ index' = NextIndex(Cur)
    BY <1>4 DEF Step, StepRead, StepData, StepWrite, StepJump
  <2>2. index' \in Nat /\ index' <= pa.size
    BY <2>1, StepStaysInside
  <2>3. Kept'
    BY <1>0, <2>1, KeptSame DEF Kept
  <2>4. Inside'
    BY <1>0, <2>1, <2>2 DEF Inside, More
  <2>5. QED BY <2>3, <2>4 DEF IInv
<1>5. CASE Finish
  <2>1. UNCHANGED <<file, loaded, pa>> /\ index' = 0 /\ pc' = "idle"
    BY <1>5 DEF Finish
  <2>2. pc' # "run"
    BY <2>1
  <2>3. Kept'
    BY <1>0, <2>1, <2>2, KeptSame
  <2>4. Inside'
    BY <1>0, <2>1 DEF Inside
  <2>5. QED BY <2>3, <2>4 DEF IInv
<1>6. CASE UNCHANGED vars
  <2>1. UNCHANGED <<file, loaded, pa, pc, index>>
    BY <1>6 DEF vars
  <2>2. Kept'
    BY <1>0, <2>1, KeptSame DEF Kept
  <2>3. Inside'
    BY <1>0, <2>1 DEF Inside
  <2>4. QED BY <2>2, <2>3 DEF IInv
<1>7. QED BY <1>1, <1>2, <1>3, <1>4, <1>5, <1>6 DEF Next

(* The invariant, in every state.                                            *)
LEMMA InsideAlways == Spec => []IInv
BY InsideInit, InsideNext, PTL DEF Spec

(* The interpreter reads only words of the file, whatever its header claims:  *)
(* rtl_fw_format_ok's divisions and subtractions are exactly strict enough.   *)
THEOREM ReadsInside == Spec => []ReadsInsideFile
<1>1. IInv => ReadsInsideFile
  <2> SUFFICES ASSUME IInv PROVE ReadsInsideFile
    OBVIOUS
  <2>1. CASE loaded = TRUE
    BY <2>1, SizesOfChecked DEF IInv, Kept, Inside, Checked, ReadsInsideFile, FwOpcodeSize
  <2>2. CASE loaded = FALSE
    <3>1. file.size \in Nat
      BY FirmwareAssumption DEF IInv, Kept
    <3>2. QED BY <2>2, <3>1 DEF IInv, Kept, Inside, NoCode, ReadsInsideFile, FwOpcodeSize
  <2>3. QED BY <2>1, <2>2 DEF IInv, Kept
<1>2. QED BY <1>1, InsideAlways, PTL

(* No jump or skip of a checked image leaves its words: BJMPN does not wrap   *)
(* below zero and no skip passes the end, so only the last word ends a run.   *)
THEOREM JumpsInside == Spec => JumpsLandInside
<1>1. IInv /\ [Next]_vars
        => [pc = "run" /\ pc' = "run" /\ index' # index + 1 => index' < pa.size]_vars
  <2> SUFFICES ASSUME IInv, [Next]_vars, pc = "run", pc' = "run",
                      index' # index + 1, ~(UNCHANGED vars)
               PROVE  index' < pa.size
    OBVIOUS
  <2>1. Step
    BY DEF Next, Request, Release, Apply, Finish
  <2>2. More /\ index' = NextIndex(Cur)
    BY <2>1 DEF Step, StepRead, StepData, StepWrite, StepJump
  <2>3. QED BY <2>2, StepStaysInside
<1>2. QED BY <1>1, InsideAlways, PTL DEF Spec, JumpsLandInside

(* A file refused by either check is released at once and an accepted one is  *)
(* released once: no path of rtl_request_firmware or rtl_release_firmware     *)
(* leaks the image or drops it twice.                                         *)
THEOREM HeldOnceLoaded == Spec => []HeldWhileLoaded
<1>1. Init => HeldWhileLoaded
  BY DEF Init, HeldWhileLoaded
<1>2. IInv /\ HeldWhileLoaded /\ [Next]_vars => HeldWhileLoaded'
  <2> SUFFICES ASSUME IInv, HeldWhileLoaded, [Next]_vars PROVE HeldWhileLoaded'
    OBVIOUS
  <2>1. loaded \in BOOLEAN /\ held \in {0, 1}
    BY DEF IInv, Kept, HeldWhileLoaded
  <2>2. CASE Request
    <3>1. loaded = FALSE /\ held = 0
      BY <2>1, <2>2 DEF Request, HeldWhileLoaded
    <3>2. (loaded' = TRUE /\ held' = held + 1) \/ (loaded' = loaded /\ held' = held)
      BY <2>2 DEF Request
    <3> QED
      BY <3>1, <3>2 DEF HeldWhileLoaded
  <2>3. CASE Release
    BY <2>1, <2>3 DEF Release, HeldWhileLoaded
  <2>4. CASE Apply \/ Step \/ Finish \/ UNCHANGED vars
    <3>1. loaded' = loaded /\ held' = held
      BY <2>4 DEF Apply, Step, StepRead, StepData, StepWrite, StepJump, Finish, vars
    <3> QED
      BY <3>1 DEF HeldWhileLoaded
  <2> QED
    BY <2>2, <2>3, <2>4 DEF Next
<1> QED
  BY <1>1, <1>2, InsideAlways, PTL DEF Spec
=============================================================================
