------------------------------ MODULE RxQueue ------------------------------
(***************************************************************************)
(* What the receive path promises, whatever its ring: the frames the chip  *)
(* has written are handed to the stack in the order they arrived, each     *)
(* once and whole, and only a teardown, a fault in the frame or a failed   *)
(* allocation may lose one.  RxRing implements this module.                *)
(***************************************************************************)
EXTENDS Sequences

CONSTANTS
    Good, Damaged, Broken, \* the frames: faultless, with an error, not usable
    Lossy,                 \* may the allocation of an skb fail?
    NoFrame

VARIABLES
    waiting, \* the frames written by the chip and not yet dealt with
    handed   \* what the stack was last given: bytes, status and VLAN tag

rv == <<waiting, handed>>

Frames == Good \cup Damaged \cup Broken

Whole(f) == [data |-> f, status |-> f, tag |-> f]

Init == waiting = <<>> /\ handed = Whole(NoFrame)

Arrive(f) ==
    /\ \A i \in DOMAIN waiting : waiting[i] # f
    /\ waiting' = Append(waiting, f)
    /\ UNCHANGED handed

Deliver ==
    /\ waiting # <<>> /\ Head(waiting) \notin Broken
    /\ waiting' = Tail(waiting)
    /\ handed' = Whole(Head(waiting))

Discard ==
    /\ waiting # <<>> /\ (Head(waiting) \in Good => Lossy)
    /\ waiting' = Tail(waiting)
    /\ UNCHANGED handed

Flush == waiting # <<>> /\ waiting' = <<>> /\ UNCHANGED handed

Leave == Deliver \/ Discard \/ Flush

Next == (\E f \in Frames : Arrive(f)) \/ Leave

(* What may happen, and that what waits leaves. *)
Safety == Init /\ [][Next]_rv

Spec == Safety /\ WF_rv(Leave)
=============================================================================
