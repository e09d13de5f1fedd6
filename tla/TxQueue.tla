------------------------------ MODULE TxQueue ------------------------------
(***************************************************************************)
(* What the transmit path promises, whatever its rings and locks: packets  *)
(* are sent and released in the order they were accepted, each once; a     *)
(* teardown may drop all of them together.  TxRing implements this module. *)
(***************************************************************************)
EXTENDS Integers, Sequences

CONSTANT Skbs

VARIABLES pending, \* the packets accepted and not yet released, oldest first
          gone     \* those of them that the chip has sent

qv == <<pending, gone>>

Queued == {pending[i] : i \in 1 .. Len(pending)}

Init == pending = <<>> /\ gone = {}

Accept(s) ==
    /\ s \notin Queued
    /\ pending' = Append(pending, s)
    /\ UNCHANGED gone

(* Only the oldest packet that has not been sent may be sent. *)
Transmit ==
    \E i \in 1 .. Len(pending) :
        /\ gone = {pending[j] : j \in 1 .. i - 1}
        /\ gone' = gone \cup {pending[i]}
        /\ UNCHANGED pending

(* Only the oldest packet may be released, and only once it was sent. *)
Release ==
    /\ pending # <<>> /\ Head(pending) \in gone
    /\ pending' = Tail(pending)
    /\ gone' = gone \ {Head(pending)}

Flush == pending' = <<>> /\ gone' = {}

Next == (\E s \in Skbs : Accept(s)) \/ Transmit \/ Release \/ Flush

(* What may happen, and that what is accepted is sent and released. *)
Safety == Init /\ [][Next]_qv

Spec == Safety /\ WF_qv(Transmit) /\ WF_qv(Release)
=============================================================================
