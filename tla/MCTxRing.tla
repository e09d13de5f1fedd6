------------------------------ MODULE MCTxRing ------------------------------
(* Instances of TxRing for TLC. *)
EXTENDS TxRing, TLC

CONSTANTS s1, s2, s3, s4

(* Packets are interchangeable where no liveness is checked. *)
SkbSymmetry == Permutations(Skbs)

(* What a spoiled ring does is not explored: nothing is claimed of it. *)
Sound == ~past.spoiled

(* A link-up or a reset, not both. *)
OneEvent == resets + past.linkUps <= 1
=============================================================================
