----------------------------- MODULE MCFirmware -----------------------------
(* Images for TLC: short programs over words that jump, skip, switch the      *)
(* register space and select pages; and headers at and past every limit.      *)
EXTENDS Firmware

W(o, r, d) == [op |-> o, regno |-> r, data |-> d]

MCWords ==
    {W(0, 0, 0), W(0, 31, 0), W(1, 0, 1), W(2, 0, 2), W(4, 0, 1), W(4, 0, 2), W(5, 0, 0)}
      \cup {W(7, 0, 0), W(8, 31, 1), W(12, 31, 0), W(14, 0, 0), W(9, 0, 0), W(9, 0, 1)}
      \cup {W(3, r, 0) : r \in 0 .. 2} \cup {W(o, r, 1) : o \in {10, 11, 13}, r \in 0 .. 1}

MCBare ==
    {[size |-> 4 * n, magic |-> TRUE, sum |-> 0, start |-> 0, len |-> 0, words |-> w] :
        n \in {3}, w \in [1 .. 3 -> MCWords]}

MCOdd ==
    {[size |-> s, magic |-> TRUE, sum |-> 0, start |-> 0, len |-> 0,
      words |-> [i \in 1 .. s \div 4 |-> W(13, 0, 0)]] : s \in {0, 3, 4, 6}}

MCHeaded ==
    {[size |-> s, magic |-> FALSE, sum |-> c, start |-> b, len |-> l,
      words |-> [i \in 1 .. (IF b > s THEN 0 ELSE (s - b) \div 4) |-> W(9, 0, 0)]] :
        s \in {44, 45, 52, 53}, c \in {0, 1}, b \in {0, 45, 46, 53, 54}, l \in 0 .. 3}

MCFiles == MCBare \cup MCOdd \cup MCHeaded
MCSmall == MCOdd \cup MCHeaded
=============================================================================
