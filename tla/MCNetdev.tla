------------------------------ MODULE MCNetdev ------------------------------
(* Boards of every family, the requests that act on one another together,   *)
(* and packets on both sides of every limit of Offload.                     *)
EXTENDS Netdev

On(boards, kinds, asks) ==
    {[xid |-> b[1], gmii |-> b[2], kinds |-> kinds, asks |-> asks] : b \in boards}

Rtl8169   == <<\h040, TRUE>>   Rtl8110SC  == <<\h180, TRUE>>   Rtl8168b == <<\h300, TRUE>>
Rtl8168c  == <<\h3c8, TRUE>>   Rtl8168evl == <<\h2c8, TRUE>>   Rtl8107e == <<\h541, FALSE>>
Rtl8125a  == <<\h609, TRUE>>   Rtl8125b   == <<\h641, TRUE>>

MCSetups ==
    On({Rtl8169, Rtl8168b, Rtl8168evl}, {"coalesce", "rxcsum"}, 3)
      \cup On({Rtl8169, Rtl8168evl}, {"coalesce", "speed", "power"}, 2)
      \cup On({Rtl8110SC, Rtl8168evl, Rtl8125b}, {"rxcsum", "rxvlan", "rxall", "speed", "power"}, 3)
      \cup On({Rtl8169, Rtl8168c, Rtl8168evl, Rtl8125a}, {"mtu", "sg", "tso", "tx"}, 4)
      \cup On({Rtl8168c, Rtl8125b}, {"mtu", "sg", "tso6", "tx"}, 4)
      \cup On({Rtl8107e, Rtl8125b}, {"mtu", "eee", "speed", "power"}, 3)
      \cup On({Rtl8169, Rtl8168evl}, {"stats", "power"}, 0)

Pkt(gso, mss, ip, toff, len) ==
    [gso |-> gso, mss |-> mss, sum |-> TRUE, ip |-> ip, proto |-> "tcp", toff |-> toff, len |-> len,
     tail |-> len - toff, ptp |-> FALSE, opts |-> FALSE, last |-> 1000]
Segmented ==
    {Pkt(ip, mss, ip, toff, 9000) : ip \in {"4", "6"}, mss \in {1000, 1460, 2047, 2048, 6900},
                                    toff \in {34, 127, 128}}
      \cup {[Pkt("4", 1000, "4", 34, 9000) EXCEPT !.opts = TRUE], [Pkt("4", 1000, "4", 34, 9000) EXCEPT !.last = 6]}
Plainly ==
    {Pkt("no", 0, ip, 34, len) : ip \in {"4", "6"}, len \in {59, 60, 174, 175, 1514, 7000}}
      \cup {Pkt("no", 0, "6", toff, 1400) : toff \in {1023, 1024}}
      \cup {[Pkt("no", 0, "4", 34, 42 + n) EXCEPT !.proto = "udp", !.tail = 8 + n, !.ptp = TRUE, !.sum = s] :
               n \in {0, 18, 38, 39}, s \in BOOLEAN}
MCPackets == Segmented \cup Plainly
=============================================================================
