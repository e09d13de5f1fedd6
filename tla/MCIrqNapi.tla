------------------------------ MODULE MCIrqNapi ------------------------------
(* The devices of the instance: messages, and shared lines on an old chip    *)
(* and on the one that reports a full receive fifo.                          *)
EXTENDS IrqNapi

DefSetups ==
    {[mask |-> {"rx", "tx", "link"}, msi |-> TRUE, shared |-> FALSE],
     [mask |-> {"rx", "tx", "link", "sys"}, msi |-> FALSE, shared |-> TRUE],
     [mask |-> {"rx", "tx", "link", "over"}, msi |-> FALSE, shared |-> TRUE]}

(* It takes five events to see a line that messages leave stuck.             *)
DefEvents == [msi \in BOOLEAN |-> IF msi THEN 5 ELSE 3]
=============================================================================
