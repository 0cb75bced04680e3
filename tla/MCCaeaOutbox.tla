---------------------------- MODULE MCCaeaOutbox ----------------------------
(* Instances of CaeaOutbox for TLC: who runs where, and the row limits. *)
EXTENDS CaeaOutbox, TLC

CONSTANTS c1, c2, v1, v2, w1, b1, a1, w2, b2, p1, p2

MCCycleOf == [v \in Invoice |-> c1]
MCProcOf  == [t \in Task |-> IF t \in {w2, b2} THEN p2 ELSE p1]
MCLimit   == [t \in Task |-> IF t \in BootTask THEN 2 ELSE 1]
=============================================================================
