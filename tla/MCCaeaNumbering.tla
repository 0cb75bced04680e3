--------------------------- MODULE MCCaeaNumbering ---------------------------
(* Three handlers, two of them in one process, and two series. *)
EXTENDS CaeaNumbering

CONSTANTS h1, h2, h3, p1, p2

MCProcOf == [h \in Handler |-> IF h = h3 THEN p2 ELSE p1]
=============================================================================
