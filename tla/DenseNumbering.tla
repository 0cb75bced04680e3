--------------------------- MODULE DenseNumbering ---------------------------
(***************************************************************************)
(* What local invoicing promises of its numbers: in each series (cuit,     *)
(* point of sale, voucher type) they are 1, 2, 3, ..., each issued once,   *)
(* whoever asks and whatever fails.                                        *)
(***************************************************************************)
EXTENDS Naturals, FiniteSets

CONSTANT Series
VARIABLE issued          \* the numbers of each series issued so far

Init == issued = [s \in Series |-> {}]
Issue(s) == issued' = [issued EXCEPT ![s] = 1..(Cardinality(@) + 1)]
Next == \E s \in Series : Issue(s)
Spec == Init /\ [][Next]_issued
=============================================================================
