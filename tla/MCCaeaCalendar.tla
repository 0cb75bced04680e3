--------------------------- MODULE MCCaeaCalendar ---------------------------
(* An instance of CaeaCalendar for TLC: ticks of three hours, and starts   *)
(* before a change of month, of year, and of fortnight, in a leap year and *)
(* in another.                                                             *)
EXTENDS CaeaCalendar

MCStart == {At(2027, 12, 12, 5), At(2028, 2, 13, 0), At(2026, 2, 25, 7), At(2027, 4, 29, 7)}
=============================================================================
