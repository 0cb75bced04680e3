---------------------------- MODULE JobLifecycle ----------------------------
(***************************************************************************)
(* What the queue of CAEA work promises of a job: it is asked for before   *)
(* AFIP hears of it, its effect on the local tables comes after that, and  *)
(* it is done only while its effect stands.  A job may be carried out more *)
(* than once and lose its effect again, but not without leaving done first. *)
(***************************************************************************)
CONSTANTS
    Job,
    Granted      \* the jobs whose effect has to be AFIP's grant

VARIABLES
    asked,       \* the jobs there are
    granted,     \* those AFIP has answered with success
    applied,     \* those whose effect stands in the local tables
    done         \* those reported done
vars == <<asked, granted, applied, done>>

Init == asked = {} /\ granted = {} /\ applied = {} /\ done = {}

Enqueue(j) ==
    /\ asked' = asked \cup {j}
    /\ UNCHANGED <<granted, applied, done>>
Grant(j) ==
    /\ j \in asked
    /\ granted' = granted \cup {j}
    /\ UNCHANGED <<asked, applied, done>>
Apply(j) ==
    /\ j \in asked /\ (j \in Granted => j \in granted)
    /\ applied' = applied \cup {j}
    /\ UNCHANGED <<asked, granted, done>>
Finish(j) ==
    /\ j \in applied
    /\ done' = done \cup {j}
    /\ UNCHANGED <<asked, granted, applied>>
Reopen(j) ==
    /\ done' = done \ {j}
    /\ UNCHANGED <<asked, granted, applied>>
Undo(j) ==
    /\ j \notin done
    /\ applied' = applied \ {j}
    /\ UNCHANGED <<asked, granted, done>>

Next == \E j \in Job :
            Enqueue(j) \/ Grant(j) \/ Apply(j) \/ Finish(j) \/ Reopen(j) \/ Undo(j)

Spec == Init /\ [][Next]_vars

(* AFIP is told nothing that was not asked for, no effect stands without   *)
(* its grant, and what is reported done stands.                            *)
Promise ==
    /\ granted \subseteq asked /\ applied \subseteq asked
    /\ applied \cap Granted \subseteq granted
    /\ done \subseteq applied
=============================================================================
