------------------------- MODULE JobLifecycle_proofs -------------------------
(* What the lifecycle of a job keeps, for any sets of jobs. *)
EXTENDS JobLifecycle, TLAPS

LEMMA NextPromise == Promise /\ [Next]_vars => Promise'
<1> SUFFICES ASSUME Promise, [Next]_vars PROVE Promise'
  OBVIOUS
<1> USE DEF Promise
<1>1. ASSUME NEW j \in Job, Enqueue(j) \/ Grant(j) PROVE Promise'
  BY <1>1 DEF Enqueue, Grant
<1>2. ASSUME NEW j \in Job, Apply(j) PROVE Promise'
  BY <1>2 DEF Apply
<1>3. ASSUME NEW j \in Job, Finish(j) \/ Reopen(j) PROVE Promise'
  BY <1>3 DEF Finish, Reopen
<1>4. ASSUME NEW j \in Job, Undo(j) PROVE Promise'
  BY <1>4 DEF Undo
<1>5. CASE UNCHANGED vars
  BY <1>5 DEF vars
<1> QED
  BY <1>1, <1>2, <1>3, <1>4, <1>5 DEF Next

(* Nothing is granted or has its effect that was not asked for, an effect  *)
(* stands only on its grant, and what is done stands.                      *)
THEOREM PromiseKept == Spec => []Promise
<1>1. Init => Promise
  BY DEF Init, Promise
<1> QED
  BY <1>1, NextPromise, PTL DEF Spec
=============================================================================
