------------------------ MODULE CaeaNumbering_proofs ------------------------
(***************************************************************************)
(* The numbering of local invoices is dense, unique and crash-proof, for   *)
(* any number of series, handlers and processes.                           *)
(***************************************************************************)
EXTENDS CaeaNumbering, FiniteSetTheorems, TLAPS

(* The UNIQUE index and the absence of deletes do the work that the        *)
(* reservation does not: whoever chose n did so over 1..n-1, which stays,  *)
(* and only one handler gets past the insert with it.                      *)
DenseInv == \A s \in Series : \E m \in Nat : Issued(s) = 1..m
ChosenOver ==
    \A h \in Handler : pc[h] = "inserting" =>
        nro[h] \in Nat \ {0} /\ \A k \in 1..(nro[h] - 1) : k \in Issued(series[h])
Owned(h) == pc[h] \in {"queueing", "answering"}
OwnerOnly ==
    /\ \A h \in Handler : Owned(h) => Mine(h) \in invoice /\ Mine(h) \notin told
    /\ \A g, h \in Handler : g # h /\ Owned(g) /\ Owned(h) => Mine(g) # Mine(h)
    /\ \A h \in Handler : pc[h] = "answering" => Mine(h) \in job
    /\ \A h \in Handler : pc[h] = "queueing" => Mine(h) \notin told
Inv == TypeOK /\ DenseInv /\ ChosenOver /\ OwnerOnly /\ ToldMeansQueued

LEMMA HighestOfInterval ==
  ASSUME NEW m \in Nat
  PROVE  Highest(1..m) = m
<1>1. CASE m = 0
  BY <1>1 DEF Highest
<1>2. CASE m # 0
  <2>1. m \in 1..m /\ \A n \in 1..m : n <= m
    BY <1>2
  <2>2. \A x \in 1..m : (\A n \in 1..m : n <= x) => x = m
    BY <2>1
  <2> QED
    BY <2>1, <2>2 DEF Highest
<1> QED
  BY <1>1, <1>2

LEMMA IssuedMember ==
  ASSUME invoice \in SUBSET Number, NEW s \in Series, NEW n
  PROVE  n \in Issued(s) <=> <<s, n>> \in invoice
BY DEF Issued, Number

(* Storing a number changes the numbers of its own series only. *)
LEMMA IssuedAfterInsert ==
  ASSUME invoice \in SUBSET Number, NEW s \in Series, NEW n \in Nat \ {0},
         invoice' = invoice \cup {<<s, n>>}
  PROVE  /\ Issued(s)' = Issued(s) \cup {n}
         /\ \A r \in Series : r # s => Issued(r)' = Issued(r)
<1>1. invoice' \in SUBSET Number
  BY DEF Number
<1>2. ASSUME NEW r \in Series
      PROVE  Issued(r)' = {x[2] : x \in {y \in invoice' : y[1] = r}}
  BY DEF Issued
<1>3. ASSUME NEW r \in Series, NEW k
      PROVE  k \in Issued(r)' <=> <<r, k>> \in invoice'
  BY <1>1, <1>2 DEF Number
<1>4. ASSUME NEW r \in Series, NEW k
      PROVE  <<r, k>> \in invoice' <=> (k \in Issued(r) \/ (r = s /\ k = n))
  BY IssuedMember
<1> QED
  BY <1>3, <1>4

LEMMA InitInv == Init => Inv
<1> SUFFICES ASSUME Init PROVE Inv
  OBVIOUS
<1>1. \A s \in Series : Issued(s) = {}
  BY DEF Init, Issued
<1>2. 0 \in Nat /\ 1..0 = {}
  OBVIOUS
<1>3. DenseInv
  BY <1>1, <1>2 DEF DenseInv
<1> QED
  BY <1>3 DEF Init, Inv, TypeOK, ChosenOver, OwnerOnly, Owned, ToldMeansQueued

LEMMA BeginInv ==
  ASSUME Inv, NEW h \in Handler, NEW s \in Series, Begin(h, s)
  PROVE  Inv'
BY DEF Begin, Inv, TypeOK, DenseInv, ChosenOver, OwnerOnly, Owned, Mine, Issued, ToldMeansQueued

LEMMA ReserveInv ==
  ASSUME Inv, NEW h \in Handler, Reserve(h)
  PROVE  Inv'
<1> USE DEF Inv
<1>1. PICK m \in Nat : Issued(series[h]) = 1..m
  BY DEF DenseInv, TypeOK
<1>2. nro' = [nro EXCEPT ![h] = m + 1]
  BY <1>1, HighestOfInterval DEF Reserve, ReserveNumber
<1>3. UNCHANGED <<invoice, job, told, series>> /\ pc' = [pc EXCEPT ![h] = "inserting"]
  BY DEF Reserve, ReserveNumber
<1>4. \A s \in Series : Issued(s)' = Issued(s)
  BY <1>3 DEF Issued
<1>5. TypeOK' /\ DenseInv' /\ ToldMeansQueued'
  BY <1>2, <1>3, <1>4 DEF TypeOK, DenseInv, ToldMeansQueued
<1>6. ChosenOver'
  BY <1>1, <1>2, <1>3, <1>4 DEF ChosenOver, TypeOK
<1>7. OwnerOnly'
  BY <1>2, <1>3 DEF OwnerOnly, Owned, Mine, TypeOK
<1> QED
  BY <1>5, <1>6, <1>7

(* An inserted number is the next one of its series. *)
LEMMA InsertsNext ==
  ASSUME Inv, NEW h \in Handler, pc[h] = "inserting", Mine(h) \notin invoice
  PROVE  \E m \in Nat : Issued(series[h]) = 1..m /\ nro[h] = m + 1
<1> USE DEF Inv
<1>1. PICK m \in Nat : Issued(series[h]) = 1..m
  BY DEF DenseInv, TypeOK
<1>2. nro[h] \notin 1..m
  BY <1>1, IssuedMember DEF Mine, TypeOK
<1>3. nro[h] \in Nat \ {0} /\ 1..(nro[h] - 1) \subseteq 1..m
  BY <1>1 DEF ChosenOver
<1>4. nro[h] = m + 1
  <2>1. nro[h] > m
    BY <1>2, <1>3
  <2>2. nro[h] - 1 \notin 1..(nro[h] - 1) \/ nro[h] - 1 <= m
    BY <1>3
  <2> QED
    BY <1>3, <2>1, <2>2
<1> QED
  BY <1>1, <1>4

LEMMA InsertInv ==
  ASSUME Inv, NEW h \in Handler, Insert(h)
  PROVE  Inv'
<1> USE DEF Inv
<1>1. CASE Mine(h) \in invoice
  BY <1>1 DEF Insert, Return, TypeOK, DenseInv, ChosenOver, OwnerOnly, Owned, Mine, Issued,
     ToldMeansQueued
<1>2. CASE Mine(h) \notin invoice
  <2>1. /\ pc' = [pc EXCEPT ![h] = "queueing"]
        /\ invoice' = invoice \cup {<<series[h], nro[h]>>}
        /\ UNCHANGED <<job, told, series, nro>>
    BY <1>2 DEF Insert, Mine
  <2>2. PICK m \in Nat : Issued(series[h]) = 1..m /\ nro[h] = m + 1
    BY <1>2, InsertsNext DEF Insert
  <2>3. /\ Issued(series[h])' = Issued(series[h]) \cup {nro[h]}
        /\ \A r \in Series : r # series[h] => Issued(r)' = Issued(r)
    BY <2>1, <2>2, IssuedAfterInsert DEF TypeOK
  <2>4. Issued(series[h])' = 1..(m + 1)
    BY <2>2, <2>3
  <2>5. TypeOK' /\ ToldMeansQueued'
    BY <2>1, <2>2 DEF TypeOK, Number, ToldMeansQueued
  <2>6. DenseInv'
    BY <2>1, <2>3, <2>4 DEF DenseInv, TypeOK
  <2>7. ChosenOver'
    <3>1. \A r \in Series : Issued(r) \subseteq Issued(r)'
      BY <2>1, <2>3
    <3>2. ASSUME NEW g \in Handler, pc'[g] = "inserting"
          PROVE  pc[g] = "inserting" /\ series[g] \in Series
      BY <2>1, <3>2 DEF TypeOK
    <3>3. ASSUME NEW g \in Handler, pc'[g] = "inserting"
          PROVE  /\ nro[g] \in Nat \ {0}
                 /\ \A k \in 1..(nro[g] - 1) : k \in Issued(series[g])'
      BY <2>1, <3>1, <3>2, <3>3 DEF ChosenOver
    <3> QED
      BY <2>1, <3>3 DEF ChosenOver
  <2>8. OwnerOnly'
    BY <1>2, <2>1 DEF OwnerOnly, Owned, Mine, TypeOK, ToldMeansQueued
  <2> QED
    BY <2>5, <2>6, <2>7, <2>8
<1> QED
  BY <1>1, <1>2

LEMMA NextInv == Inv /\ [Next]_vars => Inv'
<1> SUFFICES ASSUME Inv, [Next]_vars PROVE Inv'
  OBVIOUS
<1> USE DEF Inv, TypeOK, DenseInv, ChosenOver, OwnerOnly, Owned, Mine, Issued,
            ToldMeansQueued, Return
<1>1. ASSUME NEW h \in Handler, Enqueue(h) PROVE Inv'
  BY <1>1 DEF Enqueue
<1>2. ASSUME NEW h \in Handler, Answer(h) PROVE Inv'
  BY <1>2 DEF Answer
<1>3. ASSUME NEW p \in Process, Crash(p) PROVE Inv'
  BY <1>3 DEF Crash
<1>4. CASE UNCHANGED vars
  BY <1>4 DEF vars
<1> QED
  BY <1>1, <1>2, <1>3, <1>4, BeginInv, ReserveInv, InsertInv DEF Next

THEOREM Invariant == Spec => []Inv
BY InitInv, NextInv, PTL DEF Spec

(* The type invariant the run checks. *)
THEOREM NumberTypes == Spec => []TypeOK
BY Invariant, PTL DEF Inv

(* The numbers of every series are dense. *)
THEOREM NumbersDense == Spec => []NoGaps
<1>1. Inv => NoGaps
  BY DEF Inv, DenseInv, NoGaps
<1> QED
  BY <1>1, Invariant, PTL

(* Whatever a client was told is stored and queued. *)
THEOREM ToldQueued == Spec => []ToldMeansQueued
BY Invariant, PTL DEF Inv

(* No number is told twice. *)
THEOREM NumbersToldOnce == Spec => ToldOnce
<1>1. Inv => \A h \in Handler : Answer(h) => Mine(h) \notin told
  BY DEF Inv, OwnerOnly, Owned, Answer
<1> QED
  BY <1>1, Invariant, PTL DEF ToldOnce

(* The table of invoices implements dense numbering: an insert is an Issue *)
(* of the abstract specification, every other step a stutter.              *)
THEOREM ImplementsDense == Spec => DenseSpec
<1>1. Init => Dense!Init
  BY DEF Init, Dense!Init, Issued
<1>2. ASSUME Inv, NEW h \in Handler, Insert(h), Mine(h) \notin invoice
      PROVE  Dense!Next
  <2>1. invoice' = invoice \cup {<<series[h], nro[h]>>} /\ series' = series
    BY <1>2 DEF Insert, Mine
  <2>2. PICK m \in Nat : Issued(series[h]) = 1..m /\ nro[h] = m + 1
    BY <1>2, InsertsNext DEF Insert
  <2>3. Dense!Cardinality(1..m) = m
    <3>1. Cardinality(1..m) = m
      BY FS_Interval
    <3>2. Dense!Cardinality(1..m) = Cardinality(1..m)
      BY DEF Cardinality, Dense!Cardinality
    <3> QED
      BY <3>1, <3>2
  <2>4. PICK s \in Series : s = series[h]
    BY <1>2 DEF Inv, TypeOK
  <2>5. Issued(s) = 1..m /\ Issued(s)' = Issued(s) \cup {m + 1}
    BY <1>2, <2>1, <2>2, <2>4, IssuedAfterInsert DEF Inv, TypeOK
  <2>6. Issued(s)' = 1..(Dense!Cardinality(Issued(s)) + 1)
    BY <2>2, <2>3, <2>5
  <2>7. \A r \in Series : r # s => Issued(r)' = Issued(r)
    BY <1>2, <2>1, <2>2, <2>4, IssuedAfterInsert DEF Inv, TypeOK
  <2>8. Dense!Issue(s)
    BY <2>6, <2>7 DEF Dense!Issue
  <2> QED
    BY <2>8 DEF Dense!Next
<1>3. ASSUME [Next]_vars,
             ~ \E h \in Handler : Insert(h) /\ Mine(h) \notin invoice
      PROVE  \A s \in Series : Issued(s)' = Issued(s)
  <2>1. invoice' = invoice
    BY <1>3 DEF Next, vars, Begin, Reserve, ReserveNumber, Insert, Enqueue, Answer, Crash
  <2> QED
    BY <2>1 DEF Issued
<1>4. Inv /\ [Next]_vars => [Dense!Next]_[s \in Series |-> Issued(s)]
  BY <1>2, <1>3
<1> QED
  BY <1>1, <1>4, Invariant, PTL DEF Spec, DenseSpec, Dense!Spec
=============================================================================
