------------------------- MODULE RequestLog_proofs -------------------------
(* Theorems about RequestLog and their proofs. *)
EXTENDS RequestLog, FiniteSetTheorems, TLAPS

-----------------------------------------------------------------------------
(* The sets that are counted are finite. *)
LEMMA StoredFinite ==
    ASSUME TypeOK
    PROVE  /\ IsFiniteSet(Stored)
           /\ Cardinality(Stored) = Len(log) - first + 1
           /\ \A f : IsFiniteSet(Matching(f)) /\ Cardinality(Matching(f)) \in Nat
<1>1. Len(log) \in Nat /\ first \in Nat /\ first <= Len(log) + 1
  BY DEF TypeOK
<1>2. IsFiniteSet(Stored) /\ Cardinality(Stored) = Len(log) - first + 1
  BY <1>1, FS_Interval DEF Stored
<1>3. ASSUME NEW f
      PROVE  IsFiniteSet(Matching(f)) /\ Cardinality(Matching(f)) \in Nat
  <2>1. Matching(f) \in SUBSET Stored
    BY DEF Matching
  <2> QED
    BY <1>2, <2>1, FS_Subset, FS_CardinalityType
<1> QED
  BY <1>2, <1>3

(* An entry's place is a number, and at most the total. *)
LEMMA PlaceBounded ==
    ASSUME TypeOK, NEW i, NEW f
    PROVE  Place(i, f) \in Nat /\ Place(i, f) <= Cardinality(Matching(f))
<1>1. Newer(i, f) \in SUBSET Matching(f)
  BY DEF Newer
<1> QED
  BY <1>1, StoredFinite, FS_Subset, FS_CardinalityType DEF Place

(* An entry that matches has a place of at least one. *)
LEMMA PlacePositive ==
    ASSUME TypeOK, NEW f, NEW i \in Matching(f)
    PROVE  Place(i, f) > 0
<1>1. i \in Newer(i, f)
  <2>1. i \in Int
    BY DEF Matching, Stored
  <2> QED
    BY <2>1 DEF Newer
<1>2. IsFiniteSet(Newer(i, f))
  <2>1. Newer(i, f) \in SUBSET Matching(f)
    BY DEF Newer
  <2> QED
    BY <2>1, StoredFinite, FS_Subset
<1> QED
  BY <1>1, <1>2, FS_EmptySet, FS_CardinalityType, PlaceBounded DEF Place

-----------------------------------------------------------------------------
(* Recording keeps the deque full, in order and typed. *)
LEMMA RecordFacts ==
    ASSUME TypeOK, NEW ok \in BOOLEAN, Record(ok)
    PROVE  /\ log' \in Seq(Entry) /\ Len(log') = Len(log) + 1
           /\ first' \in Nat \ {0} /\ first' <= Len(log') + 1
           /\ first <= first'
           /\ \A i \in 1..Len(log) : log'[i] = log[i]
           /\ log'[Len(log')] = [at |-> now, ok |-> ok]
<1>1. log \in Seq(Entry) /\ [at |-> now, ok |-> ok] \in Entry /\ Len(log) \in Nat
  BY DEF TypeOK, Entry
<1>2. /\ log' \in Seq(Entry) /\ Len(log') = Len(log) + 1
      /\ \A i \in 1..Len(log) : log'[i] = log[i]
      /\ log'[Len(log')] = [at |-> now, ok |-> ok]
  BY <1>1 DEF Record
<1>3. first \in Nat \ {0} /\ first <= Len(log) + 1 /\ MaxLogs \in Nat
  BY SizesAssumption DEF TypeOK
<1>4. /\ first' \in Nat \ {0} /\ first' <= Len(log') + 1 /\ first <= first'
  BY <1>1, <1>2, <1>3 DEF Record
<1> QED
  BY <1>2, <1>4

(* Every variable keeps its type, for any sizes and any readers. *)
THEOREM TypesKept == Spec => []TypeOK
<1> USE SizesAssumption
<1>1. Init => TypeOK
  <2> SUFFICES ASSUME Init
               PROVE  TypeOK
    OBVIOUS
  <2>1. Len(log) = 0 /\ log \in Seq(Entry) /\ 0 \in 0..MaxTime
    BY DEF Init
  <2>2. pc \in [Reader -> {"idle", "answered", "more", "done"}] /\ filter \in [Reader -> Filter]
    BY DEF Init, Filter
  <2>3. page \in [Reader -> Nat] /\ total \in [Reader -> Nat]
    BY DEF Init
  <2>4. /\ wanted \in [Reader -> SUBSET (1..Len(log))]
        /\ shown \in [Reader -> SUBSET (1..Len(log))]
    BY DEF Init
  <2> QED
    BY <2>1, <2>2, <2>3, <2>4 DEF Init, TypeOK
<1>2. TypeOK /\ [Next]_vars => TypeOK'
  <2> SUFFICES ASSUME TypeOK, [Next]_vars
               PROVE  TypeOK'
    OBVIOUS
  <2>1. CASE Tick
    BY <2>1 DEF Tick, TypeOK, walk
  <2>2. ASSUME NEW ok \in BOOLEAN, Record(ok)
        PROVE  SUBSET (1..Len(log)) \subseteq SUBSET (1..Len(log'))
    <3>1. Len(log') = Len(log) + 1
      BY <2>2, RecordFacts
    <3>2. 1..Len(log) \subseteq 1..Len(log')
      BY <3>1 DEF TypeOK
    <3> QED
      BY <3>2
  <2>3. ASSUME NEW ok \in BOOLEAN, Exchange(ok)
        PROVE  TypeOK'
    <3>1. Record(ok)
      BY <2>3 DEF Exchange
    <3>2. /\ log' \in Seq(Entry) /\ first' \in Nat \ {0} /\ first' <= Len(log') + 1
      BY <3>1, RecordFacts
    <3>3. SUBSET (1..Len(log)) \subseteq SUBSET (1..Len(log'))
      BY <2>2, <3>1
    <3>4. /\ wanted' \in [Reader -> SUBSET (1..Len(log'))]
          /\ shown' \in [Reader -> SUBSET (1..Len(log'))]
      BY <2>3, <3>3 DEF Exchange, TypeOK, walk
    <3> QED
      BY <2>3, <3>2, <3>4 DEF Exchange, TypeOK, walk
  <2>4. ASSUME NEW f
        PROVE  Matching(f) \subseteq 1..Len(log) /\ \A p : Page(p, f) \subseteq 1..Len(log)
    <3>1. Stored \subseteq 1..Len(log)
      BY DEF TypeOK, Stored
    <3> QED
      BY <3>1 DEF Matching, Page
  <2>5. ASSUME NEW r \in Reader, NEW p \in Nat, NEW f, ReadPage(r, p, f)
        PROVE  /\ page' \in [Reader -> Nat] /\ total' \in [Reader -> Nat]
               /\ pc' \in [Reader -> {"idle", "answered", "more", "done"}]
    BY <2>5, StoredFinite DEF ReadPage, TypeOK
  <2>6. ASSUME NEW r \in Reader, NEW f \in Filter, FirstPage(r, f)
        PROVE  TypeOK'
    <3>1. ReadPage(r, 1, f)
      BY <2>6 DEF FirstPage
    <3>2. /\ page' \in [Reader -> Nat] /\ total' \in [Reader -> Nat]
          /\ pc' \in [Reader -> {"idle", "answered", "more", "done"}]
      BY <2>5, <3>1
    <3>3. wanted' \in [Reader -> SUBSET (1..Len(log))] /\ shown' \in [Reader -> SUBSET (1..Len(log))]
      BY <2>4, <2>6 DEF FirstPage, TypeOK
    <3>4. filter' \in [Reader -> Filter]
      BY <2>6 DEF FirstPage, TypeOK
    <3> QED
      BY <3>1, <3>2, <3>3, <3>4 DEF ReadPage, TypeOK
  <2>7. ASSUME NEW r \in Reader, NextPage(r)
        PROVE  TypeOK'
    <3>1. ReadPage(r, page[r] + 1, filter[r]) /\ page[r] + 1 \in Nat
      BY <2>7 DEF NextPage, TypeOK
    <3>2. /\ page' \in [Reader -> Nat] /\ total' \in [Reader -> Nat]
          /\ pc' \in [Reader -> {"idle", "answered", "more", "done"}]
      BY <2>5, <3>1
    <3>3. shown' \in [Reader -> SUBSET (1..Len(log))]
      BY <2>4, <2>7 DEF NextPage, TypeOK
    <3> QED
      BY <2>7, <3>1, <3>2, <3>3 DEF NextPage, ReadPage, TypeOK
  <2>8. ASSUME NEW r \in Reader, Return(r)
        PROVE  TypeOK'
    <3>1. Record(TRUE)
      BY <2>8 DEF Return
    <3>2. /\ log' \in Seq(Entry) /\ first' \in Nat \ {0} /\ first' <= Len(log') + 1
      BY <3>1, RecordFacts
    <3>3. SUBSET (1..Len(log)) \subseteq SUBSET (1..Len(log'))
      BY <2>2, <3>1
    <3>4. /\ wanted' \in [Reader -> SUBSET (1..Len(log'))]
          /\ shown' \in [Reader -> SUBSET (1..Len(log'))]
      BY <2>8, <3>3 DEF Return, TypeOK
    <3>5. pc' \in [Reader -> {"idle", "answered", "more", "done"}]
      BY <2>8 DEF Return, TypeOK
    <3> QED
      BY <2>8, <3>2, <3>4, <3>5 DEF Return, TypeOK
  <2>9. CASE UNCHANGED vars
    BY <2>9 DEF vars, walk, TypeOK
  <2> QED
    BY <2>1, <2>3, <2>6, <2>7, <2>8, <2>9 DEF Next
<1> QED
  BY <1>1, <1>2, PTL DEF Spec

-----------------------------------------------------------------------------
(* What a walk has still to come to lies beyond the pages it was given. *)
Ahead(r) ==
    pc[r] \in {"answered", "more"} =>
        \A i \in wanted[r] \cap Stored :
            /\ log[i].ok \in filter[r]
            /\ i \in shown[r] \/ Place(i, filter[r]) > page[r] * PageSize

(* The answer after which the client stops has shown it everything. *)
LastAnswer(r) ==
    pc[r] = "answered" /\ page[r] * PageSize >= total[r] =>
        wanted[r] \cap Stored \subseteq shown[r]

WalkEnded(r) == pc[r] = "done" => wanted[r] \cap Stored \subseteq shown[r]
WalkInv == \A r \in Reader : Ahead(r) /\ LastAnswer(r) /\ WalkEnded(r)

(* An entry moves towards the end of the list as others are recorded. *)
LEMMA PlaceGrows ==
    ASSUME TypeOK, NEW ok \in BOOLEAN, Record(ok), NEW f,
           NEW i \in 1..Len(log), i \in Stored'
    PROVE  i \in Stored /\ log'[i] = log[i] /\ Place(i, f) <= Place(i, f)'
<1>1. /\ Len(log') = Len(log) + 1 /\ first' \in Nat /\ first <= first'
      /\ \A j \in 1..Len(log) : log'[j] = log[j]
  BY RecordFacts
<1>2. Len(log) \in Nat /\ first \in Nat \ {0}
  BY DEF TypeOK
<1>3. i \in Stored /\ log'[i] = log[i]
  BY <1>1, <1>2 DEF Stored
<1>4. Newer(i, f) \subseteq Newer(i, f)'
  <2>1. ASSUME NEW j \in Stored, log[j].ok \in f, j >= i
        PROVE  j \in Stored' /\ log'[j].ok \in f
    BY <1>1, <1>2, <2>1 DEF Stored
  <2> QED
    BY <2>1 DEF Newer, Matching
<1>5. IsFiniteSet(Newer(i, f)')
  <2>1. IsFiniteSet(first'..Len(log'))
    BY <1>1, <1>2, FS_Interval
  <2>2. Newer(i, f)' \in SUBSET (first'..Len(log'))
    BY DEF Newer, Matching, Stored
  <2> QED
    BY <2>1, <2>2, FS_Subset
<1> QED
  BY <1>3, <1>4, <1>5, FS_Subset DEF Place

(* A record that leaves a walk where it is keeps what was said of it. *)
LEMMA WalkKept ==
    ASSUME TypeOK, WalkInv, NEW ok \in BOOLEAN, Record(ok), NEW r \in Reader,
           filter'[r] = filter[r], page'[r] = page[r],
           wanted'[r] = wanted[r], shown'[r] = shown[r]
    PROVE  /\ wanted'[r] \cap Stored' \subseteq wanted[r] \cap Stored
           /\ pc[r] \in {"answered", "more"} =>
                \A i \in wanted'[r] \cap Stored' :
                    /\ log'[i].ok \in filter'[r]
                    /\ i \in shown'[r] \/ Place(i, filter[r])' > page'[r] * PageSize
<1>1. wanted[r] \subseteq 1..Len(log)
  BY DEF TypeOK
<1>2. ASSUME NEW i \in wanted'[r] \cap Stored'
      PROVE  i \in 1..Len(log) /\ i \in Stored /\ log'[i] = log[i]
  BY <1>1, <1>2, PlaceGrows
<1>3. ASSUME pc[r] \in {"answered", "more"}, NEW i \in wanted'[r] \cap Stored'
      PROVE  /\ log'[i].ok \in filter'[r]
             /\ i \in shown'[r] \/ Place(i, filter[r])' > page'[r] * PageSize
  <2>1. i \in wanted[r] \cap Stored /\ i \in 1..Len(log) /\ log'[i] = log[i]
    BY <1>2
  <2>2. log[i].ok \in filter[r] /\ (i \in shown[r] \/ Place(i, filter[r]) > page[r] * PageSize)
    BY <1>3, <2>1 DEF WalkInv, Ahead
  <2>3. ASSUME NEW f, f = filter[r]
        PROVE  Place(i, f) <= Place(i, f)'
    BY <2>1, PlaceGrows
  <2>4. ASSUME NEW f, f = filter[r]
        PROVE  Place(i, filter[r])' = Place(i, f)'
    BY <2>4 DEF Place, Newer, Matching, Stored
  <2>5. Place(i, filter[r]) \in Nat /\ page[r] * PageSize \in Nat
    BY PlaceBounded, SizesAssumption DEF TypeOK
  <2>6. Place(i, filter[r])' \in Nat
    <3>1. Newer(i, filter[r])' \in SUBSET (first'..Len(log'))
      BY DEF Newer, Matching, Stored
    <3>2. Len(log) \in Nat
      BY DEF TypeOK
    <3>3. Len(log') = Len(log) + 1 /\ first' \in Nat
      BY RecordFacts
    <3>4. first' \in Int /\ Len(log') \in Int
      BY <3>2, <3>3
    <3> QED
      BY <3>1, <3>4, FS_Interval, FS_Subset, FS_CardinalityType DEF Place
  <2>7. Place(i, filter[r]) <= Place(i, filter[r])'
    BY <2>3, <2>4
  <2> QED
    BY <2>1, <2>2, <2>5, <2>6, <2>7
<1> QED
  BY <1>2, <1>3

(* A page shows what lies next: what it leaves lies beyond it. *)
LEMMA PageShows ==
    ASSUME TypeOK, NEW r \in Reader, NEW p \in Nat \ {0}, NEW f, ReadPage(r, p, f),
           filter'[r] = f, wanted'[r] \subseteq 1..Len(log),
           Page(p, f) \subseteq shown'[r],
           \A i \in wanted'[r] \cap Stored :
               /\ log[i].ok \in f
               /\ i \in shown'[r] \/ Place(i, f) > (p - 1) * PageSize
    PROVE  Ahead(r)' /\ LastAnswer(r)' /\ WalkEnded(r)'
<1>1. /\ log' = log /\ first' = first /\ Stored' = Stored
      /\ pc'[r] = "answered" /\ page'[r] = p /\ total'[r] = Cardinality(Matching(f))
  BY DEF ReadPage, TypeOK, Stored
<1>2. ASSUME NEW i \in wanted'[r] \cap Stored, i \notin shown'[r]
      PROVE  /\ log[i].ok \in f
             /\ Place(i, f) > p * PageSize
             /\ Cardinality(Matching(f)) > p * PageSize
  <2>1. i \in Matching(f) /\ Place(i, f) > (p - 1) * PageSize
    BY <1>2 DEF Matching
  <2>2. i \notin Page(p, f)
    BY <1>2
  <2>3. ~(Place(i, f) <= p * PageSize)
    BY <2>1, <2>2 DEF Page
  <2>4. /\ Place(i, f) \in Nat /\ Place(i, f) <= Cardinality(Matching(f))
        /\ Cardinality(Matching(f)) \in Nat
    BY PlaceBounded, StoredFinite
  <2>5. p * PageSize \in Nat
    BY SizesAssumption
  <2> QED
    BY <1>2, <2>3, <2>4, <2>5
<1>3. \A i : Place(i, filter[r])' = Place(i, f)
  BY <1>1 DEF Place, Newer, Matching, Stored
<1>4. Ahead(r)'
  BY <1>1, <1>2, <1>3 DEF Ahead
<1>5. LastAnswer(r)'
  <2>1. p * PageSize \in Nat /\ Cardinality(Matching(f)) \in Nat
    BY SizesAssumption, StoredFinite
  <2> QED
    BY <1>1, <1>2, <2>1 DEF LastAnswer
<1>6. WalkEnded(r)'
  BY <1>1 DEF WalkEnded
<1> QED
  BY <1>4, <1>5, <1>6

(* A walk of another client changes nothing for this one. *)
LEMMA WalkOthers ==
    ASSUME WalkInv, NEW r \in Reader, log' = log, first' = first,
           pc'[r] = pc[r], filter'[r] = filter[r], page'[r] = page[r],
           total'[r] = total[r], wanted'[r] = wanted[r], shown'[r] = shown[r]
    PROVE  Ahead(r)' /\ LastAnswer(r)' /\ WalkEnded(r)'
<1>1. Stored' = Stored
  BY DEF Stored
<1>2. \A i : Place(i, filter[r])' = Place(i, filter[r])
  BY <1>1 DEF Place, Newer, Matching, Stored
<1> QED
  BY <1>1, <1>2 DEF WalkInv, Ahead, LastAnswer, WalkEnded

LEMMA WalkStep ==
    ASSUME TypeOK, WalkInv, [Next]_vars
    PROVE  WalkInv'
<1> SUFFICES ASSUME NEW r \in Reader
             PROVE  Ahead(r)' /\ LastAnswer(r)' /\ WalkEnded(r)'
  BY DEF WalkInv
<1>1. CASE Tick \/ UNCHANGED vars
  BY <1>1, WalkOthers DEF Tick, vars, walk
<1>2. ASSUME NEW ok \in BOOLEAN, Exchange(ok)
      PROVE  Ahead(r)' /\ LastAnswer(r)' /\ WalkEnded(r)'
  <2>1. Record(ok) /\ UNCHANGED walk
    BY <1>2 DEF Exchange
  <2>2. /\ wanted'[r] \cap Stored' \subseteq wanted[r] \cap Stored
        /\ pc[r] \in {"answered", "more"} =>
              \A i \in wanted'[r] \cap Stored' :
                  /\ log'[i].ok \in filter'[r]
                  /\ i \in shown'[r] \/ Place(i, filter[r])' > page'[r] * PageSize
    BY <2>1, WalkKept DEF walk
  <2> QED
    BY <2>1, <2>2 DEF walk, WalkInv, Ahead, LastAnswer, WalkEnded
<1>3. ASSUME NEW q \in Reader, NEW f \in Filter, FirstPage(q, f)
      PROVE  Ahead(r)' /\ LastAnswer(r)' /\ WalkEnded(r)'
  <2>1. CASE q = r
    <3>1. ReadPage(r, 1, f) /\ filter'[r] = f /\ wanted'[r] = Matching(f) /\ shown'[r] = Page(1, f)
      BY <1>3, <2>1 DEF FirstPage, TypeOK
    <3>2. wanted'[r] \subseteq 1..Len(log)
      BY <3>1 DEF Matching, Stored, TypeOK
    <3>3. ASSUME NEW i \in wanted'[r] \cap Stored
          PROVE  log[i].ok \in f /\ Place(i, f) > (1 - 1) * PageSize
      <4>1. i \in Matching(f)
        BY <3>1, <3>3
      <4>2. (1 - 1) * PageSize = 0
        BY SizesAssumption
      <4> QED
        BY <4>1, <4>2, PlacePositive DEF Matching
    <3> QED
      BY <3>1, <3>2, <3>3, PageShows
  <2>2. CASE q # r
    BY <1>3, <2>2, WalkOthers DEF FirstPage, ReadPage, TypeOK
  <2> QED
    BY <2>1, <2>2
<1>4. ASSUME NEW q \in Reader, NextPage(q)
      PROVE  Ahead(r)' /\ LastAnswer(r)' /\ WalkEnded(r)'
  <2>1. CASE q = r
    <3>1. /\ ReadPage(r, page[r] + 1, filter[r]) /\ filter'[r] = filter[r]
          /\ wanted'[r] = wanted[r] /\ pc[r] = "more"
          /\ shown'[r] = shown[r] \cup Page(page[r] + 1, filter[r])
      BY <1>4, <2>1 DEF NextPage, TypeOK
    <3>2. wanted'[r] \subseteq 1..Len(log) /\ page[r] + 1 \in Nat \ {0}
      BY <3>1 DEF TypeOK
    <3>3. (page[r] + 1) - 1 = page[r]
      BY DEF TypeOK
    <3>4. ASSUME NEW i \in wanted'[r] \cap Stored
          PROVE  /\ log[i].ok \in filter[r]
                 /\ i \in shown'[r] \/ Place(i, filter[r]) > ((page[r] + 1) - 1) * PageSize
      BY <3>1, <3>3, <3>4 DEF WalkInv, Ahead
    <3> QED
      BY <3>1, <3>2, <3>4, PageShows
  <2>2. CASE q # r
    BY <1>4, <2>2, WalkOthers DEF NextPage, ReadPage, TypeOK
  <2> QED
    BY <2>1, <2>2
<1>5. ASSUME NEW q \in Reader, Return(q)
      PROVE  Ahead(r)' /\ LastAnswer(r)' /\ WalkEnded(r)'
  <2>1. /\ Record(TRUE) /\ filter'[r] = filter[r] /\ page'[r] = page[r]
        /\ total'[r] = total[r] /\ wanted'[r] = wanted[r] /\ shown'[r] = shown[r]
    BY <1>5 DEF Return
  <2>2. /\ wanted'[r] \cap Stored' \subseteq wanted[r] \cap Stored
        /\ pc[r] \in {"answered", "more"} =>
              \A i \in wanted'[r] \cap Stored' :
                  /\ log'[i].ok \in filter'[r]
                  /\ i \in shown'[r] \/ Place(i, filter[r])' > page'[r] * PageSize
    BY <2>1, WalkKept
  <2>3. CASE q = r
    <3>1. /\ pc[r] = "answered"
          /\ pc'[r] = IF page[r] * PageSize >= total[r] THEN "done" ELSE "more"
      BY <1>5, <2>3 DEF Return, TypeOK
    <3> QED
      BY <2>1, <2>2, <3>1 DEF WalkInv, Ahead, LastAnswer, WalkEnded
  <2>4. CASE q # r
    <3>1. pc'[r] = pc[r]
      BY <1>5, <2>4 DEF Return, TypeOK
    <3> QED
      BY <2>1, <2>2, <3>1 DEF WalkInv, Ahead, LastAnswer, WalkEnded
  <2> QED
    BY <2>3, <2>4
<1> QED
  BY <1>1, <1>2, <1>3, <1>4, <1>5 DEF Next

(* A walk through the pages misses nothing that was and still is there,    *)
(* for any sizes, any number of clients and any traffic in between.        *)
THEOREM WalksComplete == Spec => []NoneSkipped
<1>1. Init => WalkInv
  BY DEF Init, WalkInv, Ahead, LastAnswer, WalkEnded
<1>2. TypeOK /\ WalkInv /\ [Next]_vars => WalkInv'
  BY WalkStep
<1>3. WalkInv => NoneSkipped
  BY DEF WalkInv, WalkEnded, NoneSkipped
<1> QED
  BY <1>1, <1>2, <1>3, TypesKept, PTL DEF Spec

-----------------------------------------------------------------------------
(* The log is in the order of its times, and the deque its longest end     *)
(* that fits.                                                              *)
Ordered ==
    /\ \A i, j \in 1..Len(log) : i <= j => log[i].at <= log[j].at
    /\ \A i \in 1..Len(log) : log[i].at <= now
Longest == first = IF Len(log) <= MaxLogs THEN 1 ELSE Len(log) - MaxLogs + 1

LEMMA Times ==
    ASSUME TypeOK
    PROVE  /\ Len(log) \in Nat /\ first \in Nat \ {0} /\ now \in Int
           /\ \A i \in 1..Len(log) : log[i].at \in Int
<1>1. \A i \in 1..Len(log) : log[i] \in Entry
  BY DEF TypeOK
<1>2. \A e \in Entry : e.at \in Int
  BY SizesAssumption DEF Entry
<1>3. Len(log) \in Nat /\ first \in Nat \ {0} /\ now \in Int
  BY SizesAssumption DEF TypeOK
<1> QED
  BY <1>1, <1>2, <1>3

LEMMA LogStep ==
    ASSUME TypeOK, Ordered, Longest, [Next]_vars
    PROVE  Ordered' /\ Longest'
<1>1. CASE Tick
  <2>1. now \in Int /\ now' = now + 1 /\ log' = log /\ first' = first
    BY <1>1 DEF Tick, TypeOK
  <2>2. \A i \in 1..Len(log) : log[i].at \in Int
    BY Times
  <2> QED
    BY <2>1, <2>2 DEF Ordered, Longest
<1>2. ASSUME NEW ok \in BOOLEAN, Record(ok), now' = now
      PROVE  Ordered' /\ Longest'
  <2>1. /\ Len(log') = Len(log) + 1
        /\ \A i \in 1..Len(log) : log'[i] = log[i]
        /\ log'[Len(log')] = [at |-> now, ok |-> ok]
    BY <1>2, RecordFacts
  <2>2. Len(log) \in Nat /\ now \in Int /\ first \in Nat /\ MaxLogs \in Nat
    BY SizesAssumption DEF TypeOK
  <2>3. log'[Len(log')].at = now
    BY <2>1
  <2>4. ASSUME NEW i \in 1..Len(log')
        PROVE  (i \in 1..Len(log) /\ log'[i] = log[i]) \/ i = Len(log')
    BY <2>1, <2>2
  <2>5. \A i \in 1..Len(log') : log'[i].at <= now
    BY <2>2, <2>3, <2>4 DEF Ordered
  <2>6. ASSUME NEW i \in 1..Len(log'), NEW j \in 1..Len(log'), i <= j
        PROVE  log'[i].at <= log'[j].at
    <3>1. CASE j = Len(log')
      BY <2>3, <2>5, <3>1
    <3>2. CASE j # Len(log')
      <4>1. i \in 1..Len(log) /\ j \in 1..Len(log)
        BY <2>1, <2>2, <2>6, <3>2
      <4> QED
        BY <2>1, <2>6, <4>1 DEF Ordered
    <3> QED
      BY <3>1, <3>2
  <2>7. first' = IF Len(log') - first + 1 > MaxLogs THEN first + 1 ELSE first
    BY <1>2 DEF Record
  <2>8. Longest'
    <3>1. CASE Len(log) < MaxLogs
      <4>1. first = 1
        BY <2>2, <3>1 DEF Longest
      <4>2. ~(Len(log') - first + 1 > MaxLogs) /\ Len(log') <= MaxLogs
        BY <2>1, <2>2, <3>1, <4>1
      <4> QED
        BY <2>7, <4>1, <4>2 DEF Longest
    <3>2. CASE Len(log) >= MaxLogs
      <4>1. first = Len(log) - MaxLogs + 1
        BY <2>2, <3>2 DEF Longest
      <4>2. first' = Len(log') - MaxLogs + 1 /\ ~(Len(log') <= MaxLogs)
        BY <2>1, <2>2, <2>7, <3>2, <4>1
      <4> QED
        BY <4>2 DEF Longest
    <3> QED
      BY <2>2, <3>1, <3>2
  <2> QED
    BY <1>2, <2>5, <2>6, <2>8 DEF Ordered
<1>3. ASSUME UNCHANGED <<now, log, first>>
      PROVE  Ordered' /\ Longest'
  BY <1>3 DEF Ordered, Longest
<1>4. ASSUME NEW ok \in BOOLEAN, Exchange(ok)
      PROVE  Ordered' /\ Longest'
  BY <1>2, <1>4 DEF Exchange
<1>5. ASSUME NEW r \in Reader, NEW f \in Filter, FirstPage(r, f)
      PROVE  Ordered' /\ Longest'
  BY <1>3, <1>5 DEF FirstPage, ReadPage
<1>6. ASSUME NEW r \in Reader, NextPage(r)
      PROVE  Ordered' /\ Longest'
  BY <1>3, <1>6 DEF NextPage, ReadPage
<1>7. ASSUME NEW r \in Reader, Return(r)
      PROVE  Ordered' /\ Longest'
  BY <1>2, <1>7 DEF Return
<1>8. CASE UNCHANGED vars
  BY <1>3, <1>8 DEF vars
<1> QED
  BY <1>1, <1>4, <1>5, <1>6, <1>7, <1>8 DEF Next

(* The deque and a window are both ends of the log: one holds the other. *)
LEMMA EndsNested ==
    ASSUME TypeOK, Ordered, Longest, NEW w \in Nat
    PROVE  InWindow(w) \subseteq Stored \/ Stored \subseteq InWindow(w)
<1>1. /\ Len(log) \in Nat /\ first \in Nat \ {0} /\ now \in Int
      /\ \A i \in 1..Len(log) : log[i].at \in Int
  BY Times
<1>2. SUFFICES ASSUME NEW i \in InWindow(w), i \notin Stored, NEW j \in Stored
               PROVE  j \in InWindow(w)
  OBVIOUS
<1>3. i \in 1..Len(log) /\ j \in 1..Len(log) /\ i <= j
  BY <1>1, <1>2 DEF InWindow, Stored
<1>4. log[i].at >= now - w /\ log[i].at <= log[j].at
  BY <1>2, <1>3 DEF InWindow, Ordered
<1> QED
  BY <1>1, <1>3, <1>4 DEF InWindow

LEMMA SummaryCounts ==
    ASSUME TypeOK, Ordered, Longest
    PROVE  SummaryExact
<1> SUFFICES ASSUME NEW w \in 0..MaxTime
             PROVE  Requests(w) = IF Cardinality(InWindow(w)) <= MaxLogs
                                  THEN Cardinality(InWindow(w)) ELSE MaxLogs
  BY DEF SummaryExact
<1>1. Len(log) \in Nat /\ MaxLogs \in Nat /\ w \in Nat
  BY SizesAssumption DEF TypeOK
<1>2. IsFiniteSet(Stored) /\ Cardinality(Stored) = Len(log) - first + 1
  BY StoredFinite
<1>3. /\ IsFiniteSet(InWindow(w)) /\ Cardinality(InWindow(w)) \in Nat
      /\ Cardinality(InWindow(w)) <= Len(log)
  <2>1. IsFiniteSet(1..Len(log)) /\ Cardinality(1..Len(log)) = Len(log)
    <3>1. Len(log) \in Int /\ 1 \in Int
      BY <1>1
    <3>2. /\ IsFiniteSet(1..Len(log))
          /\ Cardinality(1..Len(log)) = IF 1 > Len(log) THEN 0 ELSE Len(log) - 1 + 1
      BY <3>1, FS_Interval
    <3>3. CASE Len(log) = 0
      BY <3>2, <3>3
    <3>4. CASE Len(log) > 0
      <4>1. ~(1 > Len(log)) /\ Len(log) - 1 + 1 = Len(log)
        BY <1>1, <3>4
      <4> QED
        BY <3>2, <4>1
    <3> QED
      BY <1>1, <3>2, <3>3, <3>4
  <2>2. InWindow(w) \in SUBSET (1..Len(log))
    BY DEF InWindow
  <2> QED
    BY <2>1, <2>2, FS_Subset, FS_CardinalityType
<1>0. first \in Nat /\ Cardinality(Stored) \in Nat
  BY <1>2, FS_CardinalityType DEF TypeOK
<1>4. CASE InWindow(w) \subseteq Stored
  <2>1. Requests(w) = Cardinality(InWindow(w))
    <3>1. InWindow(w) \cap Stored = InWindow(w)
      BY <1>4
    <3> QED
      BY <3>1 DEF Requests
  <2>2. Cardinality(InWindow(w)) <= Cardinality(Stored)
    BY <1>2, <1>4, FS_Subset
  <2>3. Cardinality(Stored) <= MaxLogs
    BY <1>0, <1>1, <1>2 DEF Longest
  <2> QED
    BY <1>0, <1>1, <1>3, <2>1, <2>2, <2>3
<1>5. CASE Stored \subseteq InWindow(w)
  <2>1. Requests(w) = Cardinality(Stored)
    <3>1. InWindow(w) \cap Stored = Stored
      BY <1>5
    <3> QED
      BY <3>1 DEF Requests
  <2>2. Cardinality(Stored) <= Cardinality(InWindow(w))
    BY <1>3, <1>5, FS_Subset
  <2>3. CASE Len(log) <= MaxLogs
    BY <1>0, <1>1, <1>2, <1>3, <2>1, <2>2, <2>3 DEF Longest
  <2>4. CASE Len(log) > MaxLogs
    <3>1. first = Len(log) - MaxLogs + 1
      BY <1>1, <2>4 DEF Longest
    <3>2. Cardinality(Stored) = MaxLogs
      BY <1>0, <1>1, <1>2, <3>1
    <3> QED
      BY <1>1, <1>3, <2>1, <2>2, <3>2
  <2> QED
    BY <1>1, <2>3, <2>4
<1> QED
  BY <1>1, <1>4, <1>5, EndsNested

(* The summary of a window counts what ended in it, up to what the log     *)
(* holds, for any sizes and any traffic.                                   *)
THEOREM SummariesExact == Spec => []SummaryExact
<1>1. Init => Ordered /\ Longest
  BY SizesAssumption DEF Init, Ordered, Longest
<1>2. TypeOK /\ Ordered /\ Longest /\ [Next]_vars => Ordered' /\ Longest'
  BY LogStep
<1>3. TypeOK /\ Ordered /\ Longest => SummaryExact
  BY SummaryCounts
<1> QED
  BY <1>1, <1>2, <1>3, TypesKept, PTL DEF Spec
=============================================================================
