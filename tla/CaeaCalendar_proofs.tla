------------------------ MODULE CaeaCalendar_proofs ------------------------
(***************************************************************************)
(* The window bootstrap computes is the right one on every date, in every  *)
(* year, at every hour and for every offset of at most a day, from the     *)
(* clock in UTC alone; and the code of a fortnight is there when it begins, *)
(* for every outage and lead that leave bootstrap the time.                *)
(***************************************************************************)
EXTENDS CaeaCalendar, TLAPS

LEMMA DaysInBounds ==
  ASSUME NEW y \in Nat, NEW m \in 1..12
  PROVE  /\ DaysIn(y, m) \in 28..31
         /\ m = 12 => DaysIn(y, m) = 31
BY DEF DaysIn

(* The parts of a date. *)
Parts(y, m, n, k) ==
    /\ y \in Nat /\ m \in 1..12 /\ k \in 0..(Day - 1)
    /\ DaysIn(y, m) \in 28..31 /\ n \in 1..DaysIn(y, m)

LEMMA DateParts ==
  ASSUME NEW d \in Date
  PROVE  /\ d = At(d.year, d.month, d.day, d.tick)
         /\ Parts(d.year, d.month, d.day, d.tick)
<1>1. d \in [year : Nat, month : 1..12, day : 1..31, tick : 0..(Day - 1)]
      /\ d.day <= DaysIn(d.year, d.month)
  BY DEF Date
<1> QED
  BY <1>1, DaysInBounds DEF At, Parts

LEMMA DateMade ==
  ASSUME NEW y, NEW m, NEW n, NEW k, Parts(y, m, n, k)
  PROVE  /\ At(y, m, n, k) \in Date
         /\ At(y, m, n, k).year = y /\ At(y, m, n, k).month = m
         /\ At(y, m, n, k).day = n /\ At(y, m, n, k).tick = k
<1>1. At(y, m, n, k) \in [year : Nat, month : 1..12, day : 1..31, tick : 0..(Day - 1)]
  BY DEF At, Parts
<1>2. /\ At(y, m, n, k).year = y /\ At(y, m, n, k).month = m
      /\ At(y, m, n, k).day = n /\ At(y, m, n, k).tick = k
  BY DEF At
<1>3. n <= DaysIn(y, m)
  BY DEF Parts
<1> QED
  BY <1>1, <1>2, <1>3 DEF Date

(* The day after and the day before, in parts. *)
LEMMA NextParts ==
  ASSUME NEW y, NEW m, NEW n, NEW k, Parts(y, m, n, k)
  PROVE  /\ n < DaysIn(y, m) => NextDay(At(y, m, n, k)) = At(y, m, n + 1, k)
         /\ n = DaysIn(y, m) /\ m < 12 => NextDay(At(y, m, n, k)) = At(y, m + 1, 1, k)
         /\ n = DaysIn(y, m) /\ m = 12 => NextDay(At(y, m, n, k)) = At(y + 1, 1, 1, k)
<1> DEFINE d == At(y, m, n, k)
<1>1. d.year = y /\ d.month = m /\ d.day = n /\ d.tick = k
  BY DEF At
<1>2. n \in Int /\ DaysIn(y, m) \in Int /\ m \in Int
  BY DEF Parts
<1> HIDE DEF d
<1> QED
  BY <1>1, <1>2 DEF NextDay, d
LEMMA PreviousParts ==
  ASSUME NEW y, NEW m, NEW n, NEW k, Parts(y, m, n, k)
  PROVE  /\ n > 1 => PreviousDay(At(y, m, n, k)) = At(y, m, n - 1, k)
         /\ n = 1 /\ m > 1 => PreviousDay(At(y, m, n, k)) = At(y, m - 1, DaysIn(y, m - 1), k)
         /\ n = 1 /\ m = 1 => PreviousDay(At(y, m, n, k)) = At(y - 1, 12, 31, k)
<1> DEFINE d == At(y, m, n, k)
<1>1. d.year = y /\ d.month = m /\ d.day = n /\ d.tick = k
  BY DEF At
<1>2. n \in Int /\ m \in Int
  BY DEF Parts
<1> HIDE DEF d
<1> QED
  BY <1>1, <1>2 DEF PreviousDay, d
LEMMA TickParts ==
  ASSUME NEW y, NEW m, NEW n, NEW k, NEW j
  PROVE  [At(y, m, n, k) EXCEPT !.tick = j] = At(y, m, n, j)
BY DEF At

(* A day after d, at any hour, there is a date, and the day before it is   *)
(* the one it came from.                                                   *)
LEMMA NextDayRight ==
  ASSUME NEW d \in Date
  PROVE  \E y, m, n :
           \A k \in 0..(Day - 1) :
             /\ Parts(y, m, n, k)
             /\ NextDay([d EXCEPT !.tick = k]) = At(y, m, n, k)
             /\ PreviousDay(At(y, m, n, k)) = [d EXCEPT !.tick = k]
             /\ [d EXCEPT !.tick = k] \in Date
<1> DEFINE y == d.year  m == d.month  n == d.day
<1> HIDE DEF y, m, n
<1>1. ASSUME NEW k \in 0..(Day - 1)
      PROVE  Parts(y, m, n, k) /\ [d EXCEPT !.tick = k] = At(y, m, n, k)
  <2>1. d = At(y, m, n, d.tick) /\ Parts(y, m, n, d.tick)
    BY DateParts DEF y, m, n
  <2>2. [d EXCEPT !.tick = k] = At(y, m, n, k)
    BY <2>1, TickParts
  <2> QED
    BY <2>1, <2>2 DEF Parts
<1>2. y \in Nat /\ m \in 1..12 /\ n \in 1..DaysIn(y, m) /\ DaysIn(y, m) \in 28..31
  BY DateParts DEF Parts, y, m, n
<1>3. CASE n < DaysIn(y, m)
  <2> WITNESS y, m, n + 1
  <2> TAKE k \in 0..(Day - 1)
  <2>1. Parts(y, m, n + 1, k) /\ n + 1 > 1 /\ n + 1 - 1 = n
    BY <1>2, <1>3 DEF Parts
  <2>3. [d EXCEPT !.tick = k] = At(y, m, n, k) /\ Parts(y, m, n, k)
    BY <1>1
  <2>4. NextDay(At(y, m, n, k)) = At(y, m, n + 1, k)
    BY <1>3, <2>3, NextParts
  <2>5. PreviousDay(At(y, m, n + 1, k)) = At(y, m, n, k)
    <3>1. PreviousDay(At(y, m, n + 1, k)) = At(y, m, (n + 1) - 1, k)
      BY <2>1, PreviousParts
    <3>2. (n + 1) - 1 = n
      BY <1>2
    <3> QED
      BY <3>1, <3>2, Zenon
  <2> QED
    BY <2>1, <2>3, <2>4, <2>5, DateMade
<1>4. CASE n = DaysIn(y, m) /\ m < 12
  <2> WITNESS y, m + 1, 1
  <2> TAKE k \in 0..(Day - 1)
  <2>1. m + 1 \in 1..12 /\ m + 1 > 1 /\ m + 1 - 1 = m
    BY <1>2, <1>4
  <2>2. Parts(y, m + 1, 1, k)
    BY <1>2, <2>1, DaysInBounds DEF Parts
  <2>3. [d EXCEPT !.tick = k] = At(y, m, n, k) /\ Parts(y, m, n, k)
    BY <1>1
  <2>4. NextDay(At(y, m, n, k)) = At(y, m + 1, 1, k)
    BY <1>4, <2>3, NextParts
  <2>5. PreviousDay(At(y, m + 1, 1, k)) = At(y, m, n, k)
    <3>1. PreviousDay(At(y, m + 1, 1, k)) = At(y, (m + 1) - 1, DaysIn(y, (m + 1) - 1), k)
      BY <2>1, <2>2, PreviousParts
    <3>2. (m + 1) - 1 = m /\ DaysIn(y, m) = n
      BY <1>2, <1>4
    <3> QED
      BY <3>1, <3>2, Zenon
  <2> QED
    BY <2>1, <2>2, <2>3, <2>4, <2>5, DateMade
<1>5. CASE n = DaysIn(y, m) /\ m = 12
  <2> WITNESS y + 1, 1, 1
  <2> TAKE k \in 0..(Day - 1)
  <2>1. n = 31 /\ y + 1 - 1 = y
    BY <1>2, <1>5, DaysInBounds
  <2>2. Parts(y + 1, 1, 1, k)
    BY <1>2, DaysInBounds DEF Parts
  <2>3. [d EXCEPT !.tick = k] = At(y, m, n, k) /\ Parts(y, m, n, k)
    BY <1>1
  <2>4. NextDay(At(y, m, n, k)) = At(y + 1, 1, 1, k)
    BY <1>5, <2>3, NextParts
  <2>5. PreviousDay(At(y + 1, 1, 1, k)) = At(y, m, n, k)
    <3>1. PreviousDay(At(y + 1, 1, 1, k)) = At((y + 1) - 1, 12, 31, k)
      BY <2>1, <2>2, PreviousParts
    <3>2. (y + 1) - 1 = y /\ m = 12 /\ n = 31
      BY <1>2, <1>5, <2>1
    <3> QED
      BY <3>1, <3>2, Zenon
  <2> QED
    BY <2>1, <2>2, <2>3, <2>4, <2>5, DateMade
<1>6. n < DaysIn(y, m) \/ (n = DaysIn(y, m) /\ m < 12) \/ (n = DaysIn(y, m) /\ m = 12)
  BY <1>2
<1> QED
  BY <1>3, <1>4, <1>5, <1>6, Zenon

(* The day after a date, at another hour. *)
LEMMA NextAtHour ==
  ASSUME NEW d \in Date, NEW k \in 0..(Day - 1)
  PROVE  /\ [d EXCEPT !.tick = k] \in Date /\ [d EXCEPT !.tick = k].tick = k
         /\ NextDay([d EXCEPT !.tick = k]) = [NextDay(d) EXCEPT !.tick = k]
         /\ [NextDay(d) EXCEPT !.tick = k] \in Date
         /\ [NextDay(d) EXCEPT !.tick = k].tick = k
         /\ PreviousDay([NextDay(d) EXCEPT !.tick = k]) = [d EXCEPT !.tick = k]
<1>1. PICK y, m, n :
        \A i \in 0..(Day - 1) :
          /\ Parts(y, m, n, i)
          /\ NextDay([d EXCEPT !.tick = i]) = At(y, m, n, i)
          /\ PreviousDay(At(y, m, n, i)) = [d EXCEPT !.tick = i]
          /\ [d EXCEPT !.tick = i] \in Date
  BY NextDayRight
<1>2. d.tick \in 0..(Day - 1) /\ [d EXCEPT !.tick = d.tick] = d
  BY DateParts, TickParts DEF Parts
<1>3. NextDay(d) = At(y, m, n, d.tick)
  BY <1>1, <1>2, Zenon
<1>4. [NextDay(d) EXCEPT !.tick = k] = At(y, m, n, k)
  BY <1>3, TickParts
<1>5. At(y, m, n, k) \in Date /\ At(y, m, n, k).tick = k
  <2>1. Parts(y, m, n, k)
    BY <1>1, Zenon
  <2> QED
    BY <2>1, DateMade
<1>6. [d EXCEPT !.tick = k].tick = k
  BY <1>2, DateParts, TickParts DEF At
<1> QED
  BY <1>1, <1>4, <1>5, <1>6

LEMMA LaterParts ==
  ASSUME NEW d \in Date, NEW n \in 0..Day
  PROVE  /\ Later(d, n) \in Date
         /\ d.tick + n < Day => Later(d, n) = [d EXCEPT !.tick = d.tick + n]
         /\ d.tick + n >= Day => Later(d, n) = [NextDay(d) EXCEPT !.tick = d.tick + n - Day]
<1>1. d.tick \in 0..(Day - 1) /\ Day \in Nat \ {0}
  BY DateParts, DatesAssumption DEF Parts
<1>2. CASE d.tick + n < Day
  <2>1. Later(d, n) = [d EXCEPT !.tick = d.tick + n]
    BY <1>2 DEF Later
  <2>2. d.tick + n \in 0..(Day - 1) /\ ~(d.tick + n >= Day)
    BY <1>1, <1>2
  <2>3. [d EXCEPT !.tick = d.tick + n] \in Date
    BY <2>2, NextAtHour
  <2> QED
    BY <2>1, <2>2, <2>3, Zenon
<1>3. CASE d.tick + n >= Day
  <2>1. d.tick + n - Day \in 0..(Day - 1) /\ ~(d.tick + n < Day)
    BY <1>1, <1>3
  <2>2. Later(d, n) = [NextDay(d) EXCEPT !.tick = d.tick + n - Day]
    BY <2>1 DEF Later
  <2> QED
    BY <1>1, <2>1, <2>2, NextAtHour
<1> QED
  BY <1>1, <1>2, <1>3

(* The offset is undone exactly, over the end of a day, month or year. *)
LEMMA TimezoneRight ==
  ASSUME NEW d \in Date
  PROVE  AsTimezoneAr(Later(d, Offset)) = d
<1>1. /\ d.tick \in 0..(Day - 1) /\ Day \in Nat \ {0} /\ Offset \in 0..Day
      /\ [d EXCEPT !.tick = d.tick] = d
  BY DateParts, DatesAssumption, TickParts DEF Parts
<1>2. CASE d.tick + Offset < Day
  <2> DEFINE k == d.tick + Offset
             e == [d EXCEPT !.tick = k]
  <2>1. k \in 0..(Day - 1) /\ k >= Offset /\ k - Offset = d.tick
    BY <1>1, <1>2
  <2>2. Later(d, Offset) = e /\ e.tick = k
    BY <1>1, <1>2, <2>1, LaterParts, NextAtHour
  <2>3. [e EXCEPT !.tick = d.tick] = d
    BY <1>1, DateParts, TickParts
  <2>4. AsTimezoneAr(e) = [e EXCEPT !.tick = k - Offset]
    BY <2>1, <2>2 DEF AsTimezoneAr
  <2> QED
    BY <2>1, <2>2, <2>3, <2>4, Zenon
<1>3. CASE d.tick + Offset >= Day
  <2> DEFINE k == d.tick + Offset - Day
             e == [NextDay(d) EXCEPT !.tick = k]
  <2>1. k \in 0..(Day - 1) /\ ~(k >= Offset) /\ k - Offset + Day = d.tick
    BY <1>1, <1>3
  <2>2. Later(d, Offset) = e /\ e.tick = k /\ PreviousDay(e) = [d EXCEPT !.tick = k]
    BY <1>1, <1>3, <2>1, LaterParts, NextAtHour
  <2>3. [[d EXCEPT !.tick = k] EXCEPT !.tick = d.tick] = d
    BY <1>1, DateParts, TickParts
  <2>4. AsTimezoneAr(e) = [PreviousDay(e) EXCEPT !.tick = k - Offset + Day]
    BY <2>1, <2>2 DEF AsTimezoneAr
  <2> QED
    BY <2>1, <2>2, <2>3, <2>4, Zenon
<1> QED
  BY <1>1, <1>2, <1>3

LEMMA NextIsDate ==
  ASSUME NEW d \in Date
  PROVE  NextDay(d) \in Date /\ NextDay(d) = [NextDay(d) EXCEPT !.tick = d.tick]
<1>1. d.tick \in 0..(Day - 1) /\ [d EXCEPT !.tick = d.tick] = d
  BY DateParts, TickParts DEF Parts
<1>2. NextDay([d EXCEPT !.tick = d.tick]) = [NextDay(d) EXCEPT !.tick = d.tick]
  BY <1>1, NextAtHour
<1>3. [NextDay(d) EXCEPT !.tick = d.tick] \in Date
  BY <1>1, NextAtHour
<1> QED
  BY <1>1, <1>2, <1>3

(* The same, from an hour k of the day of d. *)
LEMMA LaterFrom ==
  ASSUME NEW d \in Date, NEW k \in 0..(Day - 1), NEW n \in 0..Day
  PROVE  /\ k + n < Day => Later([d EXCEPT !.tick = k], n) = [d EXCEPT !.tick = k + n]
         /\ k + n >= Day => Later([d EXCEPT !.tick = k], n)
                              = [NextDay(d) EXCEPT !.tick = k + n - Day]
<1> DEFINE e == [d EXCEPT !.tick = k]
<1>1. /\ e \in Date /\ e.tick = k /\ NextDay(e) = [NextDay(d) EXCEPT !.tick = k]
  BY NextAtHour
<1>2. \A j : /\ [e EXCEPT !.tick = j] = [d EXCEPT !.tick = j]
             /\ [NextDay(e) EXCEPT !.tick = j] = [NextDay(d) EXCEPT !.tick = j]
  <2> TAKE j
  <2>1. NextDay(d) = [NextDay(d) EXCEPT !.tick = d.tick] /\ NextDay(d) \in Date
    BY NextIsDate
  <2>2. [e EXCEPT !.tick = j] = [d EXCEPT !.tick = j]
    BY DateParts, TickParts
  <2>3. [[NextDay(d) EXCEPT !.tick = k] EXCEPT !.tick = j] = [NextDay(d) EXCEPT !.tick = j]
    BY <2>1, DateParts, TickParts
  <2> QED
    BY <1>1, <2>2, <2>3
<1> HIDE DEF e
<1>3. /\ k + n < Day => Later(e, n) = [e EXCEPT !.tick = k + n]
      /\ k + n >= Day => Later(e, n) = [NextDay(e) EXCEPT !.tick = k + n - Day]
  BY <1>1, LaterParts
<1> QED
  BY <1>2, <1>3 DEF e

(* Two clocks that run alike stay as far apart as they are. *)
LEMMA ClocksTogether ==
  ASSUME NEW d \in Date
  PROVE  Later(Later(d, Offset), 1) = Later(Later(d, 1), Offset)
<1> DEFINE k == d.tick
           N == NextDay(d)
           H(x, i) == [x EXCEPT !.tick = i]
<1>1. d \in Date /\ k \in 0..(Day - 1) /\ Day \in Nat \ {0} /\ Offset \in 0..Day /\ 1 \in 0..Day
  BY DateParts, DatesAssumption DEF Parts
<1>2. d = H(d, k)
  BY DateParts, TickParts
<1>3. N \in Date
  BY NextIsDate
<1>4. \A x \in Date, i \in 0..(Day - 1), n \in 0..Day :
        /\ i + n < Day => Later(H(x, i), n) = H(x, i + n)
        /\ i + n >= Day => Later(H(x, i), n) = H(NextDay(x), i + n - Day)
  BY LaterFrom
<1>5. Later(Later(H(d, k), Offset), 1) = Later(Later(H(d, k), 1), Offset)
  <2> HIDE DEF k, N, H
  <2>1. CASE k + Offset < Day
    <3>1. k + Offset \in 0..(Day - 1) /\ Later(H(d, k), Offset) = H(d, k + Offset)
      BY <1>1, <1>4, <2>1
    <3>2. CASE k + 1 < Day
      <4>1. k + 1 \in 0..(Day - 1) /\ Later(H(d, k), 1) = H(d, k + 1)
        BY <1>1, <1>4, <3>2
      <4> QED
        BY <1>1, <1>4, <3>1, <4>1
    <3>3. CASE k + 1 >= Day
      <4>1. k + 1 = Day /\ Offset = 0
        BY <1>1, <2>1, <3>3
      <4>2. Later(H(d, k), 1) = H(N, 0)
        BY <1>1, <1>4, <4>1 DEF N
      <4>3. Later(H(N, 0), Offset) = H(N, 0)
        BY <1>1, <1>3, <1>4, <4>1
      <4> QED
        BY <1>1, <3>1, <4>1, <4>2, <4>3
    <3> QED
      BY <1>1, <3>2, <3>3
  <2>2. CASE k + Offset >= Day
    <3>1. k + Offset - Day \in 0..(Day - 1) /\ Later(H(d, k), Offset) = H(N, k + Offset - Day)
      BY <1>1, <1>4, <2>2 DEF N
    <3>2. CASE k + 1 < Day
      <4>1. k + 1 \in 0..(Day - 1) /\ Later(H(d, k), 1) = H(d, k + 1)
        BY <1>1, <1>4, <3>2
      <4>2. Later(H(d, k + 1), Offset) = H(N, k + 1 + Offset - Day)
        BY <1>1, <1>4, <2>2, <4>1 DEF N
      <4>3. k + Offset - Day + 1 < Day /\ (k + Offset - Day) + 1 = k + 1 + Offset - Day
        BY <1>1, <2>2, <3>2
      <4> QED
        BY <1>1, <1>3, <1>4, <3>1, <4>1, <4>2, <4>3
    <3>3. CASE k + 1 >= Day
      <4>1. k + 1 = Day /\ (k + Offset - Day) + 1 = 0 + Offset
        BY <1>1, <3>3
      <4>2. Later(H(d, k), 1) = H(N, 0)
        BY <1>1, <1>4, <4>1 DEF N
      <4>3. Later(H(N, k + Offset - Day), 1) = Later(H(N, 0), Offset)
        BY <1>1, <1>3, <1>4, <3>1, <4>1
      <4> QED
        BY <3>1, <4>2, <4>3
    <3> QED
      BY <1>1, <3>2, <3>3
  <2> QED
    BY <1>1, <2>1, <2>2
<1> QED
  BY <1>2, <1>5

-----------------------------------------------------------------------------
(* The fortnights around a date, in the order of time. *)
LEMMA CyclesOfDate ==
  ASSUME NEW d \in Date
  PROVE  LET f == Fortnight(d)
             p == d.year * 100 + d.month
             r == MonthRoll(d.year, d.month)
         IN  /\ f \in Nat
             /\ CycleOf(f) = <<p, IF d.day <= 15 THEN 1 ELSE 2>>
             /\ d.day <= 15 => CycleOf(f + 1) = <<p, 2>>
             /\ d.day > 15 => CycleOf(f + 1) = <<r[1] * 100 + r[2], 1>>
<1> DEFINE y == d.year  m == d.month
<1>1. y \in Nat /\ m \in 1..12 /\ d.day \in Nat
  BY DateParts DEF Parts
<1> HIDE DEF y, m
<1>2. CASE d.day <= 15
  <2> DEFINE f == 24 * y + 2 * (m - 1)
  <2>1. Fortnight(d) = f
    BY <1>1, <1>2 DEF Fortnight, y, m
  <2>2. /\ f \in Nat /\ f \div 24 = y /\ f % 24 = 2 * (m - 1) /\ f % 2 = 0
        /\ (f + 1) \div 24 = y /\ (f + 1) % 24 = 2 * (m - 1) + 1 /\ (f + 1) % 2 = 1
    BY <1>1
  <2>3. (2 * (m - 1)) \div 2 = m - 1 /\ (2 * (m - 1) + 1) \div 2 = m - 1
    BY <1>1
  <2>4. CycleOf(f) = <<y * 100 + m, 1>> /\ CycleOf(f + 1) = <<y * 100 + m, 2>>
    <3> HIDE DEF f
    <3> QED
      BY <1>1, <2>2, <2>3 DEF CycleOf
  <2> QED
    BY <1>1, <1>2, <2>1, <2>2, <2>4 DEF y, m
<1>3. CASE d.day > 15
  <2> DEFINE f == 24 * y + 2 * (m - 1) + 1
             r == MonthRoll(y, m)
  <2>1. Fortnight(d) = f
    BY <1>1, <1>3 DEF Fortnight, y, m
  <2>2. f \in Nat /\ f \div 24 = y /\ f % 24 = 2 * (m - 1) + 1 /\ f % 2 = 1 /\ (f + 1) % 2 = 0
    BY <1>1
  <2>3. (2 * (m - 1) + 1) \div 2 = m - 1 /\ (2 * m) \div 2 = m /\ 0 \div 2 = 0
    BY <1>1
  <2>4. m < 12 => (f + 1) \div 24 = y /\ (f + 1) % 24 = 2 * m
    BY <1>1
  <2>5. m = 12 => (f + 1) \div 24 = y + 1 /\ (f + 1) % 24 = 0
    BY <1>1
  <2>6. CycleOf(f) = <<y * 100 + m, 2>>
    <3> HIDE DEF f
    <3> QED
      BY <1>1, <2>2, <2>3 DEF CycleOf
  <2>7. CycleOf(f + 1) = <<r[1] * 100 + r[2], 1>>
    <3>1. CASE m < 12
      <4>1. r = <<y, m + 1>> /\ r[1] = y /\ r[2] = m + 1
        BY <1>1, <3>1 DEF MonthRoll
      <4> HIDE DEF f, r
      <4> QED
        BY <1>1, <2>2, <2>3, <2>4, <3>1, <4>1 DEF CycleOf
    <3>2. CASE m = 12
      <4>1. r = <<y + 1, 1>> /\ r[1] = y + 1 /\ r[2] = 1
        BY <1>1, <3>2 DEF MonthRoll
      <4> HIDE DEF f, r
      <4> QED
        BY <1>1, <2>2, <2>3, <2>5, <3>2, <4>1 DEF CycleOf
    <3> QED
      BY <1>1, <3>1, <3>2
  <2>8. ~(d.day <= 15)
    BY <1>1, <1>3
  <2> HIDE DEF f
  <2> QED
    BY <2>1, <2>2, <2>6, <2>7, <2>8, Zenon DEF y, m
<1> QED
  BY <1>1, <1>2, <1>3

(* resolve_current_and_next_cycles finds the fortnight of the date in      *)
(* Argentina and the next one, and they are periods there can be.          *)
LEMMA CyclesResolved ==
  ASSUME NEW d \in Date
  PROVE  /\ ResolveCycles(Later(d, Offset))
                = <<CycleOf(Fortnight(d)), CycleOf(Fortnight(d) + 1)>>
         /\ CycleOf(Fortnight(d)) \in Cycle /\ CycleOf(Fortnight(d) + 1) \in Cycle
<1> DEFINE p == d.year * 100 + d.month
           r == MonthRoll(d.year, d.month)
<1>1. d.year \in Nat /\ d.month \in 1..12 /\ d.day \in Nat
  BY DateParts DEF Parts
<1>2. r[1] \in Nat /\ r[2] \in 1..12
  BY <1>1 DEF MonthRoll
<1>3. \A y \in Nat, m \in 1..12, o \in {1, 2} : <<y * 100 + m, o>> \in Cycle
  BY DEF Cycle
<1>4. AsTimezoneAr(Later(d, Offset)) = d
  BY TimezoneRight
<1> HIDE DEF r
<1>5. CASE d.day <= 15
  <2>1. ResolveCycles(Later(d, Offset)) = <<<<p, 1>>, <<p, 2>>>>
    BY <1>4, <1>5 DEF ResolveCycles
  <2>2. CycleOf(Fortnight(d)) = <<p, 1>> /\ CycleOf(Fortnight(d) + 1) = <<p, 2>>
    BY <1>5, CyclesOfDate
  <2> QED
    BY <1>1, <1>3, <2>1, <2>2
<1>6. CASE d.day > 15
  <2>1. ~(d.day <= 15)
    BY <1>1, <1>6
  <2>2. ResolveCycles(Later(d, Offset)) = <<<<p, 2>>, <<r[1] * 100 + r[2], 1>>>>
    BY <1>4, <2>1 DEF ResolveCycles, r
  <2>3. CycleOf(Fortnight(d)) = <<p, 2>> /\ CycleOf(Fortnight(d) + 1) = <<r[1] * 100 + r[2], 1>>
    BY <1>6, <2>1, CyclesOfDate DEF r
  <2> QED
    BY <1>1, <1>2, <1>3, <2>2, <2>3
<1> QED
  BY <1>1, <1>5, <1>6

Inv == TypeOK /\ Synchronous

LEMMA InitInv == Init => Inv
<1> SUFFICES ASSUME Init PROVE Inv
  OBVIOUS
<1>1. ar \in Date /\ utc \in Date /\ utc = Later(ar, Offset)
  BY DatesAssumption, LaterParts DEF Init
<1>2. DOMAIN job \subseteq Cycle /\ job \in [DOMAIN job -> JobState]
  BY DEF Init, JobState
<1>3. age \in 0..MaxTicks /\ wait \in 0..Period /\ missed \in 0..MaxMissed
  BY BoundsAssumption DEF Init
<1>4. Recovery \in Nat
  BY BoundsAssumption DEF Recovery
<1>5. down \in 0..MaxOutage /\ calm \in 0..Recovery
  BY <1>4, BoundsAssumption DEF Init
<1> QED
  BY <1>1, <1>2, <1>3, <1>5 DEF Inv, TypeOK, Synchronous

LEMMA NextInv == Inv /\ [Next]_vars => Inv'
<1> SUFFICES ASSUME Inv, [Next]_vars PROVE Inv'
  OBVIOUS
<1>1. CASE Bootstrap
  <2>1. Window \subseteq Cycle
    BY CyclesResolved DEF Inv, TypeOK, Synchronous, Window
  <2>2. DOMAIN job' = DOMAIN job \cup Window /\ job' \in [DOMAIN job' -> JobState]
    <3> DEFINE S == DOMAIN job \cup Window
    <3>1. job' = [c \in S |-> IF c \in Window /\ ToQueue(c) THEN "due" ELSE job[c]]
      BY <1>1 DEF Bootstrap, EnsureCycles
    <3>2. ASSUME NEW c \in S
          PROVE  (IF c \in Window /\ ToQueue(c) THEN "due" ELSE job[c]) \in JobState
      BY <3>2 DEF ToQueue, JobState, Inv, TypeOK
    <3> HIDE DEF S
    <3> QED
      BY <3>1, <3>2 DEF S
  <2> QED
    BY <1>1, <2>1, <2>2, BoundsAssumption DEF Bootstrap, Inv, TypeOK, Synchronous
<1>2. CASE MissBootstrap
  BY <1>2, BoundsAssumption DEF MissBootstrap, Inv, TypeOK, Synchronous
<1>3. CASE Tick
  <2>1. 1 \in 0..Day
    BY DatesAssumption
  <2>2. ar' \in Date /\ utc' \in Date
    BY <1>3, <2>1, LaterParts DEF Tick, Inv, TypeOK
  <2>3. utc' = Later(ar', Offset)
    BY <1>3, ClocksTogether DEF Tick, Inv, TypeOK, Synchronous
  <2>4. DOMAIN job' = DOMAIN job /\ job' \in [DOMAIN job' -> JobState]
    BY <1>3 DEF Tick, Inv, TypeOK, JobState
  <2>5. Recovery \in Nat \ {0}
    BY BoundsAssumption DEF Recovery
  <2>6. down' \in 0..MaxOutage /\ calm' \in 0..Recovery
    BY <1>3, <2>5, BoundsAssumption DEF Tick, Calls, Inv, TypeOK
  <2>7. age' \in 0..MaxTicks /\ wait' \in 0..Period /\ missed' \in 0..MaxMissed
    BY <1>3, BoundsAssumption DEF Tick, Inv, TypeOK
  <2> QED
    BY <2>2, <2>3, <2>4, <2>6, <2>7 DEF Inv, TypeOK, Synchronous
<1>4. ASSUME NEW c \in DOMAIN job, Attempt(c) PROVE Inv'
  <2>1. DOMAIN job' = DOMAIN job /\ job' \in [DOMAIN job' -> JobState]
    BY <1>4 DEF Attempt, Outcome, Inv, TypeOK, JobState
  <2> QED
    BY <1>4, <2>1 DEF Attempt, Inv, TypeOK, Synchronous
<1>5. CASE UNCHANGED vars
  BY <1>5 DEF vars, Inv, TypeOK, Synchronous
<1> QED
  BY <1>1, <1>2, <1>3, <1>4, <1>5 DEF Next

(* The clocks stay Offset apart, and the types are kept. *)
THEOREM Invariant == Spec => []Inv
BY InitInv, NextInv, PTL DEF Spec

(* The type invariant the run checks: no job is ever made for a month that *)
(* does not exist.                                                         *)
THEOREM TypesKept == Spec => []TypeOK
BY Invariant, PTL DEF Inv

(* On every day of every year and at every hour, the window bootstrap      *)
(* ensures is the fortnight Argentina is in and the one that follows.      *)
THEOREM WindowAlwaysExact == Spec => []WindowExact
<1>1. Inv => WindowExact
  BY CyclesResolved DEF Inv, TypeOK, Synchronous, WindowExact
<1> QED
  BY <1>1, Invariant, PTL

-----------------------------------------------------------------------------
(***************************************************************************)
(* CodeInTime.  A fortnight without its code is followed from the tick in  *)
(* which AFIP opens it, or from the start of the service.                  *)
(*                                                                         *)
(* The window has to hold an outage and a run of bootstrap before it and   *)
(* after it.  The shortest fortnight, the second of a February, is of      *)
(* thirteen days, and the window is no longer than the fortnight before.   *)
(***************************************************************************)
InTime ==
    /\ Slack + Recovery - 1 <= Lead * Day
    /\ Slack + Recovery - 1 <= 13 * Day

Smaller(a, b) == IF a <= b THEN a ELSE b

Current == CycleOf(Fortnight(ar))
Following == CycleOf(Fortnight(ar) + 1)

(* Ticks from a date to the next fortnight, and since that one was opened. *)
Length(d) == IF d.day <= 15 THEN 15 ELSE DaysIn(d.year, d.month) - 15
ToNext(d) == ((IF d.day <= 15 THEN 15 ELSE DaysIn(d.year, d.month)) + 1 - d.day) * Day - d.tick
Opened(d) == Smaller(Lead, Length(d)) * Day - ToNext(d)

(* Ticks until a run of bootstrap that cannot be dropped: the next one,    *)
(* and one more for every run that still can; the first run cannot.        *)
Certain(a, w, m) == IF a = 0 /\ w = 0 THEN 0 ELSE w + (MaxMissed - m) * Period

(* Ticks until the job of an open fortnight is tried for certain. *)
Ready(c) == c \in DOMAIN job /\ Due(c)
Until(c) == IF Ready(c) THEN 0 ELSE Certain(age, wait, missed)

(* How long, in an outage of d ticks or k ticks after one, a fortnight can *)
(* have been without its code that will be tried in n ticks: an outage     *)
(* finds it no later than a run of bootstrap after it was opened, and once *)
(* the outage is over it waits for no more than another.                   *)
Bounded(x, n, d, k) ==
    IF d > 0 THEN x <= d + Recovery - 2
    ELSE /\ x <= MaxOutage + Recovery - 2 + k
         /\ n <= Recovery - k \/ x + n <= Recovery - 1

(* A service that starts is as far as one that has waited for bootstrap.   *)
Awaited == age + Recovery - 1

Late ==
    /\ down = 0 => calm >= 1
    /\ \A c \in DOMAIN job : job[c] = "tried" => down > 0
    /\ ~ActiveCaea(Current) => Bounded(Awaited, Until(Current), down, calm)
    /\ Opened(ar) >= 0 /\ ~ActiveCaea(Following)
          => Bounded(Smaller(Awaited, Opened(ar)), Until(Following), down, calm)

LEMMA RecoveryBounds ==
  /\ Recovery \in Nat \ {0} /\ Period \in Nat \ {0} /\ MaxOutage \in Nat /\ MaxMissed \in Nat
  /\ Recovery = MaxMissed * Period + Period
<1>1. Period \in Nat \ {0} /\ MaxMissed \in Nat /\ MaxOutage \in Nat
  BY BoundsAssumption
<1>2. (MaxMissed + 1) * Period = MaxMissed * Period + Period /\ MaxMissed * Period \in Nat
  BY <1>1
<1> QED
  BY <1>1, <1>2 DEF Recovery

LEMMA CertainBounds ==
  ASSUME NEW a \in Nat, NEW w \in 0..Period, NEW m \in 0..MaxMissed
  PROVE  /\ Certain(a, w, m) \in 0..Recovery
         /\ w > 0 => Certain(a, w, m) >= 1 /\ Certain(a + 1, w - 1, m) = Certain(a, w, m) - 1
         /\ w = 0 /\ a > 0 /\ m < MaxMissed => Certain(a, Period, m + 1) = Certain(a, w, m)
<1> DEFINE r == (MaxMissed - m) * Period
<1>1. /\ Recovery \in Nat \ {0} /\ Period \in Nat \ {0} /\ MaxMissed \in Nat
      /\ Recovery = MaxMissed * Period + Period
  BY RecoveryBounds
<1>2. r = MaxMissed * Period - m * Period
  BY <1>1
<1>3. m * Period \in Nat /\ MaxMissed * Period \in Nat
  BY <1>1
<1>4. r \in Nat
  BY <1>1
<1>5. m < MaxMissed => (MaxMissed - (m + 1)) * Period = r - Period
  BY <1>1
<1> HIDE DEF r
<1> QED
  BY <1>1, <1>2, <1>3, <1>4, <1>5 DEF Certain, r

(* Trying a job sooner breaks nothing. *)
LEMMA BoundedSooner ==
  ASSUME NEW x \in Int, NEW n \in Int, NEW i \in Int, i <= n, NEW d \in Nat, NEW k \in Nat,
         Bounded(x, n, d, k)
  PROVE  Bounded(x, i, d, k)
BY RecoveryBounds DEF Bounded

(* A tick: the outages go on as Calls says. *)
LEMMA BoundedTick ==
  ASSUME NEW x \in Int, NEW n \in 1..Recovery, TypeOK, down = 0 => calm >= 1, Calls,
         Bounded(x, n, down, calm)
  PROVE  Bounded(x + 1, n - 1, down', calm')
<1>1. down \in 0..MaxOutage /\ calm \in 0..Recovery
  BY DEF TypeOK
<1>2. CASE down = 0 /\ down' = 0 /\ calm' = IF calm < Recovery THEN calm + 1 ELSE calm
  BY <1>1, <1>2, RecoveryBounds DEF Bounded
<1>3. CASE down = 0 /\ calm = Recovery /\ MaxOutage > 0 /\ down' = 1 /\ calm' = 0
  BY <1>1, <1>3, RecoveryBounds DEF Bounded
<1>4. CASE down \in 1..(MaxOutage - 1) /\ down' = down + 1 /\ UNCHANGED calm
  BY <1>1, <1>4, RecoveryBounds DEF Bounded
<1>5. CASE down > 0 /\ down' = 0 /\ calm' = 1
  BY <1>1, <1>5, RecoveryBounds DEF Bounded
<1> QED
  BY <1>2, <1>3, <1>4, <1>5 DEF Calls

(* A fortnight that is opened, or that the service starts with. *)
LEMMA BoundedAtFirst ==
  ASSUME NEW x \in Int, NEW n \in Int, NEW d \in 0..MaxOutage, NEW k \in 0..Recovery,
         d = 0 => k >= 1, x <= Recovery - 1, x + n <= Recovery - 1, d = 0 \/ x <= d + Recovery - 2
  PROVE  Bounded(x, n, d, k)
BY RecoveryBounds DEF Bounded

(* Nothing is without its code as long as the window is. *)
LEMMA BoundedEnds ==
  ASSUME NEW x \in Int, NEW n \in Int, NEW d \in 0..MaxOutage, NEW k \in 0..Recovery,
         Bounded(x, n, d, k)
  PROVE  /\ x <= Slack + Recovery - 2
         /\ n >= 1 => x < Slack + Recovery - 2
<1> USE RecoveryBounds
<1> QED
  BY DEF Bounded, Slack

LEMMA SmallerBounds ==
  ASSUME NEW a \in Int, NEW b \in Int
  PROVE  Smaller(a, b) \in Int /\ Smaller(a, b) <= a /\ Smaller(a, b) <= b
BY DEF Smaller

(* A tick on the calendar. *)
LEMMA OnTheClock ==
  ASSUME NEW d \in Date
  PROVE  LET e == Later(d, 1)
             w == Smaller(Lead, Length(d)) * Day
         IN  /\ ToNext(d) \in Nat \ {0} /\ Fortnight(d) \in Nat /\ Opened(d) \in Int
             /\ ToNext(d) > 1 => Fortnight(e) = Fortnight(d) /\ Opened(e) = Opened(d) + 1
             /\ ToNext(d) = 1 => /\ Fortnight(e) = Fortnight(d) + 1
                                 /\ Opened(d) = w - 1 /\ Opened(e) <= 0
<1> DEFINE y == d.year  m == d.month  n == d.day  k == d.tick
           Last == IF n <= 15 THEN 15 ELSE DaysIn(y, m)
           e == Later(d, 1)
<1>1. /\ d = At(y, m, n, k) /\ y \in Nat /\ m \in 1..12 /\ k \in 0..(Day - 1)
      /\ DaysIn(y, m) \in 28..31 /\ n \in 1..DaysIn(y, m) /\ Day \in Nat \ {0} /\ Lead \in Nat
      /\ Parts(y, m, n, k)
  BY DateParts, DatesAssumption, BoundsAssumption DEF Parts
<1>2. Lead \in Int /\ Length(d) \in Int /\ Smaller(Lead, Length(d)) \in Int
  <2>1. Lead \in Int /\ Length(d) \in Int
    BY <1>1 DEF Length
  <2> QED
    BY <2>1, SmallerBounds, Zenon
<1>3. ToNext(d) = (Last + 1 - n) * Day - k
  BY DEF ToNext
<1>4. Last + 1 - n \in 1..16 /\ Length(d) \in 13..16
  BY <1>1 DEF Length
<1>5. (Last + 1 - n) * Day \in Nat /\ (Last + 1 - n) * Day >= Day
  BY <1>1, <1>4
<1>13. Smaller(Lead, Length(d)) * Day \in Int
  BY <1>1, <1>2
<1>6. ToNext(d) \in Nat \ {0} /\ Opened(d) \in Int
  <2>1. ToNext(d) \in Nat \ {0}
    BY <1>1, <1>3, <1>5
  <2> QED
    BY <2>1, <1>13 DEF Opened
<1>7. Fortnight(d) \in Nat
  BY CyclesOfDate
<1>8. 1 \in 0..Day
  BY <1>1
<1>9. CASE k + 1 < Day
  <2>1. e = At(y, m, n, k + 1)
    BY <1>1, <1>8, <1>9, LaterParts, TickParts
  <2>2. e.year = y /\ e.month = m /\ e.day = n /\ e.tick = k + 1
    BY <2>1 DEF At
  <2>3. Fortnight(e) = Fortnight(d) /\ Length(e) = Length(d)
    BY <2>2 DEF Fortnight, Length
  <2>4. ToNext(e) = (Last + 1 - n) * Day - (k + 1)
    BY <2>2 DEF ToNext
  <2>6. Opened(e) = Opened(d) + 1
    BY <1>1, <1>3, <1>5, <1>13, <2>3, <2>4 DEF Opened
  <2>7. ToNext(d) # 1
    BY <1>1, <1>3, <1>5, <1>9
  <2> QED
    BY <1>6, <1>7, <2>3, <2>6, <2>7
<1>10. CASE k + 1 = Day /\ n < Last
  <2>1. e = At(y, m, n + 1, 0)
    <3>1. e = [NextDay(d) EXCEPT !.tick = 0] /\ n < DaysIn(y, m)
      BY <1>1, <1>8, <1>10, LaterParts
    <3>2. NextDay(d) = At(y, m, n + 1, k)
      BY <1>1, <3>1, NextParts
    <3> QED
      BY <3>1, <3>2, TickParts
  <2>2. e.year = y /\ e.month = m /\ e.day = n + 1 /\ e.tick = 0
    BY <2>1 DEF At
  <2>3. Fortnight(e) = Fortnight(d) /\ Length(e) = Length(d)
    BY <1>1, <1>10, <2>2 DEF Fortnight, Length
  <2>4. ToNext(e) = (Last + 1 - (n + 1)) * Day - 0
    BY <1>1, <1>10, <2>2 DEF ToNext
  <2>5. (Last + 1 - (n + 1)) * Day = (Last + 1 - n) * Day - Day
    BY <1>1, <1>4
  <2>7. Opened(e) = Opened(d) + 1
    BY <1>1, <1>3, <1>5, <1>10, <1>13, <2>3, <2>4, <2>5 DEF Opened
  <2>8. (Last + 1 - (n + 1)) * Day >= Day
    BY <1>1, <1>4, <1>10
  <2>9. ToNext(d) # 1
    BY <1>1, <1>3, <1>5, <1>10, <2>5, <2>8
  <2> QED
    BY <1>6, <1>7, <2>3, <2>7, <2>9
<1>11. CASE k + 1 = Day /\ n = Last
  <2>1. ToNext(d) = 1 /\ Opened(d) = Smaller(Lead, Length(d)) * Day - 1
    <3>1. (Last + 1 - n) * Day = Day
      BY <1>1, <1>11
    <3>2. ToNext(d) = 1
      BY <1>1, <1>3, <1>11, <3>1
    <3> QED
      BY <3>2 DEF Opened
  <2>2. PICK b, c, f : /\ b \in Nat /\ c \in 1..12 /\ f \in {1, 16}
                       /\ DaysIn(b, c) \in 28..31
                       /\ e = At(b, c, f, 0)
                       /\ Fortnight(At(b, c, f, 0)) = Fortnight(d) + 1
    <3>0. e = [NextDay(d) EXCEPT !.tick = 0]
      BY <1>1, <1>8, <1>11, LaterParts
    <3>1. CASE n = 15
      <4>1. NextDay(d) = At(y, m, 16, k)
        BY <1>1, <3>1, NextParts
      <4>2. e = At(y, m, 16, 0)
        BY <3>0, <4>1, TickParts
      <4>3. Fortnight(At(y, m, 16, 0)) = Fortnight(d) + 1
        BY <1>1, <3>1 DEF Fortnight, At
      <4> QED
        BY <1>1, <4>2, <4>3
    <3>2. CASE n = DaysIn(y, m) /\ m < 12
      <4>1. NextDay(d) = At(y, m + 1, 1, k)
        BY <1>1, <3>2, NextParts
      <4>2. e = At(y, m + 1, 1, 0)
        BY <3>0, <4>1, TickParts
      <4>3. Fortnight(At(y, m + 1, 1, 0)) = Fortnight(d) + 1
        BY <1>1, <3>2 DEF Fortnight, At
      <4>4. m + 1 \in 1..12 /\ DaysIn(y, m + 1) \in 28..31
        BY <1>1, <3>2, DaysInBounds
      <4> QED
        BY <1>1, <4>2, <4>3, <4>4
    <3>3. CASE n = DaysIn(y, m) /\ m = 12
      <4>1. NextDay(d) = At(y + 1, 1, 1, k)
        BY <1>1, <3>3, NextParts
      <4>2. e = At(y + 1, 1, 1, 0)
        BY <3>0, <4>1, TickParts
      <4>3. Fortnight(At(y + 1, 1, 1, 0)) = Fortnight(d) + 1
        BY <1>1, <3>3 DEF Fortnight, At
      <4>4. y + 1 \in Nat /\ 1 \in 1..12 /\ DaysIn(y + 1, 1) \in 28..31
        BY <1>1, DaysInBounds
      <4> QED
        BY <4>2, <4>3, <4>4
    <3> QED
      BY <1>1, <1>11, <3>1, <3>2, <3>3
  <2>3. e.year = b /\ e.month = c /\ e.day = f /\ e.tick = 0
    BY <2>2 DEF At
  <2>4. ToNext(e) = Length(e) * Day /\ Length(e) \in 13..16
    <3>1. CASE f = 1
      <4>1. ToNext(e) = (15 + 1 - 1) * Day - 0 /\ Length(e) = 15
        BY <2>3, <3>1 DEF ToNext, Length
      <4> QED
        BY <1>1, <4>1
    <3>2. CASE f = 16
      <4>1. ToNext(e) = (DaysIn(b, c) + 1 - 16) * Day - 0 /\ Length(e) = DaysIn(b, c) - 15
        BY <2>3, <3>2 DEF ToNext, Length
      <4>2. DaysIn(b, c) + 1 - 16 = DaysIn(b, c) - 15
        BY <2>2
      <4> QED
        BY <1>1, <2>2, <4>1, <4>2
    <3> QED
      BY <2>2, <3>1, <3>2
  <2>5. /\ Smaller(Lead, Length(e)) * Day \in Int /\ Length(e) * Day \in Int
        /\ Smaller(Lead, Length(e)) * Day <= Length(e) * Day
    <3>1. /\ Smaller(Lead, Length(e)) \in Int /\ Length(e) \in Int
          /\ Smaller(Lead, Length(e)) <= Length(e)
      <4>1. Length(e) \in Int
        BY <2>4
      <4> QED
        BY <1>2, <4>1, SmallerBounds, Zenon
    <3>2. \A i, j \in Int : i <= j => i * Day <= j * Day /\ i * Day \in Int /\ j * Day \in Int
      BY <1>1
    <3> HIDE DEF e
    <3> QED
      BY <3>1, <3>2
  <2>6. Opened(e) <= 0
    <3> HIDE DEF e
    <3> QED
      BY <2>4, <2>5 DEF Opened
  <2>7. Fortnight(e) = Fortnight(d) + 1
    BY <2>2
  <2> QED
    BY <1>6, <1>7, <2>1, <2>6, <2>7
<1>12. k + 1 < Day \/ (k + 1 = Day /\ n < Last) \/ (k + 1 = Day /\ n = Last)
  BY <1>1, <1>4
<1> QED
  BY <1>9, <1>10, <1>11, <1>12

(* The two fortnights bootstrap ensures, when AFIP has opened them. *)
LEMMA OpenOnes ==
  /\ Open(Current)
  /\ TypeOK /\ Opened(ar) >= 0 => Open(Following)
<1>1. Open(Current)
  BY DEF Open, Current
<1>2. ASSUME TypeOK, Opened(ar) >= 0 PROVE DaysLeft <= Lead
  <2> DEFINE l == DaysLeft
  <2>1. /\ ar \in Date /\ ar.day \in Nat /\ ar.tick \in 0..(Day - 1) /\ Day \in Nat \ {0}
        /\ DaysIn(ar.year, ar.month) \in Nat /\ Lead \in Int
    BY <1>2, DateParts, DatesAssumption, BoundsAssumption DEF TypeOK, Parts
  <2>2. l \in Int
    BY <2>1 DEF DaysLeft
  <2>3. Length(ar) \in Int
    BY <2>1 DEF Length
  <2>4. Smaller(Lead, Length(ar)) \in Int /\ Smaller(Lead, Length(ar)) <= Lead
    BY <2>1, <2>3, SmallerBounds, Zenon
  <2>5. Opened(ar) = Smaller(Lead, Length(ar)) * Day - (l * Day - ar.tick)
    BY DEF Opened, ToNext, DaysLeft
  <2>6. \A s \in Int : s * Day - (l * Day - ar.tick) >= 0 => l <= s
    <3> HIDE DEF l
    <3> TAKE s \in Int
    <3>1. l > s => l * Day >= s * Day + Day
      <4>1. ASSUME l > s PROVE (l - s) * Day >= Day /\ (l - s) * Day = l * Day - s * Day
        BY <2>1, <2>2, <4>1
      <4>2. l * Day \in Int /\ s * Day \in Int
        BY <2>1, <2>2
      <4> QED
        BY <2>1, <2>2, <4>1, <4>2
    <3>2. l * Day \in Int /\ s * Day \in Int
      BY <2>1, <2>2
    <3> QED
      BY <2>1, <2>2, <3>1, <3>2
  <2>7. l <= Smaller(Lead, Length(ar))
    <3> HIDE DEF l
    <3> QED
      BY <1>2, <2>4, <2>5, <2>6
  <2> HIDE DEF l
  <2>8. l <= Lead
    BY <2>1, <2>2, <2>4, <2>7
  <2> QED
    BY <2>8 DEF l
<1> QED
  BY <1>1, <1>2 DEF Open, Following

LEMMA InitLate == Init /\ TypeOK => Late
<1> SUFFICES ASSUME Init, TypeOK PROVE Late
  OBVIOUS
<1>1. /\ age = 0 /\ wait = 0 /\ job = [c \in {} |-> "due"]
      /\ down \in 0..MaxOutage /\ calm \in 0..Recovery
      /\ \/ down = 0 /\ calm = Recovery
         \/ down = 1 /\ calm = 0
  BY DEF Init, TypeOK
<1>2. ASSUME NEW c PROVE Until(c) = 0
  BY <1>1 DEF Until, Ready, Certain
<1>3. Awaited = Recovery - 1 /\ Awaited \in Int
  BY <1>1, RecoveryBounds DEF Awaited
<1>4. Opened(ar) \in Int
  BY OnTheClock DEF TypeOK
<1>5. Bounded(Awaited, 0, down, calm)
  BY <1>1, <1>3, BoundedAtFirst, RecoveryBounds
<1>6. Bounded(Smaller(Awaited, Opened(ar)), 0, down, calm)
  <2> DEFINE x == Smaller(Awaited, Opened(ar))
  <2>1. x \in Int /\ x <= Awaited
    BY <1>3, <1>4, SmallerBounds, Zenon
  <2> HIDE DEF x
  <2>2. x <= Recovery - 1 /\ x + 0 <= Recovery - 1
    BY <1>3, <2>1, RecoveryBounds
  <2>3. Bounded(x, 0, down, calm)
    BY <1>1, <2>1, <2>2, BoundedAtFirst, RecoveryBounds
  <2> QED
    BY <2>3 DEF x
<1> QED
  BY <1>1, <1>2, <1>5, <1>6, RecoveryBounds DEF Late

(* A step that takes no time leaves an open fortnight no later than it     *)
(* was: either its job will be tried as soon, or it has its code.          *)
NoLater(c) ==
    Open(c) /\ ~(c \in DOMAIN job' /\ job'[c] = "done")
        => /\ ~ActiveCaea(c)
           /\ down = 0 => \/ c \in DOMAIN job' /\ job'[c] \in {"due", "later"}
                          \/ /\ ~Ready(c)
                             /\ Certain(age, wait', missed') <= Certain(age, wait, missed)

LEMMA NoTime ==
  ASSUME TypeOK, TypeOK', Late, UNCHANGED <<ar, age, down, calm>>,
         \A c \in DOMAIN job' : job'[c] = "tried" => down > 0,
         NoLater(Current), NoLater(Following)
  PROVE  Late'
<1>1. /\ down \in 0..MaxOutage /\ calm \in 0..Recovery /\ Awaited \in Int /\ Opened(ar) \in Int
      /\ Certain(age, wait, missed) \in 0..Recovery
      /\ Certain(age, wait', missed') \in 0..Recovery
  <2>1. Opened(ar) \in Int
    BY OnTheClock DEF TypeOK
  <2>2. age \in Nat /\ wait \in 0..Period /\ missed \in 0..MaxMissed
    BY DEF TypeOK
  <2>3. wait' \in 0..Period /\ missed' \in 0..MaxMissed
    BY DEF TypeOK
  <2>4. Awaited \in Int
    BY <2>2, RecoveryBounds DEF Awaited
  <2> QED
    BY <2>1, <2>2, <2>3, <2>4, CertainBounds DEF TypeOK
<1>2. ASSUME NEW c, NEW x \in Int, NoLater(c), Open(c), ~ActiveCaea(c)',
             Bounded(x, Until(c), down, calm)
      PROVE  Bounded(x, Until(c)', down, calm) /\ ~ActiveCaea(c)
  <2>1. ~(c \in DOMAIN job' /\ job'[c] = "done")
    BY <1>2 DEF ActiveCaea
  <2>2. Until(c) \in 0..Recovery /\ (~Ready(c) => Until(c) = Certain(age, wait, missed))
    BY <1>1, RecoveryBounds DEF Until
  <2>3. Until(c)' = IF c \in DOMAIN job' /\ (job'[c] = "due" \/ (job'[c] = "later" /\ Open(c)))
                    THEN 0 ELSE Certain(age, wait', missed')
    BY DEF Until, Ready, Due, Open, DaysLeft
  <2>4. Until(c)' \in 0..Recovery
    BY <1>1, <2>3, RecoveryBounds
  <2>5. CASE down > 0
    BY <1>2, <2>5 DEF Bounded, NoLater, ActiveCaea
  <2>6. CASE down = 0
    <3>1. Until(c)' <= Until(c)
      BY <1>1, <1>2, <2>1, <2>2, <2>3, <2>6 DEF NoLater
    <3>2. Bounded(x, Until(c)', down, calm)
      <4> DEFINE i == Until(c)'  n == Until(c)
      <4>1. i \in Int /\ n \in Int /\ i <= n /\ Bounded(x, n, down, calm) /\ down \in Nat /\ calm \in Nat
        BY <1>1, <1>2, <2>2, <2>4, <3>1
      <4> HIDE DEF i, n
      <4>2. Bounded(x, i, down, calm)
        BY <4>1, BoundedSooner
      <4> QED
        BY <4>2 DEF i
    <3> QED
      BY <1>2, <2>1, <3>2 DEF NoLater
  <2> QED
    BY <1>1, <2>5, <2>6
<1>3. /\ Current' = Current /\ Following' = Following /\ Awaited' = Awaited
      /\ Opened(ar)' = Opened(ar)
  BY DEF Current, Following, Awaited
<1>4. ASSUME ~ActiveCaea(Current)'
      PROVE  Bounded(Awaited, Until(Current), down, calm)'
  <2> PICK c : c = Current
    OBVIOUS
  <2>1. ~ActiveCaea(c)' /\ Open(c) /\ NoLater(c)
    BY <1>3, <1>4, OpenOnes DEF ActiveCaea
  <2>2. Until(Current)' = Until(c)' /\ Until(Current) = Until(c)
    BY <1>3 DEF Until, Ready, Due, Open, DaysLeft
  <2>3. ~ActiveCaea(c)
    BY <2>1 DEF NoLater, ActiveCaea
  <2>4. Bounded(Awaited, Until(c), down, calm)
    BY <2>2, <2>3 DEF Late
  <2>5. Bounded(Awaited, Until(c)', down, calm)
    BY <1>1, <1>2, <2>1, <2>4
  <2> QED
    BY <1>3, <2>2, <2>5
<1>5. ASSUME Opened(ar)' >= 0, ~ActiveCaea(Following)'
      PROVE  Bounded(Smaller(Awaited, Opened(ar)), Until(Following), down, calm)'
  <2> DEFINE x == Smaller(Awaited, Opened(ar))
  <2> PICK c : c = Following
    OBVIOUS
  <2>1. ~ActiveCaea(c)' /\ Open(c) /\ NoLater(c)
    BY <1>3, <1>5, OpenOnes DEF ActiveCaea
  <2>2. Until(Following)' = Until(c)' /\ Until(Following) = Until(c)
    BY <1>3 DEF Until, Ready, Due, Open, DaysLeft
  <2>3. ~ActiveCaea(c)
    BY <2>1 DEF NoLater, ActiveCaea
  <2>4. Bounded(x, Until(c), down, calm)
    BY <1>3, <1>5, <2>2, <2>3 DEF Late
  <2>5. x \in Int /\ x' = x
    BY <1>1, <1>3, SmallerBounds DEF Smaller
  <2> HIDE DEF x
  <2>6. Bounded(x, Until(c)', down, calm)
    BY <1>2, <2>1, <2>4, <2>5
  <2>7. Bounded(x, Until(Following), down, calm)'
    BY <2>2, <2>5, <2>6
  <2> QED
    BY <2>7 DEF x
<1> QED
  BY <1>4, <1>5 DEF Late

LEMMA NextLate == InTime /\ Inv /\ Inv' /\ Late /\ [Next]_vars => Late'
<1> SUFFICES ASSUME InTime, Inv, Inv', Late, [Next]_vars PROVE Late'
  OBVIOUS
<1>0. /\ age \in Nat /\ wait \in 0..Period /\ missed \in 0..MaxMissed
      /\ down \in 0..MaxOutage /\ calm \in 0..Recovery
      /\ ar \in Date /\ utc = Later(ar, Offset)
      /\ TypeOK /\ TypeOK'
  BY DEF Inv, TypeOK, Synchronous
<1>1. \A c \in DOMAIN job : job[c] \in JobState /\ (job[c] = "tried" => down > 0)
  BY DEF Late, Inv, TypeOK
<1>2. CASE Bootstrap
  <2>1. Current \in Window /\ Following \in Window
    BY <1>0, CyclesResolved DEF Window, Current, Following
  <2>2. ASSUME NEW c \in DOMAIN job'
        PROVE  (c \in DOMAIN job /\ job'[c] = job[c]) \/ job'[c] = "due"
    BY <1>2, <2>2 DEF Bootstrap, EnsureCycles, ToQueue
  <2>3. ASSUME NEW c \in Window
        PROVE  /\ c \in DOMAIN job'
               /\ job'[c] # "failed"
               /\ c \in DOMAIN job /\ job[c] = "done" => job'[c] = "done"
    BY <1>2, <2>3 DEF Bootstrap, EnsureCycles, ToQueue
  <2>4. \A c \in DOMAIN job' : job'[c] = "tried" => down > 0
    BY <1>1, <2>2
  <2>5. ASSUME NEW c \in Window PROVE NoLater(c)
    BY <1>0, <1>1, <2>2, <2>3, <2>4 DEF NoLater, ActiveCaea, JobState
  <2>6. UNCHANGED <<ar, age, down, calm>>
    BY <1>2 DEF Bootstrap
  <2> QED
    BY <1>0, <2>1, <2>4, <2>5, <2>6, NoTime
<1>3. ASSUME NEW c, (wait' = wait /\ missed' = missed) \/ MissBootstrap,
             c \in DOMAIN job <=> c \in DOMAIN job', job'[c] = job[c]
      PROVE  NoLater(c)
  <2>1. Certain(age, wait', missed') <= Certain(age, wait, missed)
    <3>1. CASE MissBootstrap
      BY <1>0, <3>1, CertainBounds, RecoveryBounds DEF MissBootstrap
    <3> QED
      BY <1>0, <1>3, <3>1, CertainBounds, RecoveryBounds
  <2> QED
    BY <1>0, <1>1, <1>3, <2>1 DEF NoLater, ActiveCaea, Ready, Due, JobState
<1>4. CASE MissBootstrap
  <2>1. job' = job /\ UNCHANGED <<ar, age, down, calm>>
    BY <1>4 DEF MissBootstrap
  <2>2. NoLater(Current) /\ NoLater(Following)
    BY <1>3, <1>4, <2>1
  <2> QED
    BY <1>0, <1>1, <2>1, <2>2, NoTime
<1>5. ASSUME NEW b \in DOMAIN job, Attempt(b) PROVE Late'
  <2>1. /\ UNCHANGED <<ar, age, down, calm, wait, missed>>
        /\ DOMAIN job' = DOMAIN job
        /\ \A c \in DOMAIN job : c # b => job'[c] = job[c]
        /\ job'[b] \in Outcome(b) /\ Due(b)
    BY <1>5 DEF Attempt, Outcome
  <2>2. \A c \in DOMAIN job' : job'[c] = "tried" => down > 0
    BY <1>1, <2>1 DEF Outcome
  <2>3. NoLater(b)
    BY <1>0, <2>1 DEF NoLater, Outcome, ActiveCaea, Due
  <2>4. ASSUME NEW c, c # b PROVE NoLater(c)
    <3>1. CASE c \in DOMAIN job
      BY <1>3, <2>1, <2>4, <3>1
    <3>2. CASE c \notin DOMAIN job
      BY <1>0, <2>1, <3>2, CertainBounds, RecoveryBounds DEF NoLater, ActiveCaea, Ready
    <3> QED
      BY <3>1, <3>2
  <2> QED
    BY <1>0, <2>1, <2>2, <2>3, <2>4, NoTime
<1>6. CASE UNCHANGED vars
  <2>1. UNCHANGED <<ar, age, down, calm, wait, missed, job>>
    BY <1>6 DEF vars
  <2>2. NoLater(Current) /\ NoLater(Following)
    BY <1>3, <2>1
  <2> QED
    BY <1>0, <1>1, <2>1, <2>2, NoTime
<1>7. CASE Tick
  <2> DEFINE n == Certain(age, wait, missed)
             o == Opened(ar)
             f == Fortnight(ar)
             a == Awaited
  <2>1. /\ wait > 0 /\ ar' = Later(ar, 1) /\ age' = age + 1 /\ wait' = wait - 1 /\ missed' = missed
        /\ DOMAIN job' = DOMAIN job
        /\ \A c \in DOMAIN job : job'[c] = IF job[c] = "tried" THEN "due" ELSE job[c]
        /\ Calls
    BY <1>7 DEF Tick
  <2>2. \A c : ~Ready(c)
    BY <1>7 DEF Tick, Ready
  <2>3. n \in 1..Recovery /\ Certain(age', wait', missed') = n - 1
    BY <1>0, <2>1, CertainBounds
  <2>4. down' \in 0..MaxOutage /\ calm' \in 0..Recovery /\ (down' = 0 => calm' >= 1)
    BY <1>0, <2>1, RecoveryBounds DEF Calls, Late, TypeOK
  <2>5. \A c \in DOMAIN job' : job'[c] # "tried"
    BY <2>1
  <2>6. ASSUME NEW c, ~(c \in DOMAIN job' /\ job'[c] = "done") PROVE ~ActiveCaea(c)
    BY <2>1, <2>6 DEF ActiveCaea
  <2>7. ASSUME NEW c, NEW x \in Int, Bounded(x, Until(c), down, calm)
        PROVE  Bounded(x + 1, n - 1, down', calm')
    <3>1. Until(c) = n
      BY <2>2 DEF Until
    <3> QED
      BY <1>0, <2>1, <2>3, <2>7, <3>1, BoundedTick DEF Late
  <2>8. ASSUME NEW i, i = 0 \/ i = n - 1, NEW x \in Int, Bounded(x, n - 1, down', calm')
        PROVE  Bounded(x, i, down', calm')
    BY <2>3, <2>4, <2>8, BoundedSooner
  <2>9. Until(Current)' \in {0, n - 1} /\ Until(Following)' \in {0, n - 1}
    BY <2>3 DEF Until
  <2>10. a \in Int /\ Awaited' = a + 1 /\ o \in Int
    BY <1>0, <2>1, OnTheClock, RecoveryBounds DEF Awaited
  <2>11. Opened(ar)' = Opened(Later(ar, 1)) /\ Fortnight(ar)' = Fortnight(Later(ar, 1))
    BY <2>1
  <2>12. Opened(ar)' \in Int
    BY <1>0, OnTheClock DEF TypeOK
  <2>13. ASSUME NEW x \in Int, NEW c, ~ActiveCaea(c) => Bounded(x, Until(c), down, calm),
                NEW i, i \in {0, n - 1}, ~(c \in DOMAIN job' /\ job'[c] = "done")
         PROVE  Bounded(x + 1, i, down', calm')
    BY <2>6, <2>7, <2>8, <2>13
  <2>14. ASSUME NEW x \in Int, x <= 0, NEW i, i \in {0, n - 1}
         PROVE  Bounded(x, i, down', calm')
    BY <2>3, <2>4, <2>14, BoundedAtFirst, RecoveryBounds
  <2>15. ASSUME Opened(ar)' <= 0
         PROVE  Bounded(Smaller(Awaited, Opened(ar)), Until(Following), down, calm)'
    <3> DEFINE x == Smaller(Awaited, Opened(ar))'
    <3>1. x \in Int /\ x <= 0
      BY <2>10, <2>12, <2>15 DEF Smaller
    <3> HIDE DEF x
    <3>2. Bounded(x, Until(Following)', down', calm')
      BY <2>9, <2>14, <3>1
    <3> QED
      BY <3>2 DEF x
  <2>16. CASE ToNext(ar) > 1
    <3>1. Current' = Current /\ Following' = Following /\ Opened(ar)' = o + 1
      BY <1>0, <2>11, <2>16, OnTheClock DEF Current, Following
    <3>2. ASSUME ~ActiveCaea(Current)'
          PROVE  Bounded(Awaited, Until(Current), down, calm)'
      <4>1. ~(Current \in DOMAIN job' /\ job'[Current] = "done")
        BY <3>1, <3>2 DEF ActiveCaea
      <4>2. Bounded(a + 1, Until(Current)', down', calm')
        BY <2>9, <2>10, <2>13, <4>1 DEF Late
      <4> QED
        BY <2>10, <4>2
    <3>3. ASSUME Opened(ar)' >= 0, ~ActiveCaea(Following)'
          PROVE  Bounded(Smaller(Awaited, Opened(ar)), Until(Following), down, calm)'
      <4>1. CASE o >= 0
        <5> DEFINE x == Smaller(a, o)
        <5>1. x \in Int /\ Smaller(Awaited, Opened(ar))' = x + 1
          BY <2>10, <3>1 DEF Smaller
        <5>2. ~(Following \in DOMAIN job' /\ job'[Following] = "done")
          BY <3>1, <3>3 DEF ActiveCaea
        <5>3. ~ActiveCaea(Following) => Bounded(x, Until(Following), down, calm)
          BY <4>1 DEF Late
        <5> HIDE DEF x
        <5>4. Bounded(x + 1, Until(Following)', down', calm')
          BY <2>9, <2>13, <5>1, <5>2, <5>3
        <5> QED
          BY <5>1, <5>4
      <4>2. CASE o < 0
        BY <2>10, <2>15, <3>1, <3>3, <4>2
      <4> QED
        BY <2>10, <4>1, <4>2
    <3> QED
      BY <2>4, <2>5, <3>2, <3>3 DEF Late
  <2>17. CASE ToNext(ar) = 1
    <3> DEFINE w == Smaller(Lead, Length(ar)) * Day
    <3>1. Current' = Following /\ Opened(ar)' <= 0 /\ o = w - 1
      BY <1>0, <2>11, <2>17, OnTheClock DEF Current, Following
    <3>2. o >= Slack + Recovery - 2 /\ Slack \in Nat \ {0}
      <4> DEFINE l == Length(ar)  b == Slack + Recovery - 1
      <4>1. Lead \in Nat /\ Day \in Nat \ {0} /\ b \in Nat /\ Slack \in Nat \ {0}
        BY BoundsAssumption, DatesAssumption, RecoveryBounds DEF Slack
      <4>2. l \in Int /\ l >= 13
        BY <1>0, DateParts DEF Length, Parts
      <4> HIDE DEF l, b
      <4>3. 13 * Day <= l * Day
        BY <4>1, <4>2
      <4>4. 13 * Day \in Int /\ l * Day \in Int /\ Lead * Day \in Int
        BY <4>1, <4>2
      <4>5. b <= Lead * Day /\ b <= l * Day
        BY <4>1, <4>3, <4>4 DEF InTime, b
      <4>6. Smaller(Lead, l) = Lead \/ Smaller(Lead, l) = l
        BY DEF Smaller
      <4>7. b <= w /\ w \in Int
        BY <4>4, <4>5, <4>6 DEF l
      <4> HIDE DEF w
      <4> QED
        BY <2>10, <3>1, <4>1, <4>7, RecoveryBounds DEF b
    <3>3. ASSUME ~ActiveCaea(Current)'
          PROVE  Bounded(Awaited, Until(Current), down, calm)'
      <4> DEFINE x == Smaller(a, o)
      <4>1. ~(Following \in DOMAIN job' /\ job'[Following] = "done")
        BY <3>1, <3>3 DEF ActiveCaea
      <4>2. ~ActiveCaea(Following) /\ Until(Following) = n
        BY <2>2, <2>6, <4>1 DEF Until
      <4>3. o >= 0
        BY <2>10, <3>2, RecoveryBounds
      <4>4. x \in Int /\ Bounded(x, n, down, calm)
        BY <2>10, <4>2, <4>3 DEF Late, Smaller
      <4>5. x < Slack + Recovery - 2
        BY <1>0, <2>3, <4>4, BoundedEnds
      <4>6. x = a
        BY <2>10, <3>2, <4>5, RecoveryBounds DEF Smaller
      <4>7. Bounded(a + 1, n - 1, down', calm')
        BY <2>7, <2>10, <4>2, <4>4, <4>6
      <4>8. Bounded(a + 1, Until(Current)', down', calm')
        BY <2>8, <2>9, <2>10, <4>7
      <4> QED
        BY <2>10, <4>8
    <3> QED
      BY <2>4, <2>5, <2>15, <3>1, <3>3 DEF Late
  <2> QED
    BY <1>0, <2>16, <2>17, OnTheClock
<1> QED
  BY <1>2, <1>4, <1>5, <1>6, <1>7 DEF Next

(* Once the service has been up for an outage and the run of bootstrap     *)
(* after it, the fortnight Argentina is in has its code, whatever calls    *)
(* fail, jobs give up or runs of bootstrap are dropped, as long as AFIP    *)
(* opens a fortnight an outage and two such runs before it begins.         *)
THEOREM CodeAlwaysInTime == ASSUME InTime PROVE Spec => []CodeInTime
<1>1. Init => Inv /\ Late
  BY InitInv, InitLate DEF Inv
<1>2. (Inv /\ Late) /\ [Next]_vars => (Inv /\ Late)'
  BY NextInv, NextLate, InTime
<1>3. Inv /\ Late => CodeInTime
  <2> SUFFICES ASSUME Inv, Late, age >= Slack, ~ActiveCaea(Current) PROVE FALSE
    BY DEF CodeInTime, Current
  <2>1. age \in Nat /\ down \in 0..MaxOutage /\ calm \in 0..Recovery
        /\ wait \in 0..Period /\ missed \in 0..MaxMissed
    BY DEF Inv, TypeOK
  <2>2. Awaited \in Int /\ Awaited >= Slack + Recovery - 1 /\ Slack \in Nat
    BY <2>1, RecoveryBounds DEF Awaited, Slack
  <2>3. Until(Current) \in Int
    BY <2>1, CertainBounds DEF Until
  <2>4. Bounded(Awaited, Until(Current), down, calm)
    BY DEF Late
  <2>5. Awaited <= Slack + Recovery - 2
    BY <2>1, <2>2, <2>3, <2>4, BoundedEnds
  <2> QED
    BY <2>2, <2>5, RecoveryBounds
<1> QED
  BY <1>1, <1>2, <1>3, PTL DEF Spec
=============================================================================
