------------------------- MODULE ValueParamsProofs -------------------------
(***************************************************************************)
(* What holds of the value parameters of src/sparam.cpp for every value a  *)
(* client may give them: their fields stay in range, the clock is exact,   *)
(* and what a parameter writes is what it reads.                           *)
(***************************************************************************)
EXTENDS ValueParams, SequenceTheorems, FiniteSetTheorems, WellFoundedInduction, TLAPS

-----------------------------------------------------------------------------
(* Recursion.  A set of naturals with 0 and with every successor has all of *)
(* them; and a function on 0..n may be given by its first value and a step. *)

LEMMA NaturalsFrom0 ==
  ASSUME NEW S, 0 \in S, \A n \in Nat : n \in S => n + 1 \in S
  PROVE  Nat \subseteq S
<1> DEFINE rest == Nat \ S
<1>1. ASSUME rest # {} PROVE FALSE
  <2>1. PICK x \in rest : \A y \in rest : ~(<<y, x>> \in OpToRel(<, Nat))
    BY <1>1, NatLessThanWellFounded, WFMin
  <2>2. x \in Nat /\ x # 0 /\ x - 1 \in Nat
    OBVIOUS
  <2>3. x - 1 \in rest
    BY <2>2
  <2>4. <<x - 1, x>> \in OpToRel(<, Nat)
    BY <2>2 DEF OpToRel
  <2> QED BY <2>1, <2>3, <2>4
<1> QED BY <1>1

\* f starts with a and takes n steps within S.
Iterates(f, S, a, n, step) == f \in [0..n -> S] /\ f[0] = a /\ \A i \in 1..n : f[i] = step[i][f[i - 1]]

LEMMA RecursionExists ==
  ASSUME NEW S, NEW a \in S, NEW n \in Nat, NEW step \in [1..n -> [S -> S]]
  PROVE  \E f : Iterates(f, S, a, n, step)
<1> DEFINE Upto(m, f) == f \in [0..m -> S] /\ f[0] = a /\ \A i \in 1..m : f[i] = step[i][f[i - 1]]
           T == {m \in Nat : m <= n => \E f : Upto(m, f)}
<1>1. 0 \in T
  <2>1. Upto(0, [i \in 0..0 |-> a])
    OBVIOUS
  <2> QED BY <2>1
<1>2. ASSUME NEW m \in Nat, m \in T PROVE m + 1 \in T
  <2> SUFFICES ASSUME m + 1 <= n PROVE \E f : Upto(m + 1, f)
    OBVIOUS
  <2>1. PICK f : Upto(m, f)
    BY <1>2
  <2> DEFINE g == [i \in 0..(m + 1) |-> IF i = m + 1 THEN step[m + 1][f[m]] ELSE f[i]]
  <2>2. step[m + 1] \in [S -> S] /\ f[m] \in S
    BY <2>1
  <2>3. g \in [0..(m + 1) -> S] /\ g[0] = a
    BY <2>1, <2>2
  <2>4. ASSUME NEW i \in 1..(m + 1) PROVE g[i] = step[i][g[i - 1]]
    <3>1. CASE i = m + 1
      BY <3>1
    <3>2. CASE i \in 1..m
      BY <2>1, <3>2
    <3> QED BY <3>1, <3>2
  <2> HIDE DEF g
  <2> QED BY <2>3, <2>4
<1> HIDE DEF T
<1>3. n \in T
  BY <1>1, <1>2, NaturalsFrom0
<1> QED BY <1>3 DEF T, Iterates

-----------------------------------------------------------------------------
(* The calendar.                                                            *)

\* The days before month m in closed form.
MonthStart(y, m) ==
  (CASE m = 1 -> 0   [] m = 2 -> 31  [] m = 3 -> 59   [] m = 4 -> 90   [] m = 5 -> 120  [] m = 6 -> 151
     [] m = 7 -> 181 [] m = 8 -> 212 [] m = 9 -> 243 [] m = 10 -> 273 [] m = 11 -> 304 [] m = 12 -> 334)
  + (IF m > 2 /\ isLeapYear(y) THEN 1 ELSE 0)

\* Month by month.
LEMMA MonthFollows ==
  ASSUME NEW y, NEW m \in 1..11
  PROVE  MonthStart(y, m + 1) = MonthStart(y, m) + daysOfMonth(y, m) /\ MonthStart(y, 1) = 0
BY DEF MonthStart, daysOfMonth

LEMMA MonthsOfYear ==
  ASSUME NEW y, NEW m \in 1..12
  PROVE  /\ DaysBeforeMonth(y, m) = MonthStart(y, m)
         /\ MonthStart(y, m) \in 0..335 /\ daysOfMonth(y, m) \in 28..31
<1> DEFINE IsStarts(f) == f = [k \in 1..12 |-> IF k = 1 THEN 0 ELSE f[k - 1] + daysOfMonth(y, k - 1)]
           f == CHOOSE f : IsStarts(f)
<1>1. IsStarts([k \in 1..12 |-> MonthStart(y, k)])
  <2> DEFINE g == [k \in 1..12 |-> MonthStart(y, k)]
  <2>1. ASSUME NEW k \in 1..12 PROVE g[k] = IF k = 1 THEN 0 ELSE g[k - 1] + daysOfMonth(y, k - 1)
    <3>1. CASE k = 1
      BY <3>1, MonthFollows
    <3>2. CASE k # 1
      <4>1. k - 1 \in 1..11 /\ (k - 1) + 1 = k
        BY <3>2
      <4>2. MonthStart(y, k) = MonthStart(y, k - 1) + daysOfMonth(y, k - 1)
        BY <4>1, MonthFollows
      <4> QED BY <3>2, <4>1, <4>2
    <3> QED BY <3>1, <3>2
  <2> QED BY <2>1
<1>2. IsStarts(f)
  BY <1>1
<1>3. DaysBeforeMonth(y, m) = f[m]
  BY DEF DaysBeforeMonth
<1> HIDE DEF f
<1>4. \A k \in 1..12 : f[k] = MonthStart(y, k)
  <2>1. f[1] = 0 /\ \A k \in 2..12 : f[k] = f[k - 1] + daysOfMonth(y, k - 1)
    BY <1>2
  <2>2. MonthStart(y, 1) = 0 /\ \A k \in 2..12 : MonthStart(y, k) = MonthStart(y, k - 1) + daysOfMonth(y, k - 1)
    <3> SUFFICES ASSUME NEW k \in 2..12 PROVE MonthStart(y, k) = MonthStart(y, k - 1) + daysOfMonth(y, k - 1)
      BY MonthFollows
    <3>1. k - 1 \in 1..11 /\ (k - 1) + 1 = k
      OBVIOUS
    <3> QED BY <3>1, MonthFollows
  <2> DEFINE T == {k \in Nat : k + 1 <= 12 => f[k + 1] = MonthStart(y, k + 1)}
  <2>3. 0 \in T
    BY <2>1, <2>2
  <2>4. ASSUME NEW k \in Nat, k \in T PROVE k + 1 \in T
    <3> SUFFICES ASSUME (k + 1) + 1 <= 12 PROVE f[(k + 1) + 1] = MonthStart(y, (k + 1) + 1)
      OBVIOUS
    <3>1. (k + 1) + 1 \in 2..12 /\ ((k + 1) + 1) - 1 = k + 1
      OBVIOUS
    <3>2. f[k + 1] = MonthStart(y, k + 1)
      BY <2>4
    <3> QED BY <2>1, <2>2, <3>1, <3>2
  <2> HIDE DEF T
  <2>5. Nat \subseteq T
    BY <2>3, <2>4, NaturalsFrom0
  <2> SUFFICES ASSUME NEW k \in 1..12 PROVE f[k] = MonthStart(y, k)
    OBVIOUS
  <2>6. k - 1 \in T /\ (k - 1) + 1 = k
    BY <2>5
  <2> QED BY <2>6 DEF T
<1>5. MonthStart(y, m) \in 0..335 /\ daysOfMonth(y, m) \in 28..31
  BY DEF MonthStart, daysOfMonth
<1> QED BY <1>3, <1>4, <1>5

\* A date with a day that may lie beyond the month, as mktime() is given it.
Carried == [year : Nat \ {0}, month : 1..12, day : Nat \ {0}]

OnCalendar(d) == d.day <= daysOfMonth(d.year, d.month)

\* The leap days before year y.
LeapDays(y) == ((y - 1) \div 4) + ((y - 1) \div 400) - ((y - 1) \div 100)

LEMMA LeapDaysStep ==
  ASSUME NEW y \in Nat \ {0}
  PROVE  /\ LeapDays(y) \in Int
         /\ LeapDays(y + 1) = LeapDays(y) + (IF isLeapYear(y) THEN 1 ELSE 0)
<1>1. y \div 4 = ((y - 1) \div 4) + (IF y % 4 = 0 THEN 1 ELSE 0)
  OBVIOUS
<1>2. y \div 100 = ((y - 1) \div 100) + (IF y % 100 = 0 THEN 1 ELSE 0)
  OBVIOUS
<1>3. y \div 400 = ((y - 1) \div 400) + (IF y % 400 = 0 THEN 1 ELSE 0)
  OBVIOUS
<1>4. (y % 400 = 0 => y % 100 = 0) /\ (y % 100 = 0 => y % 4 = 0)
  OBVIOUS
<1>5. (y + 1) - 1 = y
  OBVIOUS
<1>6. /\ y \div 4 \in Int /\ y \div 100 \in Int /\ y \div 400 \in Int
      /\ (y - 1) \div 4 \in Int /\ (y - 1) \div 100 \in Int /\ (y - 1) \div 400 \in Int
  OBVIOUS
<1> QED BY <1>1, <1>2, <1>3, <1>4, <1>5, <1>6 DEF LeapDays, isLeapYear

LEMMA LeapDaysGrow ==
  ASSUME NEW y \in Nat \ {0}, NEW z \in Nat, y <= z
  PROVE  LeapDays(y) <= LeapDays(z)
<1> DEFINE T == {k \in Nat : LeapDays(y) <= LeapDays(y + k)}
<1>1. 0 \in T
  BY LeapDaysStep
<1>2. ASSUME NEW k \in Nat, k \in T PROVE k + 1 \in T
  <2>1. y + k \in Nat \ {0} /\ y + (k + 1) = (y + k) + 1 /\ (y + k) + 1 \in Nat \ {0}
    OBVIOUS
  <2>2. LeapDays(y + (k + 1)) \in {LeapDays(y + k), LeapDays(y + k) + 1}
    BY <2>1, LeapDaysStep
  <2>3. LeapDays(y) \in Int /\ LeapDays(y + k) \in Int /\ LeapDays(y) <= LeapDays(y + k)
    BY <1>2, <2>1, LeapDaysStep
  <2> QED BY <2>2, <2>3
<1> HIDE DEF T
<1>3. z - y \in T /\ y + (z - y) = z
  BY <1>1, <1>2, NaturalsFrom0
<1> QED BY <1>3 DEF T

LEMMA TrueDaysForm ==
  ASSUME NEW d \in Carried
  PROVE  /\ TrueDays(d) = ((d.year - 1900) * 365) + LeapDays(d.year) - 460 + MonthStart(d.year, d.month) + d.day - 1
         /\ TrueDays(d) \in Int
<1>1. /\ d.year \in Nat \ {0} /\ d.month \in 1..12 /\ d.day \in Nat \ {0}
  BY DEF Carried
<1>2. /\ (d.year - 1) \div 4 \in Int /\ (d.year - 1) \div 400 \in Int /\ (d.year - 1) \div 100 \in Int
  BY <1>1
<1>3. /\ DaysBeforeMonth(d.year, d.month) = MonthStart(d.year, d.month)
      /\ MonthStart(d.year, d.month) \in Int
  BY <1>1, MonthsOfYear
<1> HIDE DEF MonthStart, DaysBeforeMonth
<1> QED BY <1>1, <1>2, <1>3 DEF TrueDays, LeapDays

\* The true number of a day grows with the date.
LEMMA TrueDaysGrow ==
  ASSUME NEW d \in Carried, NEW e \in Carried, OnCalendar(d), OnCalendar(e), DateLess(d, e)
  PROVE  TrueDays(d) < TrueDays(e)
<1>1. /\ d.year \in Nat \ {0} /\ d.month \in 1..12 /\ d.day \in Nat \ {0}
      /\ e.year \in Nat \ {0} /\ e.month \in 1..12 /\ e.day \in Nat \ {0}
  BY DEF Carried
<1> DEFINE A == MonthStart(d.year, d.month)
           B == MonthStart(e.year, e.month)
           L == LeapDays(d.year)
           M == LeapDays(e.year)
<1>2. /\ TrueDays(d) = ((d.year - 1900) * 365) + L - 460 + A + d.day - 1
      /\ TrueDays(e) = ((e.year - 1900) * 365) + M - 460 + B + e.day - 1
  BY TrueDaysForm
<1>3. L \in Int /\ M \in Int /\ A \in 0..335 /\ B \in 0..335
  BY <1>1, LeapDaysStep, MonthsOfYear
<1>4. \/ d.year < e.year
      \/ d.year = e.year /\ d.month < e.month
      \/ d.year = e.year /\ d.month = e.month /\ d.day < e.day
  BY <1>1 DEF DateLess, Before, DateFields
<1>5. CASE d.year < e.year
  <2>1. A + d.day <= 365 + (IF isLeapYear(d.year) THEN 1 ELSE 0)
    BY <1>1 DEF OnCalendar, MonthStart, daysOfMonth
  <2>2. L + (IF isLeapYear(d.year) THEN 1 ELSE 0) <= M
    <3>1. LeapDays(d.year + 1) <= M
      BY <1>1, <1>5, LeapDaysGrow
    <3> QED BY <1>1, <3>1, LeapDaysStep
  <2> HIDE DEF A, B, L, M
  <2>3. (e.year - 1900) * 365 >= ((d.year - 1900) * 365) + 365
    BY <1>1, <1>5
  <2> QED BY <1>1, <1>2, <1>3, <2>1, <2>2, <2>3
<1>6. CASE d.year = e.year /\ d.month < e.month
  <2>1. A + d.day <= B
    BY <1>1, <1>6 DEF OnCalendar, MonthStart, daysOfMonth
  <2>2. L = M
    BY <1>6
  <2> HIDE DEF A, B, L, M
  <2> QED BY <1>1, <1>2, <1>3, <1>6, <2>1, <2>2
<1>7. CASE d.year = e.year /\ d.month = e.month /\ d.day < e.day
  <2>1. L = M /\ A = B
    BY <1>7
  <2> HIDE DEF A, B, L, M
  <2> QED BY <1>1, <1>2, <1>3, <1>7, <2>1
<1> QED BY <1>4, <1>5, <1>6, <1>7

\* addDay() in the calendar of year + 1900.
Shifted(d) == [d EXCEPT !.year = @ + 1900]
Back(d)    == [d EXCEPT !.year = @ - 1900]

LEMMA NextMonthKeeps ==
  ASSUME NEW d \in Carried
  PROVE  /\ NextMonth(d) \in Carried
         /\ NextMonth(d).year \in {d.year, d.year + 1}
         /\ OnCalendar(d) => NextMonth(d) = d
         /\ ~OnCalendar(d) => NextMonth(d).day <= d.day - 28
<1>1. d.year \in Nat \ {0} /\ d.month \in 1..12 /\ d.day \in Nat \ {0}
  BY DEF Carried
<1>2. daysOfMonth(d.year, d.month) \in 28..31
  BY <1>1, MonthsOfYear
<1> DEFINE days == daysOfMonth(d.year, d.month)
<1>3. CASE d.day <= days
  BY <1>3 DEF NextMonth, OnCalendar
<1>4. CASE d.day > days
  <2>1. NextMonth(d) = IF d.month < 12 THEN [year |-> d.year, month |-> d.month + 1, day |-> d.day - days]
                       ELSE [year |-> d.year + 1, month |-> 1, day |-> d.day - days]
    BY <1>1, <1>2, <1>4 DEF NextMonth, Carried
  <2>2. days \in 28..31 /\ d.day - days \in Nat \ {0} /\ d.day - days <= d.day - 28
    BY <1>1, <1>2, <1>4
  <2>3. ~OnCalendar(d)
    BY <1>1, <1>2, <1>4 DEF OnCalendar
  <2> HIDE DEF days
  <2> QED BY <1>1, <2>1, <2>2, <2>3 DEF Carried
<1> QED BY <1>1, <1>2, <1>3, <1>4

\* The carry of a month moves no day, when February is as long in the year as
\* in the year 1900 years later.
LEMMA NextMonthExact ==
  ASSUME NEW d \in Carried, d.year > 1900, isLeapYear(d.year - 1900) = isLeapYear(d.year)
  PROVE  TrueDays(Back(NextMonth(d))) = TrueDays(Back(d))
<1> DEFINE y == d.year - 1900
           days == daysOfMonth(d.year, d.month)
<1>1. d.year \in Nat \ {0} /\ d.month \in 1..12 /\ d.day \in Nat \ {0} /\ y \in Nat \ {0}
  BY DEF Carried
<1>2. Back(d) \in Carried /\ Back(d).year = y /\ Back(d).month = d.month /\ Back(d).day = d.day
  BY <1>1 DEF Back, Carried
<1>3. days \in 28..31 /\ days = daysOfMonth(y, d.month)
  BY <1>1, MonthsOfYear DEF daysOfMonth
<1>4. CASE d.day <= days
  BY <1>4 DEF NextMonth
<1>5. CASE d.day > days /\ d.month < 12
  <2> DEFINE e == Back(NextMonth(d))
  <2>0. NextMonth(d) = [year |-> d.year, month |-> d.month + 1, day |-> d.day - days]
    BY <1>1, <1>3, <1>5 DEF NextMonth, Carried
  <2>1. e \in Carried /\ e.year = y /\ e.month = d.month + 1 /\ e.day = d.day - days
    BY <1>1, <1>3, <1>5, <2>0 DEF Back, Carried
  <2>2. MonthStart(y, d.month + 1) = MonthStart(y, d.month) + days
    BY <1>1, <1>3, <1>5, MonthFollows
  <2> HIDE DEF e, y, days
  <2>3. LeapDays(y) \in Int /\ MonthStart(y, d.month) \in Int
    <3>1. MonthStart(y, d.month) \in 0..335
      BY <1>1, MonthsOfYear
    <3> QED BY <1>1, <3>1, LeapDaysStep
  <2>4. TrueDays(e) = ((y - 1900) * 365) + LeapDays(y) - 460 + MonthStart(y, d.month) + days + (d.day - days) - 1
    BY <1>1, <1>3, <2>1, <2>2, <2>3, TrueDaysForm
  <2>5. TrueDays(Back(d)) = ((y - 1900) * 365) + LeapDays(y) - 460 + MonthStart(y, d.month) + d.day - 1
    BY <1>2, TrueDaysForm
  <2>6. y \in Int /\ days \in Int /\ d.day \in Int
    BY <1>1, <1>3
  <2>7. TrueDays(e) = TrueDays(Back(d))
    BY <2>3, <2>4, <2>5, <2>6
  <2> QED BY <2>7 DEF e
<1>6. CASE d.day > days /\ d.month = 12
  <2> DEFINE e == Back(NextMonth(d))
             leap == IF isLeapYear(y) THEN 1 ELSE 0
  <2>1. e \in Carried /\ e.year = y + 1 /\ e.month = 1 /\ e.day = d.day - 31 /\ days = 31
    BY <1>1, <1>3, <1>6 DEF NextMonth, Back, Carried, daysOfMonth
  <2>2. MonthStart(y + 1, 1) = 0 /\ MonthStart(y, 12) = 334 + leap
    BY DEF MonthStart
  <2>3. LeapDays(y) \in Int /\ LeapDays(y + 1) = LeapDays(y) + leap /\ leap \in Int
    BY <1>1, LeapDaysStep
  <2> HIDE DEF e, y, days, leap
  <2>4. TrueDays(e) = (((y + 1) - 1900) * 365) + (LeapDays(y) + leap) - 460 + 0 + (d.day - 31) - 1
    BY <2>1, <2>2, <2>3, TrueDaysForm
  <2>5. TrueDays(Back(d)) = ((y - 1900) * 365) + LeapDays(y) - 460 + (334 + leap) + d.day - 1
    BY <1>2, <1>6, <2>2, TrueDaysForm
  <2>6. TrueDays(e) = TrueDays(Back(d))
    BY <1>1, <2>3, <2>4, <2>5
  <2> QED BY <2>6 DEF e
<1> QED BY <1>1, <1>3, <1>4, <1>5, <1>6

LEMMA LaterExists ==
  ASSUME NEW first \in Carried, NEW n \in Nat
  PROVE  \E f \in [0..n -> Carried] : f[0] = first /\ \A k \in 1..n : f[k] = NextMonth(f[k - 1])
<1> DEFINE step == [k \in 1..n |-> [e \in Carried |-> NextMonth(e)]]
<1>1. step \in [1..n -> [Carried -> Carried]]
  BY NextMonthKeeps
<1> HIDE DEF step
<1>2. PICK f : Iterates(f, Carried, first, n, step)
  BY <1>1, RecursionExists, Zenon
<1>3. ASSUME NEW k \in 1..n PROVE f[k] = NextMonth(f[k - 1])
  <2>1. f[k - 1] \in Carried
    BY <1>2 DEF Iterates
  <2> QED BY <1>2, <2>1 DEF step, Iterates
<1> QED BY <1>2, <1>3 DEF Iterates

IsLater(d, n, f) ==
  /\ f \in [0..(n + 1) -> Carried]
  /\ f[0] = [year |-> d.year + 1900, month |-> d.month, day |-> d.day + n]
  /\ \A k \in 1..(n + 1) : f[k] = NextMonth(f[k - 1])

LEMMA addDayUnfolds ==
  ASSUME NEW d \in Carried, NEW n \in Nat
  PROVE  \E f : IsLater(d, n, f) /\ addDay(d, n) = Back(f[n + 1])
<1> DEFINE first == [year |-> d.year + 1900, month |-> d.month, day |-> d.day + n]
           Def(f) == f = [k \in 0..(n + 1) |-> IF k = 0 THEN first ELSE NextMonth(f[k - 1])]
           f == CHOOSE f : Def(f)
<1>1. first \in Carried
  BY DEF Carried
<1>a. f = CHOOSE g : Def(g)
  OBVIOUS
<1>b. first = [year |-> d.year + 1900, month |-> d.month, day |-> d.day + n]
  OBVIOUS
<1> HIDE DEF first, f
<1>2. \E g : IsLater(d, n, g)
  <2>1. n + 1 \in Nat
    OBVIOUS
  <2> QED BY <1>1, <1>b, <2>1, LaterExists DEF IsLater
<1>3. PICK g : IsLater(d, n, g)
  BY <1>2
<1>4. Def(g)
  <2>1. \A k \in 0..(n + 1) : g[k] = IF k = 0 THEN first ELSE NextMonth(g[k - 1])
    BY <1>3, <1>b DEF IsLater
  <2> QED BY <1>3, <2>1 DEF IsLater
<1>5. Def(f)
  <2> HIDE DEF Def
  <2> QED BY <1>4, <1>a
<1>6. addDay(d, n) = Back(f[n + 1])
  BY DEF addDay, Back, f, first
<1>7. f[0] = first /\ \A k \in 1..(n + 1) : f[k] = NextMonth(f[k - 1])
  BY <1>5
<1>8. \A k \in 0..(n + 1) : f[k] \in Carried
  <2> DEFINE T == {k \in Nat : k <= n + 1 => f[k] \in Carried}
  <2>1. 0 \in T
    BY <1>1, <1>7
  <2>2. ASSUME NEW k \in Nat, k \in T PROVE k + 1 \in T
    <3> SUFFICES ASSUME k + 1 <= n + 1 PROVE f[k + 1] \in Carried
      OBVIOUS
    <3>1. k + 1 \in 1..(n + 1) /\ (k + 1) - 1 = k /\ f[k] \in Carried
      BY <2>2
    <3> QED BY <1>7, <3>1, NextMonthKeeps
  <2> HIDE DEF T
  <2>3. Nat \subseteq T
    BY <2>1, <2>2, NaturalsFrom0
  <2> QED BY <2>3 DEF T
<1>9. IsLater(d, n, f)
  BY <1>5, <1>7, <1>8, <1>b DEF IsLater
<1> QED BY <1>6, <1>9

\* addDay() ends on a day of the calendar it counts in.
LEMMA addDayEnds ==
  ASSUME NEW d \in Carried, d.day <= 31, NEW n \in Nat
  PROVE  /\ addDay(d, n) \in Carried /\ addDay(d, n).year >= d.year
         /\ OnCalendar(Shifted(addDay(d, n)))
<1>0. d.year \in Nat \ {0} /\ d.month \in 1..12 /\ d.day \in Nat \ {0}
  BY DEF Carried
<1>1. PICK f : IsLater(d, n, f) /\ addDay(d, n) = Back(f[n + 1])
  BY addDayUnfolds
<1>2. \A k \in 0..(n + 1) : f[k] \in Carried /\ f[k].year \in Nat /\ f[k].day \in Nat \ {0}
  BY <1>1 DEF IsLater, Carried
<1>3. f[0].year = d.year + 1900 /\ f[0].day = d.day + n
  BY <1>1 DEF IsLater
<1>4. \A k \in 1..(n + 1) : f[k] = NextMonth(f[k - 1])
  BY <1>1 DEF IsLater
<1> DEFINE T == {k \in Nat : k <= n + 1 =>
                   /\ f[k].year >= d.year + 1900
                   /\ OnCalendar(f[k]) \/ f[k].day <= (31 + n) - (28 * k)}
<1>5. 0 \in T
  BY <1>0, <1>3
<1>6. ASSUME NEW k \in Nat, k \in T PROVE k + 1 \in T
  <2> SUFFICES ASSUME k + 1 <= n + 1
               PROVE  /\ f[k + 1].year >= d.year + 1900
                      /\ OnCalendar(f[k + 1]) \/ f[k + 1].day <= (31 + n) - (28 * (k + 1))
    OBVIOUS
  <2>1. /\ k \in 0..(n + 1) /\ k + 1 \in 1..(n + 1) /\ (k + 1) - 1 = k
        /\ f[k].year >= d.year + 1900 /\ (OnCalendar(f[k]) \/ f[k].day <= (31 + n) - (28 * k))
    BY <1>6
  <2>2. f[k + 1] = NextMonth(f[k]) /\ f[k] \in Carried
    BY <1>2, <1>4, <2>1
  <2>3. /\ f[k + 1].year \in {f[k].year, f[k].year + 1}
        /\ OnCalendar(f[k]) => f[k + 1] = f[k]
        /\ ~OnCalendar(f[k]) => f[k + 1].day <= f[k].day - 28
    BY <2>2, NextMonthKeeps
  <2>4. f[k + 1].year >= d.year + 1900
    BY <1>0, <1>2, <2>1, <2>3
  <2>5. CASE OnCalendar(f[k])
    BY <2>3, <2>4, <2>5
  <2>6. CASE ~OnCalendar(f[k])
    <3>1. f[k].day \in Nat /\ f[k + 1].day \in Nat /\ f[k + 1].day <= f[k].day - 28
          /\ f[k].day <= (31 + n) - (28 * k)
      BY <1>2, <2>1, <2>3, <2>6
    <3> QED BY <2>4, <3>1
  <2> QED BY <2>5, <2>6
<1> HIDE DEF T
<1>7. n + 1 \in T
  BY <1>5, <1>6, NaturalsFrom0
<1> DEFINE e == f[n + 1]
<1>8. e \in Carried /\ e.year \in Nat \ {0} /\ e.month \in 1..12 /\ e.day \in Nat \ {0}
      /\ e.year >= d.year + 1900
  BY <1>2, <1>7 DEF T, Carried
<1>9. OnCalendar(e)
  <2>1. CASE e.day <= (31 + n) - (28 * (n + 1))
    <3>1. e.day <= 3
      BY <1>8, <2>1
    <3>2. daysOfMonth(e.year, e.month) \in 28..31
      BY <1>8, MonthsOfYear
    <3> QED BY <1>8, <3>1, <3>2 DEF OnCalendar
  <2> QED BY <1>7, <2>1 DEF T
<1> HIDE DEF e
<1>10. Back(e) = [year |-> e.year - 1900, month |-> e.month, day |-> e.day]
  BY <1>8 DEF Back, Carried
<1>11. Shifted(Back(e)) = [year |-> (e.year - 1900) + 1900, month |-> e.month, day |-> e.day]
  BY <1>10 DEF Shifted
<1>12. OnCalendar(Shifted(Back(e)))
  <2>1. (e.year - 1900) + 1900 = e.year
    BY <1>8
  <2> QED BY <1>9, <1>11, <2>1 DEF OnCalendar
<1>13. Back(e) \in Carried /\ Back(e).year >= d.year
  BY <1>0, <1>8, <1>10 DEF Carried
<1> QED BY <1>1, <1>12, <1>13 DEF e

\* It goes exactly n days forward.
LEMMA addDayExact ==
  ASSUME NEW d \in Carried, d.day <= 31, NEW n \in Nat,
         \A y \in d.year..addDay(d, n).year : isLeapYear(y) = isLeapYear(y + 1900)
  PROVE  TrueDays(addDay(d, n)) = TrueDays(d) + n
<1>0. d.year \in Nat \ {0} /\ d.month \in 1..12 /\ d.day \in Nat \ {0}
  BY DEF Carried
<1>1. PICK f : IsLater(d, n, f) /\ addDay(d, n) = Back(f[n + 1])
  BY addDayUnfolds
<1>2. \A k \in 0..(n + 1) : f[k] \in Carried /\ f[k].year \in Nat
  BY <1>1 DEF IsLater, Carried
<1>3. f[0] = [year |-> d.year + 1900, month |-> d.month, day |-> d.day + n]
  BY <1>1 DEF IsLater
<1>4. \A k \in 1..(n + 1) : f[k] = NextMonth(f[k - 1])
  BY <1>1 DEF IsLater
<1> DEFINE last == addDay(d, n).year
<1>5. last = f[n + 1].year - 1900 /\ last \in Int
  <2>1. f[n + 1].year \in Nat
    BY <1>2
  <2> QED BY <1>1, <2>1 DEF Back, IsLater, Carried
<1> HIDE DEF last
<1> DEFINE T == {k \in Nat : k <= n + 1 =>
                   /\ f[k].year >= d.year + 1900
                   /\ f[k].year - 1900 <= last => TrueDays(Back(f[k])) = TrueDays(d) + n}
<1>6. 0 \in T
  <2>1. Back(f[0]) = [year |-> d.year, month |-> d.month, day |-> d.day + n]
    BY <1>0, <1>3 DEF Back
  <2>2. Back(f[0]) \in Carried
    BY <1>0, <2>1 DEF Carried
  <2>3. TrueDays(Back(f[0])) = ((d.year - 1900) * 365) + LeapDays(d.year) - 460 + MonthStart(d.year, d.month) + (d.day + n) - 1
    BY <2>1, <2>2, TrueDaysForm
  <2>4. TrueDays(d) = ((d.year - 1900) * 365) + LeapDays(d.year) - 460 + MonthStart(d.year, d.month) + d.day - 1
    BY TrueDaysForm
  <2>5. LeapDays(d.year) \in Int /\ MonthStart(d.year, d.month) \in Int
    <3>1. MonthStart(d.year, d.month) \in 0..335
      BY <1>0, MonthsOfYear
    <3> QED BY <1>0, <3>1, LeapDaysStep
  <2>6. TrueDays(Back(f[0])) = TrueDays(d) + n
    BY <1>0, <2>3, <2>4, <2>5
  <2> QED BY <1>0, <1>3, <2>6
<1>7. ASSUME NEW k \in Nat, k \in T PROVE k + 1 \in T
  <2> SUFFICES ASSUME k + 1 <= n + 1
               PROVE  /\ f[k + 1].year >= d.year + 1900
                      /\ f[k + 1].year - 1900 <= last => TrueDays(Back(f[k + 1])) = TrueDays(d) + n
    OBVIOUS
  <2>1. /\ k \in 0..(n + 1) /\ k + 1 \in 1..(n + 1) /\ (k + 1) - 1 = k /\ f[k].year >= d.year + 1900
        /\ f[k].year - 1900 <= last => TrueDays(Back(f[k])) = TrueDays(d) + n
    BY <1>7
  <2>2. f[k + 1] = NextMonth(f[k]) /\ f[k] \in Carried /\ f[k].year \in Nat /\ f[k + 1].year \in Nat
    BY <1>2, <1>4, <2>1
  <2>3. f[k + 1].year \in {f[k].year, f[k].year + 1}
    BY <2>2, NextMonthKeeps
  <2>4. f[k + 1].year >= d.year + 1900
    BY <1>0, <2>1, <2>2, <2>3
  <2>5. ASSUME f[k + 1].year - 1900 <= last PROVE TrueDays(Back(f[k + 1])) = TrueDays(d) + n
    <3> DEFINE y == f[k].year - 1900
    <3>1. y \in d.year..last /\ y + 1900 = f[k].year
      BY <1>0, <1>5, <2>1, <2>2, <2>3, <2>5
    <3>2. isLeapYear(y) = isLeapYear(f[k].year)
      BY <3>1 DEF last
    <3>3. f[k].year > 1900
      BY <1>0, <2>1, <2>2
    <3>4. TrueDays(Back(NextMonth(f[k]))) = TrueDays(Back(f[k]))
      BY <2>2, <3>2, <3>3, NextMonthExact
    <3>5. f[k].year - 1900 <= last
      BY <1>0, <1>5, <3>1
    <3> QED BY <2>1, <2>2, <3>4, <3>5
  <2> QED BY <2>4, <2>5
<1> HIDE DEF T
<1>8. n + 1 \in T
  BY <1>6, <1>7, NaturalsFrom0
<1>9. f[n + 1].year - 1900 <= last
  BY <1>5
<1> QED BY <1>1, <1>8, <1>9 DEF T

\* In at most 365 days it does not go beyond the next year.
LEMMA addDayYear ==
  ASSUME NEW d \in Carried, d.day <= 31, NEW n \in Nat, n <= 365
  PROVE  addDay(d, n).year <= d.year + 1
<1>0. d.year \in Nat \ {0} /\ d.month \in 1..12 /\ d.day \in Nat \ {0}
  BY DEF Carried
<1>1. PICK f : IsLater(d, n, f) /\ addDay(d, n) = Back(f[n + 1])
  BY addDayUnfolds
<1>2. \A k \in 0..(n + 1) : f[k] \in Carried
  BY <1>1 DEF IsLater
<1>3. f[0] = [year |-> d.year + 1900, month |-> d.month, day |-> d.day + n]
  BY <1>1 DEF IsLater
<1>4. \A k \in 1..(n + 1) : f[k] = NextMonth(f[k - 1])
  BY <1>1 DEF IsLater
<1> DEFINE Y == d.year + 1900
           leap(y) == IF isLeapYear(y) THEN 1 ELSE 0
           Near(e) == \/ e.year = Y /\ MonthStart(Y, e.month) + e.day <= 365 + leap(Y) + n
                      \/ e.year = Y + 1 /\ MonthStart(Y + 1, e.month) + e.day <= n
           T == {k \in Nat : k <= n + 1 => Near(f[k])}
<1>5. 0 \in T
  <2>1. MonthStart(Y, d.month) <= 334 + leap(Y)
    BY <1>0 DEF MonthStart
  <2>2. MonthStart(Y, d.month) \in 0..335
    BY <1>0, MonthsOfYear
  <2>3. MonthStart(Y, d.month) + (d.day + n) <= 365 + leap(Y) + n
    BY <1>0, <2>1, <2>2
  <2> QED BY <1>3, <2>3
<1>6. ASSUME NEW k \in Nat, k \in T PROVE k + 1 \in T
  <2> SUFFICES ASSUME k + 1 <= n + 1 PROVE Near(f[k + 1])
    OBVIOUS
  <2> DEFINE e == f[k]
             days == daysOfMonth(e.year, e.month)
  <2>1. k \in 0..(n + 1) /\ k + 1 \in 1..(n + 1) /\ (k + 1) - 1 = k /\ Near(f[k])
    BY <1>6
  <2>2. f[k + 1] = NextMonth(e) /\ e \in Carried /\ Near(e)
    BY <1>2, <1>4, <2>1
  <2> HIDE DEF e
  <2>3. e.year \in Nat \ {0} /\ e.month \in 1..12 /\ e.day \in Nat \ {0} /\ e.year \in {Y, Y + 1}
    BY <2>2 DEF Carried
  <2>4. days \in 28..31 /\ MonthStart(e.year, e.month) \in 0..335
    BY <2>3, MonthsOfYear
  <2>5. CASE e.day <= days
    BY <2>2, <2>5 DEF NextMonth
  <2>6. CASE e.day > days /\ e.month < 12
    <3>1. NextMonth(e) = [year |-> e.year, month |-> e.month + 1, day |-> e.day - days]
      BY <2>3, <2>4, <2>6 DEF NextMonth
    <3>2. MonthStart(e.year, e.month + 1) = MonthStart(e.year, e.month) + days
      BY <2>3, <2>6, MonthFollows
    <3> HIDE DEF days
    <3>3. MonthStart(e.year, e.month + 1) + (e.day - days) = MonthStart(e.year, e.month) + e.day
      BY <2>3, <2>4, <3>2
    <3> QED BY <2>2, <3>1, <3>3
  <2>7. CASE e.day > days /\ e.month = 12
    <3>1. days = 31 /\ MonthStart(e.year, 12) = 334 + leap(e.year) /\ MonthStart(Y + 1, 1) = 0
      BY <2>7 DEF daysOfMonth, MonthStart
    <3>2. NextMonth(e) = [year |-> e.year + 1, month |-> 1, day |-> e.day - 31]
      BY <2>3, <2>7, <3>1 DEF NextMonth
    <3>3. e.year = Y
      <4> SUFFICES ASSUME e.year = Y + 1 PROVE FALSE
        BY <2>3
      <4>1. MonthStart(e.year, 12) + e.day <= n
        BY <1>0, <2>2, <2>7
      <4> QED BY <2>3, <2>7, <3>1, <4>1
    <3>4. (334 + leap(Y)) + e.day <= 365 + leap(Y) + n
      BY <1>0, <2>2, <2>7, <3>1, <3>3
    <3>5. 0 + (e.day - 31) <= n
      BY <2>3, <3>4
    <3> QED BY <2>2, <3>1, <3>2, <3>3, <3>5
  <2> QED BY <2>3, <2>4, <2>5, <2>6, <2>7
<1> HIDE DEF T
<1>7. Nat \subseteq T
  BY <1>5, <1>6, NaturalsFrom0
<1>a. n + 1 \in Nat /\ n + 1 \in 0..(n + 1) /\ n + 1 <= n + 1
  OBVIOUS
<1>8. f[n + 1] \in Carried
  BY <1>2, <1>a
<1>9. f[n + 1].year \in {Y, Y + 1}
  <2>1. Near(f[n + 1])
    <3> HIDE DEF Near
    <3>1. n + 1 \in T
      BY <1>7, <1>a
    <3> QED BY <1>a, <3>1 DEF T
  <2> QED BY <2>1
<1>10. Back(f[n + 1]).year = f[n + 1].year - 1900
  BY <1>8 DEF Back, Carried
<1> QED BY <1>0, <1>1, <1>9, <1>10

-----------------------------------------------------------------------------
(* The clock.                                                               *)

\* A number of minutes or hours, divided.
LEMMA Divided ==
  ASSUME NEW a \in Nat
  PROVE  /\ a \div 60 \in Nat /\ a % 60 \in 0..59 /\ a = (60 * (a \div 60)) + (a % 60)
         /\ a \div 24 \in Nat /\ a % 24 \in 0..23 /\ a = (24 * (a \div 24)) + (a % 24)
OBVIOUS

\* addMinute() splits the minutes into days, hours and minutes.
LEMMA MinutesCarry ==
  ASSUME NEW t \in Time, isValidTime(t), NEW n \in Nat
  PROVE  /\ addMinuteDays(t, n) \in Nat
         /\ addMinuteToTime(t, n) \in Time /\ isValidTime(addMinuteToTime(t, n))
         /\ (addMinuteDays(t, n) * 1440) + (addMinuteToTime(t, n).hour * 60) + addMinuteToTime(t, n).minute
              = (t.hour * 60) + t.minute + n
         /\ addMinuteToTime(t, n).second = t.second
<1> DEFINE q == (t.minute + n) \div 60
           minute == (t.minute + n) % 60
           hour == (t.hour + q) % 24
           days == (t.hour + q) \div 24
<1>1. t.hour \in 0..23 /\ t.minute \in 0..59 /\ t.second \in 0..59
  BY DEF Time, isValidTime
<1>2. q \in Nat /\ minute \in 0..59 /\ t.minute + n = (60 * q) + minute
  <2>1. t.minute + n \in Nat
    BY <1>1
  <2> QED BY <2>1, Divided
<1>3. addMinuteToTime(t, n) = [hour |-> hour, minute |-> minute, second |-> t.second] /\ addMinuteDays(t, n) = days
  <2>1. t = [hour |-> t.hour, minute |-> t.minute, second |-> t.second]
    BY DEF Time
  <2>2. addMinuteToTime(t, n) = [t EXCEPT !.minute = minute, !.hour = hour]
    BY DEF addMinuteToTime
  <2> HIDE DEF hour, minute, days
  <2>3. addMinuteToTime(t, n) = [hour |-> hour, minute |-> minute, second |-> t.second]
    BY <2>1, <2>2
  <2> QED BY <2>3 DEF addMinuteDays, days
<1> HIDE DEF q, minute
<1>4. days \in Nat /\ hour \in 0..23 /\ t.hour + q = (24 * days) + hour
  <2>1. t.hour + q \in Nat
    BY <1>1, <1>2
  <2> QED BY <2>1, Divided
<1> HIDE DEF hour, days
<1>5. (days * 1440) + (hour * 60) + minute = (t.hour * 60) + t.minute + n
  <2>1. t.hour \in Int /\ t.minute \in Int /\ hour \in Int /\ minute \in Int /\ q \in Int /\ days \in Int
    BY <1>1, <1>2, <1>4
  <2>2. t.hour + q = (24 * days) + hour /\ t.minute + n = (60 * q) + minute
    BY <1>2, <1>4
  <2> QED BY <2>1, <2>2
<1> QED BY <1>1, <1>2, <1>3, <1>4, <1>5 DEF Time, isValidTime

\* A date mktime() may leave: on the calendar of its year, or on the one of
\* the year 1900 years later.
CalendarDate(d) ==
  /\ d \in Carried /\ d.year >= 1900
  /\ OnCalendar(d) \/ OnCalendar(Shifted(d))

ClockInv ==
  /\ kind \in Kinds
  /\ kind = "clock" => /\ val = [date |-> val.date, time |-> val.time]
                       /\ CalendarDate(val.date)
                       /\ val.time \in Time /\ isValidTime(val.time)

LEMMA CalendarDateDay ==
  ASSUME NEW d, CalendarDate(d)
  PROVE  /\ d \in Carried /\ d.day <= 31 /\ d.year >= 1900
         /\ isLeapYear(d.year) = isLeapYear(d.year + 1900) => OnCalendar(d)
<1>1. d \in Carried /\ d.year \in Nat \ {0} /\ d.month \in 1..12 /\ d.day \in Nat \ {0} /\ d.year >= 1900
  BY DEF CalendarDate, Carried
<1>2. Shifted(d).year = d.year + 1900 /\ Shifted(d).month = d.month /\ Shifted(d).day = d.day
  BY <1>1 DEF Shifted, Carried
<1>3. daysOfMonth(d.year, d.month) \in 28..31 /\ daysOfMonth(d.year + 1900, d.month) \in 28..31
  BY <1>1, MonthsOfYear
<1>4. d.day <= 31
  BY <1>1, <1>2, <1>3 DEF CalendarDate, OnCalendar
<1>5. ASSUME isLeapYear(d.year) = isLeapYear(d.year + 1900) PROVE OnCalendar(d)
  <2>1. daysOfMonth(d.year, d.month) = daysOfMonth(d.year + 1900, d.month)
    BY <1>5 DEF daysOfMonth
  <2> QED BY <1>2, <2>1 DEF CalendarDate, OnCalendar
<1> QED BY <1>1, <1>4, <1>5

LEMMA ValidDate ==
  ASSUME NEW d \in Date
  PROVE  isValidDate(d) <=> d \in Carried /\ d.year >= 1900 /\ OnCalendar(d)
BY DEF isValidDate, Date, Carried, OnCalendar

\* addMinute() keeps the clock so.
LEMMA addMinuteKeeps ==
  ASSUME NEW a, a = [date |-> a.date, time |-> a.time], CalendarDate(a.date),
         a.time \in Time, isValidTime(a.time), NEW n \in Nat
  PROVE  /\ addMinute(a, n) = [date |-> addDay(a.date, addMinuteDays(a.time, n)),
                               time |-> addMinuteToTime(a.time, n)]
         /\ CalendarDate(addMinute(a, n).date)
         /\ addMinute(a, n).time \in Time /\ isValidTime(addMinute(a, n).time)
<1>1. addMinute(a, n) = [date |-> addDay(a.date, addMinuteDays(a.time, n)),
                         time |-> addMinuteToTime(a.time, n)]
  BY DEF addMinute
<1>2. /\ addMinuteDays(a.time, n) \in Nat
      /\ addMinuteToTime(a.time, n) \in Time /\ isValidTime(addMinuteToTime(a.time, n))
  BY MinutesCarry
<1>3. a.date \in Carried /\ a.date.day <= 31 /\ a.date.year >= 1900 /\ a.date.year \in Nat
  BY CalendarDateDay DEF Carried
<1> DEFINE e == addDay(a.date, addMinuteDays(a.time, n))
<1>4. e \in Carried /\ e.year >= a.date.year /\ OnCalendar(Shifted(e))
  BY <1>2, <1>3, addDayEnds
<1>5. e.year \in Nat
  BY <1>4 DEF Carried
<1> HIDE DEF e
<1>6. CalendarDate(e)
  BY <1>3, <1>4, <1>5 DEF CalendarDate
<1> QED BY <1>1, <1>2, <1>6 DEF e

LEMMA ClockInit == Init => ClockInv
<1> SUFFICES ASSUME Init PROVE ClockInv
  OBVIOUS
<1>1. kind \in Kinds
  BY DEF Init
<1>2. ASSUME kind = "clock"
      PROVE  /\ val = [date |-> val.date, time |-> val.time] /\ CalendarDate(val.date)
             /\ val.time \in Time /\ isValidTime(val.time)
  <2>1. val \in Clocks
    BY <1>2 DEF Init
  <2>2. val \in [date : Date, time : Time] /\ isValidDateTime(val)
    BY <2>1, ClocksAssumption
  <2>3. val.date \in Date /\ isValidDate(val.date)
    BY <2>2 DEF isValidDateTime
  <2>4. CalendarDate(val.date)
    BY <2>3, ValidDate DEF CalendarDate
  <2> QED BY <2>2, <2>4 DEF isValidDateTime
<1> QED BY <1>1, <1>2 DEF ClockInv

\* The actions of each kind of parameter.
MovesClock == \E n \in Minutes : AddMinute(n)
Moves4     == Reset4 \/ (\E t \in Texts : Assign4(t)) \/ (\E m \in Netmasks : SetNetmask4(m))
Moves6     == Reset6 \/ (\E t \in Texts : Assign6(t)) \/ (\E t \in Texts : AssignIPv4(t)) \/ (\E w \in WordLists : SetWords(w))
MovesRange ==
  \/ \E t \in Texts : SetFrom(t) \/ SetTo(t) \/ SetToObject(t)
  \/ \E t \in AddressTexts : SetAddressFrom(t) \/ SetAddressTo(t)
  \/ \E m \in {24, 96} : SetNetmaskTo(m)
MovesPort ==
  \/ \E n \in 0..MaxChars : AssignPort(n)
  \/ \E n \in Chars \cap Digit : AssignNumber(n)
  \/ \E n \in 0..2 : AssignPortParam(n)
  \/ CopyPort
MovesSID == (\E i \in SubIDs : AddID(i)) \/ AssignHex

\* Every action keeps the kind, and is one of its kind.
LEMMA Moves ==
  ASSUME [Next]_vars
  PROVE  /\ kind' = kind
         /\ kind = "clock" => val' = val \/ MovesClock
         /\ kind = "v4"    => val' = val \/ Moves4
         /\ kind = "v6"    => val' = val \/ Moves6
         /\ kind = "range" => val' = val \/ MovesRange
         /\ kind = "port"  => val' = val \/ MovesPort
         /\ kind = "sid"   => val' = val \/ MovesSID
<1>1. UNCHANGED vars => kind' = kind /\ val' = val
  BY DEF vars
<1>2. MovesClock => kind = "clock" /\ kind' = kind
  BY Zenon DEF MovesClock, AddMinute, Change
<1>3. Moves4 => kind = "v4" /\ kind' = kind
  BY Zenon DEF Moves4, Reset4, Assign4, SetNetmask4, Change
<1>4. Moves6 => kind = "v6" /\ kind' = kind
  BY Zenon DEF Moves6, Reset6, Assign6, AssignIPv4, SetWords, Change
<1>5. MovesRange => kind = "range" /\ kind' = kind
  BY Zenon DEF MovesRange, SetFrom, SetTo, SetToObject, SetAddressFrom, SetAddressTo, SetNetmaskTo, Change
<1>6. MovesPort => kind = "port" /\ kind' = kind
  BY Zenon DEF MovesPort, AssignPort, AssignNumber, AssignPortParam, CopyPort, Change
<1>7. MovesSID => kind = "sid" /\ kind' = kind
  BY Zenon DEF MovesSID, AddID, AssignHex, Change
<1>8. Next => MovesClock \/ Moves4 \/ Moves6 \/ MovesRange \/ MovesPort \/ MovesSID
  BY Zenon DEF Next, MovesClock, Moves4, Moves6, MovesRange, MovesPort, MovesSID
<1>9. UNCHANGED vars \/ MovesClock \/ Moves4 \/ Moves6 \/ MovesRange \/ MovesPort \/ MovesSID
  BY <1>8, Zenon
<1> QED BY <1>1, <1>2, <1>3, <1>4, <1>5, <1>6, <1>7, <1>9

LEMMA ClockNext == ClockInv /\ [Next]_vars => ClockInv'
<1> SUFFICES ASSUME ClockInv, [Next]_vars PROVE ClockInv'
  OBVIOUS
<1>1. kind' = kind /\ (kind = "clock" => val' = val \/ \E n \in Minutes : AddMinute(n))
  BY Moves, Zenon DEF MovesClock
<1>2. CASE kind # "clock" \/ val' = val
  BY <1>1, <1>2 DEF ClockInv
<1>3. CASE kind = "clock" /\ \E n \in Minutes : AddMinute(n)
  <2>1. PICK n \in Minutes : AddMinute(n)
    BY <1>3
  <2>2. n \in Nat /\ val' = addMinute(val, n)
    BY <2>1, ClocksAssumption DEF AddMinute, Change
  <2>3. /\ val' = [date |-> val'.date, time |-> val'.time]
        /\ CalendarDate(val'.date) /\ val'.time \in Time /\ isValidTime(val'.time)
    <3>1. /\ addMinute(val, n) = [date |-> addDay(val.date, addMinuteDays(val.time, n)),
                                  time |-> addMinuteToTime(val.time, n)]
          /\ CalendarDate(addMinute(val, n).date)
          /\ addMinute(val, n).time \in Time /\ isValidTime(addMinute(val, n).time)
      BY <1>3, <2>2, addMinuteKeeps DEF ClockInv
    <3> QED BY <2>2, <3>1, Zenon
  <2> QED BY <1>1, <2>3 DEF ClockInv
<1> QED BY <1>1, <1>2, <1>3

\* Of two dates, one is before the other or they are the same.
LEMMA DateOrder ==
  ASSUME NEW d \in Carried, NEW e \in Carried
  PROVE  DateLess(d, e) \/ DateLess(e, d) \/ d = e
<1>1. /\ d.year \in Int /\ d.month \in Int /\ d.day \in Int
      /\ e.year \in Int /\ e.month \in Int /\ e.day \in Int
  BY DEF Carried
<1>2. CASE d.year # e.year
  <2>1. d.year < e.year \/ e.year < d.year
    BY <1>1, <1>2
  <2> QED BY <1>1, <2>1 DEF DateLess, Before, DateFields
<1>3. CASE d.year = e.year /\ d.month # e.month
  <2>1. d.month < e.month \/ e.month < d.month
    BY <1>1, <1>3
  <2> QED BY <1>1, <1>3, <2>1 DEF DateLess, Before, DateFields
<1>4. CASE d.year = e.year /\ d.month = e.month /\ d.day # e.day
  <2>1. d.day < e.day \/ e.day < d.day
    BY <1>1, <1>4
  <2> QED BY <1>1, <1>4, <2>1 DEF DateLess, Before, DateFields
<1>5. CASE d.year = e.year /\ d.month = e.month /\ d.day = e.day
  BY <1>5 DEF Carried
<1> QED BY <1>2, <1>3, <1>4, <1>5

\* A time of day in seconds; days and a time of day in minutes.
SecondsAt(h, m, s) == (h * 3600) + (m * 60) + s
MinutesAt(d, h, m) == (d * 1440) + (h * 60) + m

LEMMA SecondsOrder ==
  ASSUME NEW a \in 0..23, NEW b \in 0..59, NEW c \in 0..59,
         NEW x \in 0..23, NEW y \in 0..59, NEW z \in 0..59
  PROVE  /\ a < x \/ (a = x /\ b < y) \/ (a = x /\ b = y /\ c < z)
            => SecondsAt(a, b, c) < SecondsAt(x, y, z)
         /\ MinutesAt(0, a, b) < MinutesAt(0, x, y) => a < x \/ (a = x /\ b < y)
<1>1. CASE a < x
  <2>1. a + 1 <= x
    BY <1>1
  <2>2. (a * 3600) + 3600 <= x * 3600
    BY <2>1
  <2> QED BY <1>1, <2>2 DEF SecondsAt, MinutesAt
<1>2. CASE a = x
  BY <1>2 DEF SecondsAt, MinutesAt
<1>3. CASE x < a
  <2>1. (x * 60) + 60 <= a * 60
    BY <1>3
  <2> QED BY <1>3, <2>1 DEF SecondsAt, MinutesAt
<1> QED BY <1>1, <1>2, <1>3

LEMMA DaysInMinutes ==
  ASSUME NEW a \in Int, NEW d \in Int, NEW h \in Int, NEW m \in Int
  PROVE  MinutesAt(a + d, h, m) = (a * 1440) + MinutesAt(d, h, m) /\ MinutesAt(d, h, m) \in Int
BY DEF MinutesAt

LEMMA TimeOrder ==
  ASSUME NEW t \in Time, NEW u \in Time
  PROVE  /\ TimeLess(t, u) \/ TimeLess(u, t) \/ t = u
         /\ isValidTime(t) /\ isValidTime(u) =>
              /\ TimeLess(t, u) => secondsOfTime(t) < secondsOfTime(u)
              /\ (t.hour * 60) + t.minute < (u.hour * 60) + u.minute => TimeLess(t, u)
<1>1. /\ t.hour \in Nat /\ t.minute \in Nat /\ t.second \in Nat
      /\ u.hour \in Nat /\ u.minute \in Nat /\ u.second \in Nat
  BY DEF Time
<1>2. TimeLess(t, u) <=> \/ t.hour < u.hour
                         \/ t.hour = u.hour /\ t.minute < u.minute
                         \/ t.hour = u.hour /\ t.minute = u.minute /\ t.second < u.second
  BY <1>1 DEF TimeLess, Before, TimeFields
<1>3. TimeLess(u, t) <=> \/ u.hour < t.hour
                         \/ u.hour = t.hour /\ u.minute < t.minute
                         \/ u.hour = t.hour /\ u.minute = t.minute /\ u.second < t.second
  BY <1>1 DEF TimeLess, Before, TimeFields
<1>4. t = u <=> t.hour = u.hour /\ t.minute = u.minute /\ t.second = u.second
  BY DEF Time
<1>5. ASSUME isValidTime(t), isValidTime(u)
      PROVE  /\ TimeLess(t, u) => secondsOfTime(t) < secondsOfTime(u)
             /\ (t.hour * 60) + t.minute < (u.hour * 60) + u.minute => TimeLess(t, u)
  <2>1. /\ t.hour \in 0..23 /\ t.minute \in 0..59 /\ t.second \in 0..59
        /\ u.hour \in 0..23 /\ u.minute \in 0..59 /\ u.second \in 0..59
    BY <1>1, <1>5 DEF isValidTime
  <2>2. TimeLess(t, u) => secondsOfTime(t) < secondsOfTime(u)
    <3> DEFINE earlier == \/ t.hour < u.hour
                          \/ t.hour = u.hour /\ t.minute < u.minute
                          \/ t.hour = u.hour /\ t.minute = u.minute /\ t.second < u.second
    <3>1. earlier => SecondsAt(t.hour, t.minute, t.second) < SecondsAt(u.hour, u.minute, u.second)
      BY <2>1, SecondsOrder, ZenonT(30)
    <3>2. /\ secondsOfTime(t) = SecondsAt(t.hour, t.minute, t.second)
          /\ secondsOfTime(u) = SecondsAt(u.hour, u.minute, u.second)
      BY DEF secondsOfTime, SecondsAt
    <3> QED BY <1>2, <3>1, <3>2
  <2>3. (t.hour * 60) + t.minute < (u.hour * 60) + u.minute => TimeLess(t, u)
    <3>1. MinutesAt(0, t.hour, t.minute) < MinutesAt(0, u.hour, u.minute)
            => t.hour < u.hour \/ (t.hour = u.hour /\ t.minute < u.minute)
      BY <2>1, SecondsOrder, Zenon
    <3>2. /\ MinutesAt(0, t.hour, t.minute) = (t.hour * 60) + t.minute
          /\ MinutesAt(0, u.hour, u.minute) = (u.hour * 60) + u.minute
      BY <2>1 DEF MinutesAt
    <3> QED BY <1>2, <3>1, <3>2
  <2> QED BY <2>2, <2>3
<1> QED BY <1>1, <1>2, <1>3, <1>4, <1>5

LEMMA addMinuteExact ==
  ASSUME NEW a, a = [date |-> a.date, time |-> a.time], CalendarDate(a.date),
         a.time \in Time, isValidTime(a.time), NEW n \in Nat \ {0},
         \A y \in a.date.year..addMinute(a, n).date.year : isLeapYear(y) = isLeapYear(y + 1900)
  PROVE  TrueMinutes(addMinute(a, n)) = TrueMinutes(a) + n /\ DateTimeLess(a, addMinute(a, n))
<1> DEFINE b == addMinute(a, n)
           k == addMinuteDays(a.time, n)
<1>1. /\ b = [date |-> addDay(a.date, k), time |-> addMinuteToTime(a.time, n)]
      /\ CalendarDate(b.date) /\ b.time \in Time /\ isValidTime(b.time)
  BY addMinuteKeeps
<1>2. /\ k \in Nat
      /\ (k * 1440) + (b.time.hour * 60) + b.time.minute = (a.time.hour * 60) + a.time.minute + n
  BY <1>1, MinutesCarry
<1>3. /\ a.date \in Carried /\ a.date.day <= 31 /\ a.date.year \in Nat
      /\ b.date \in Carried /\ b.date.year \in Nat /\ b.date.year >= a.date.year
  BY <1>1, <1>2, CalendarDateDay, addDayEnds DEF Carried
<1>4. OnCalendar(a.date) /\ OnCalendar(b.date)
  <2>1. a.date.year \in a.date.year..b.date.year /\ b.date.year \in a.date.year..b.date.year
    BY <1>3
  <2> QED BY <1>1, <2>1, CalendarDateDay
<1> HIDE DEF k
<1>5. TrueDays(b.date) = TrueDays(a.date) + k
  BY <1>1, <1>2, <1>3, addDayExact
<1>6. TrueDays(a.date) \in Int /\ TrueDays(b.date) \in Int
  BY <1>3, TrueDaysForm
<1>7. /\ a.time.hour \in 0..23 /\ a.time.minute \in 0..59 /\ b.time.hour \in 0..23 /\ b.time.minute \in 0..59
  BY <1>1 DEF Time, isValidTime
<1> HIDE DEF b
<1>8. TrueMinutes(b) = TrueMinutes(a) + n
  <2>1. /\ TrueMinutes(b) = MinutesAt(TrueDays(b.date), b.time.hour, b.time.minute)
        /\ TrueMinutes(a) = MinutesAt(TrueDays(a.date), a.time.hour, a.time.minute)
    BY DEF TrueMinutes, MinutesAt
  <2>2. /\ b.time.hour \in Int /\ b.time.minute \in Int /\ a.time.hour \in Int /\ a.time.minute \in Int
        /\ k \in Int /\ n \in Int
    BY <1>2, <1>7
  <2>3. MinutesAt(k, b.time.hour, b.time.minute) = MinutesAt(0, a.time.hour, a.time.minute) + n
    BY <1>2, <2>2 DEF MinutesAt
  <2>4. /\ MinutesAt(TrueDays(a.date) + k, b.time.hour, b.time.minute)
             = (TrueDays(a.date) * 1440) + MinutesAt(k, b.time.hour, b.time.minute)
        /\ MinutesAt(k, b.time.hour, b.time.minute) \in Int
    BY <1>6, <2>2, DaysInMinutes
  <2>5. /\ MinutesAt(TrueDays(a.date), a.time.hour, a.time.minute)
             = (TrueDays(a.date) * 1440) + MinutesAt(0, a.time.hour, a.time.minute)
        /\ MinutesAt(0, a.time.hour, a.time.minute) \in Int
    <3>1. TrueDays(a.date) + 0 = TrueDays(a.date) /\ 0 \in Int
      BY <1>6
    <3>2. /\ MinutesAt(TrueDays(a.date) + 0, a.time.hour, a.time.minute)
               = (TrueDays(a.date) * 1440) + MinutesAt(0, a.time.hour, a.time.minute)
          /\ MinutesAt(0, a.time.hour, a.time.minute) \in Int
      BY <1>6, <2>2, <3>1, DaysInMinutes
    <3> QED BY <3>1, <3>2
  <2>6. TrueDays(a.date) * 1440 \in Int
    BY <1>6
  <2> QED BY <1>5, <2>1, <2>2, <2>3, <2>4, <2>5, <2>6
<1>9. DateTimeLess(a, b)
  <2>1. CASE k = 0
    <3>1. ~DateLess(a.date, b.date) /\ ~DateLess(b.date, a.date)
      <4>1. TrueDays(a.date) = TrueDays(b.date)
        BY <1>5, <1>6, <2>1
      <4> QED BY <1>3, <1>4, <1>6, <4>1, TrueDaysGrow
    <3>2. a.date = b.date
      BY <1>3, <3>1, DateOrder
    <3>3. (a.time.hour * 60) + a.time.minute < (b.time.hour * 60) + b.time.minute
      BY <1>2, <1>7, <2>1
    <3>4. TimeLess(a.time, b.time)
      BY <1>1, <3>3, TimeOrder
    <3> QED BY <3>2, <3>4 DEF DateTimeLess
  <2>2. CASE k # 0
    <3>1. TrueDays(a.date) < TrueDays(b.date)
      BY <1>2, <1>5, <1>6, <2>2
    <3>2. a.date # b.date /\ ~DateLess(b.date, a.date)
      <4>1. DateLess(b.date, a.date) => TrueDays(b.date) < TrueDays(a.date)
        BY <1>3, <1>4, TrueDaysGrow
      <4> QED BY <1>6, <3>1, <4>1
    <3> QED BY <1>3, <3>2, DateOrder DEF DateTimeLess
  <2> QED BY <2>1, <2>2
<1> QED BY <1>8, <1>9 DEF b

\* The clock moves by exactly the minutes given, whatever date, time and
\* minutes: src/sparam.cpp:695-703, 848 and DateParam::addDay().
THEOREM ValueParamsClockExact == Spec => ClockExact
<1>1. Init => ClockInv
  BY ClockInit
<1>2. ClockInv /\ [Next]_vars => ClockInv'
  BY ClockNext
<1>3. ClockInv /\ [Next]_vars =>
        [\A n \in Minutes :
           AddMinute(n) /\ (\A y \in val.date.year..val'.date.year : isLeapYear(y) = isLeapYear(y + 1900))
           => TrueMinutes(val') = TrueMinutes(val) + n /\ DateTimeLess(val, val')]_vars
  <2> SUFFICES ASSUME ClockInv, NEW n \in Minutes, AddMinute(n),
                      \A y \in val.date.year..val'.date.year : isLeapYear(y) = isLeapYear(y + 1900)
               PROVE  TrueMinutes(val') = TrueMinutes(val) + n /\ DateTimeLess(val, val')
    OBVIOUS
  <2>1. val' = addMinute(val, n) /\ kind = "clock"
    BY DEF AddMinute, Change
  <2>2. n \in Nat \ {0}
    BY ClocksAssumption
  <2>3. /\ val = [date |-> val.date, time |-> val.time] /\ CalendarDate(val.date)
        /\ val.time \in Time /\ isValidTime(val.time)
    BY <2>1 DEF ClockInv
  <2>4. \A y \in val.date.year..addMinute(val, n).date.year : isLeapYear(y) = isLeapYear(y + 1900)
    <3>1. val'.date.year = addMinute(val, n).date.year
      BY <2>1
    <3> QED BY <3>1
  <2>5. TrueMinutes(addMinute(val, n)) = TrueMinutes(val) + n /\ DateTimeLess(val, addMinute(val, n))
    BY <2>2, <2>3, <2>4, addMinuteExact
  <2> QED BY <2>1, <2>5, Zenon
<1> QED BY <1>1, <1>2, <1>3, PTL DEF Spec, ClockExact

-----------------------------------------------------------------------------
(* Differences of dates and times, and the clock's fields.                  *)

\* Where year + 1900 has a February 29th and the year has none (2100 is the
\* first such year) mktime() may leave a day that the calendar has not; the
\* theorems below are about clocks that stay before it and that move by at
\* most a year at a time.
NoFalseLeapDay == LastYear \in Nat /\ LastYear < 2100 /\ \A n \in Minutes : n <= 365 * 1440

LEMMA LeapYears ==
  ASSUME NEW y \in 1900..2099
  PROVE  isLeapYear(y + 1900) => isLeapYear(y)
<1> SUFFICES ASSUME isLeapYear(y + 1900) PROVE isLeapYear(y)
  OBVIOUS
<1>1. y % 4 = 0 /\ (y + 1900) % 400 # 0
  <2>1. (y + 1900) % 4 = 0
    BY DEF isLeapYear
  <2>2. (y + 1900) % 400 # 0
    OBVIOUS
  <2>3. y % 4 = 0
    BY <2>1
  <2> QED BY <2>2, <2>3
<1>2. (y + 1900) % 100 # 0
  BY <1>1 DEF isLeapYear
<1>3. y % 100 # 0
  BY <1>2
<1> QED BY <1>1, <1>3 DEF isLeapYear

\* A clock is on its calendar.
ClockValid == kind = "clock" => val.date \in Date /\ isValidDate(val.date)

LEMMA ClockValidInit == Init => ClockValid
<1> SUFFICES ASSUME Init, kind = "clock" PROVE val.date \in Date /\ isValidDate(val.date)
  BY DEF ClockValid
<1>1. val \in Clocks
  BY DEF Init
<1> QED BY <1>1, ClocksAssumption DEF isValidDateTime

LEMMA ClockValidNext ==
  ASSUME NoFalseLeapDay
  PROVE  ClockInv /\ ClockValid /\ [Next]_vars => ClockValid'
<1> SUFFICES ASSUME ClockInv, ClockValid, [Next]_vars, kind' = "clock"
             PROVE  val'.date \in Date /\ isValidDate(val'.date)
  BY DEF ClockValid
<1>1. kind = "clock" /\ (val' = val \/ \E n \in Minutes : AddMinute(n))
  BY Moves, Zenon DEF MovesClock
<1>2. CASE val' = val
  BY <1>1, <1>2 DEF ClockValid
<1>3. CASE \E n \in Minutes : AddMinute(n)
  <2>1. PICK n \in Minutes : AddMinute(n)
    BY <1>3
  <2>2. n \in Nat /\ n <= 365 * 1440 /\ val.date.year < LastYear /\ val' = addMinute(val, n)
    BY <2>1, ClocksAssumption DEF AddMinute, Change, NoFalseLeapDay
  <2>3. /\ val = [date |-> val.date, time |-> val.time] /\ CalendarDate(val.date)
        /\ val.time \in Time /\ isValidTime(val.time)
    BY <1>1 DEF ClockInv
  <2> DEFINE k == addMinuteDays(val.time, n)
             e == addDay(val.date, k)
             t == addMinuteToTime(val.time, n)
  <2>4. val'.date = e
    <3>1. addMinute(val, n) = [date |-> e, time |-> t]
      BY DEF addMinute
    <3> QED BY <2>2, <3>1
  <2>5. k \in Nat /\ k <= 365
    <3>1. /\ k \in Nat /\ t.hour \in 0..23 /\ t.minute \in 0..59
          /\ (k * 1440) + (t.hour * 60) + t.minute = (val.time.hour * 60) + val.time.minute + n
      <4>1. k \in Nat /\ t \in Time /\ isValidTime(t)
        BY <2>2, <2>3, MinutesCarry
      <4>2. (k * 1440) + (t.hour * 60) + t.minute = (val.time.hour * 60) + val.time.minute + n
        BY <2>2, <2>3, MinutesCarry
      <4> HIDE DEF k, t
      <4> QED BY <4>1, <4>2 DEF Time, isValidTime
    <3>2. val.time.hour \in 0..23 /\ val.time.minute \in 0..59
      BY <2>3 DEF Time, isValidTime
    <3> HIDE DEF k, t
    <3> HIDE DEF k, t
    <3>a. PICK i \in Nat : i = k
      BY <3>1
    <3>b. PICK a \in 0..23 : a = t.hour
      BY <3>1
    <3>c. PICK b \in 0..59 : b = t.minute
      BY <3>1
    <3>d. PICK c \in 0..23 : c = val.time.hour
      BY <3>2
    <3>e. PICK d \in 0..59 : d = val.time.minute
      BY <3>2
    <3>4. (i * 1440) + (a * 60) + b = (c * 60) + d + n
      BY <3>1, <3>a, <3>b, <3>c, <3>d, <3>e
    <3>5. i <= 365
      BY <2>2, <3>4, SMT
    <3> QED BY <3>1, <3>a, <3>5
  <2> HIDE DEF k
  <2>6. val.date \in Carried /\ val.date.day <= 31 /\ val.date.year >= 1900 /\ val.date.year \in Nat
    BY <2>3, CalendarDateDay DEF Carried
  <2>7. e \in Carried /\ e.year >= val.date.year /\ OnCalendar(Shifted(e)) /\ e.year <= val.date.year + 1
    <3>2. e \in Carried /\ e.year >= val.date.year /\ OnCalendar(Shifted(e))
      BY <2>5, <2>6, addDayEnds
    <3>3. e.year <= val.date.year + 1
      BY <2>5, <2>6, addDayYear
    <3> QED BY <3>2, <3>3
  <2> HIDE DEF e
  <2>8. e.year \in 1900..2099 /\ e.month \in 1..12 /\ e.day \in Nat \ {0}
    BY <2>2, <2>6, <2>7 DEF Carried, NoFalseLeapDay
  <2>9. OnCalendar(e)
    <3>1. Shifted(e).year = e.year + 1900 /\ Shifted(e).month = e.month /\ Shifted(e).day = e.day
      BY <2>7 DEF Shifted, Carried
    <3>2. isLeapYear(e.year + 1900) => isLeapYear(e.year)
      BY <2>8, LeapYears
    <3>3. e.day <= daysOfMonth(e.year + 1900, e.month)
      BY <2>7, <3>1 DEF OnCalendar
    <3>4. e.day \in Int
      BY <2>8
    <3> QED BY <3>2, <3>3, <3>4 DEF OnCalendar, daysOfMonth
  <2>10. e \in Date
    BY <2>7 DEF Carried, Date
  <2> QED BY <2>4, <2>7, <2>8, <2>9, <2>10, ValidDate
<1> QED BY <1>1, <1>2, <1>3

\* The seconds of a day, a number to be kept folded.
Day == 86400

LEMMA SecondsInDay ==
  ASSUME NEW h \in 0..23, NEW m \in 0..59, NEW s \in 0..59
  PROVE  SecondsAt(h, m, s) \in Nat /\ SecondsAt(h, m, s) < Day
BY SMT DEF SecondsAt, Day

LEMMA Around ==
  ASSUME NEW a \in Nat, NEW b \in Nat, a < Day, b < Day
  PROVE  /\ b < a => (Day - a) + b \in 0..Day /\ (a + ((Day - a) + b)) % Day = b
         /\ a <= b => (0 - a) + b \in 0..Day /\ (a + ((0 - a) + b)) % Day = b
<1>0. Day \in Nat
  BY SMT DEF Day
<1>1. b < a => (Day - a) + b \in 0..Day
  BY <1>0
<1>a. a + ((Day - a) + b) = Day + b
  BY <1>0
<1>b. (Day + b) % Day = b
  BY SMT DEF Day
<1>2. a <= b => (0 - a) + b \in 0..Day
  BY <1>0
<1>3. a + ((0 - a) + b) = b
  OBVIOUS
<1>4. b % Day = b
  BY SMT DEF Day
<1> QED BY <1>1, <1>a, <1>b, <1>2, <1>3, <1>4

LEMMA TimeForms ==
  ASSUME NEW t, NEW u
  PROVE  /\ secondsOfTime(t) = SecondsAt(t.hour, t.minute, t.second)
         /\ TimeLess(u, t) => TimeMinus(t, u) = (Day - secondsOfTime(t)) + secondsOfTime(u)
         /\ ~TimeLess(u, t) => TimeMinus(t, u) = (0 - secondsOfTime(t)) + secondsOfTime(u)
<1>1. secondsOfTime(t) = SecondsAt(t.hour, t.minute, t.second)
  BY DEF secondsOfTime, SecondsAt
<1>2. TimeLess(u, t) => TimeMinus(t, u) = (Day - secondsOfTime(t)) + secondsOfTime(u)
  BY SMT DEF TimeMinus, Day
<1>3. ~TimeLess(u, t) => TimeMinus(t, u) = (0 - secondsOfTime(t)) + secondsOfTime(u)
  BY SMT DEF TimeMinus
<1> QED BY <1>1, <1>2, <1>3

\* The difference and the sum of two times of day.
LEMMA TimeDifferences ==
  ASSUME NEW t \in Time, isValidTime(t), NEW u \in Time, isValidTime(u)
  PROVE  TimesExact(t, u)
<1>1. /\ t.hour \in 0..23 /\ t.minute \in 0..59 /\ t.second \in 0..59
      /\ u.hour \in 0..23 /\ u.minute \in 0..59 /\ u.second \in 0..59
  BY DEF Time, isValidTime
<1>a. /\ secondsOfTime(t) = SecondsAt(t.hour, t.minute, t.second)
      /\ secondsOfTime(u) = SecondsAt(u.hour, u.minute, u.second)
  BY TimeForms
<1>2. /\ secondsOfTime(t) \in Nat /\ secondsOfTime(t) < Day
      /\ secondsOfTime(u) \in Nat /\ secondsOfTime(u) < Day
  <2>1. /\ SecondsAt(t.hour, t.minute, t.second) \in Nat /\ SecondsAt(t.hour, t.minute, t.second) < Day
        /\ SecondsAt(u.hour, u.minute, u.second) \in Nat /\ SecondsAt(u.hour, u.minute, u.second) < Day
    BY <1>1, SecondsInDay, Zenon
  <2> QED BY <1>a, <2>1
<1>3. /\ TimeMinus(t, u) \in 0..Day
      /\ (secondsOfTime(t) + TimeMinus(t, u)) % Day = secondsOfTime(u)
  <2>1. PICK a \in Nat, b \in Nat : a = secondsOfTime(t) /\ b = secondsOfTime(u)
    BY <1>2
  <2>2. CASE TimeLess(u, t)
    <3>1. b < a
      BY <2>1, <2>2, TimeOrder
    <3>2. TimeMinus(t, u) = (Day - a) + b
      BY <2>1, <2>2, TimeForms
    <3>3. (Day - a) + b \in 0..Day /\ (a + ((Day - a) + b)) % Day = b
      BY <1>2, <2>1, <3>1, Around
    <3> QED BY <2>1, <3>2, <3>3
  <2>3. CASE ~TimeLess(u, t)
    <3>1. a <= b
      <4>1. TimeLess(t, u) \/ t = u
        BY <2>3, TimeOrder
      <4>2. CASE TimeLess(t, u)
        <5>1. secondsOfTime(t) < secondsOfTime(u)
          BY <4>2, TimeOrder
        <5> QED BY <2>1, <5>1
      <4>3. CASE t = u
        BY <2>1, <4>3
      <4> QED BY <4>1, <4>2, <4>3
    <3>2. TimeMinus(t, u) = (0 - a) + b
      BY <2>1, <2>3, TimeForms
    <3>3. (0 - a) + b \in 0..Day /\ (a + ((0 - a) + b)) % Day = b
      BY <1>2, <2>1, <3>1, Around
    <3> QED BY <2>1, <3>2, <3>3
  <2> QED BY <2>2, <2>3
<1>4. secondsOfTime(TimePlus(t, u)) + (Day * TimeAddDays(t, u)) = secondsOfTime(t) + secondsOfTime(u)
  <2> DEFINE s == t.second + u.second
             m == t.minute + u.minute + (s \div 60)
             h == t.hour + u.hour + (m \div 60)
  <2>1. TimeSum(t, u) = [hour |-> h, minute |-> m % 60, second |-> s % 60]
    BY DEF TimeSum
  <2>2. TimePlus(t, u) = [hour |-> h % 24, minute |-> m % 60, second |-> s % 60]
        /\ TimeAddDays(t, u) = (h \div 24) % 256
    BY <2>1 DEF TimePlus, TimeAddDays
  <2>3. s = t.second + u.second /\ m = t.minute + u.minute + (s \div 60) /\ h = t.hour + u.hour + (m \div 60)
    OBVIOUS
  <2> HIDE DEF s, m, h
  <2>4. secondsOfTime(TimePlus(t, u)) = SecondsAt(h % 24, m % 60, s % 60)
    BY <2>2, TimeForms
  <2>5. /\ SecondsAt(h % 24, m % 60, s % 60) + (Day * (h \div 24))
             = SecondsAt(t.hour, t.minute, t.second) + SecondsAt(u.hour, u.minute, u.second)
        /\ (h \div 24) % 256 = h \div 24
    <3>1. PICK th \in 0..23, uh \in 0..23 : th = t.hour /\ uh = u.hour
      BY <1>1
    <3>2. PICK tm \in 0..59, um \in 0..59 : tm = t.minute /\ um = u.minute
      BY <1>1
    <3>3. PICK ts \in 0..59, us \in 0..59 : ts = t.second /\ us = u.second
      BY <1>1
    <3>4. s = ts + us /\ m = tm + um + (s \div 60) /\ h = th + uh + (m \div 60)
      BY <2>3, <3>1, <3>2, <3>3
    <3>5. s \in 0..118
      BY <3>4
    <3>6. s \div 60 \in 0..1 /\ s % 60 \in 0..59 /\ s = (60 * (s \div 60)) + (s % 60)
      BY <3>5
    <3>7. m \in 0..119
      BY <3>4, <3>6
    <3>8. m \div 60 \in 0..1 /\ m % 60 \in 0..59 /\ m = (60 * (m \div 60)) + (m % 60)
      BY <3>7
    <3>9. h \in 0..47
      BY <3>4, <3>8
    <3>10. h \div 24 \in 0..1 /\ h % 24 \in 0..23 /\ h = (24 * (h \div 24)) + (h % 24)
      BY <3>9
    <3>11. PICK a \in 0..1, x \in 0..23 : a = h \div 24 /\ x = h % 24
      BY <3>10
    <3>12. PICK b \in 0..1, y \in 0..59 : b = m \div 60 /\ y = m % 60
      BY <3>8
    <3>13. PICK c \in 0..1, z \in 0..59 : c = s \div 60 /\ z = s % 60
      BY <3>6
    <3>14. ts + us = (60 * c) + z /\ tm + um + c = (60 * b) + y /\ th + uh + b = (24 * a) + x
      BY <3>4, <3>6, <3>8, <3>10, <3>11, <3>12, <3>13
    <3>15. ((x * 3600) + (y * 60) + z) + (86400 * a) = ((th * 3600) + (tm * 60) + ts) + ((uh * 3600) + (um * 60) + us)
      BY <3>14, SMT
    <3>16. SecondsAt(x, y, z) + (Day * a) = SecondsAt(th, tm, ts) + SecondsAt(uh, um, us)
      BY <3>15, SMT DEF SecondsAt, Day
    <3>17. a % 256 = a
      BY <3>4
    <3> QED BY <3>1, <3>2, <3>3, <3>11, <3>12, <3>13, <3>16, <3>17
  <2> QED BY <1>a, <2>2, <2>4, <2>5
<1>5. TimesExact(t, u) <=>
        /\ secondsOfTime(TimePlus(t, u)) + (Day * TimeAddDays(t, u)) = secondsOfTime(t) + secondsOfTime(u)
        /\ TimeMinus(t, u) \in 0..Day
        /\ (secondsOfTime(t) + TimeMinus(t, u)) % Day = secondsOfTime(u)
  BY SMT DEF TimesExact, Day
<1> QED BY <1>3, <1>4, <1>5, Zenon

\* The days between two dates of one year.
LEMMA DateDifferences ==
  ASSUME NEW d \in Carried, OnCalendar(d), NEW e \in Carried, OnCalendar(e), e.year = d.year
  PROVE  DatesExact(d, e)
<1>1. /\ d.year \in Nat \ {0} /\ d.month \in 1..12 /\ d.day \in Nat \ {0}
      /\ e.year \in Nat \ {0} /\ e.month \in 1..12 /\ e.day \in Nat \ {0}
  BY DEF Carried
<1> DEFINE A == MonthStart(d.year, d.month)
           B == MonthStart(e.year, e.month)
           L == LeapDays(d.year)
           Y == ((d.year - 1) * 365) + ((d.year - 1) \div 4) + (IF isLeapYear(d.year - 1) THEN 1 ELSE 0)
<1>2. A \in Int /\ B \in Int /\ L \in Int /\ Y \in Int
  <2>1. A \in 0..335 /\ B \in 0..335
    BY <1>1, MonthsOfYear
  <2>2. L \in Int
    BY <1>1, LeapDaysStep
  <2> HIDE DEF A, B, L
  <2> QED BY <1>1, <2>1, <2>2
<1>3. daysOfDate(d) = Y + A + d.day /\ daysOfDate(e) = Y + B + e.day
  <2>1. DaysBeforeMonth(d.year, d.month) = A /\ DaysBeforeMonth(e.year, e.month) = B
    BY <1>1, MonthsOfYear
  <2> HIDE DEF A, B
  <2> QED BY <1>1, <2>1 DEF daysOfDate
<1>4. /\ TrueDays(d) = ((d.year - 1900) * 365) + L - 460 + A + d.day - 1
      /\ TrueDays(e) = ((e.year - 1900) * 365) + L - 460 + B + e.day - 1
  BY TrueDaysForm
<1> HIDE DEF A, B, L, Y
<1>5. DateMinus(d, e) = TrueDays(d) - TrueDays(e)
  <2> DEFINE Z == ((d.year - 1900) * 365) + L - 460
  <2>1. Z \in Int
    BY <1>1, <1>2
  <2>2. TrueDays(d) = Z + A + d.day - 1 /\ TrueDays(e) = Z + B + e.day - 1
    BY <1>4
  <2>3. DateMinus(d, e) = (Y + A + d.day) - (Y + B + e.day)
    BY <1>3, Zenon DEF DateMinus
  <2> HIDE DEF Z
  <2> QED BY <1>1, <1>2, <2>1, <2>2, <2>3
<1>6. TrueDays(d) \in Int /\ TrueDays(e) \in Int
  BY TrueDaysForm
<1>7. CASE DateLess(e, d)
  <2>1. TrueDays(e) < TrueDays(d)
    BY <1>7, TrueDaysGrow
  <2> QED BY <1>5, <1>6, <1>7, <2>1 DEF DatesExact
<1>8. CASE ~DateLess(e, d)
  <2>1. DateLess(d, e) \/ d = e
    BY <1>8, DateOrder
  <2>2. TrueDays(d) <= TrueDays(e)
    <3>1. DateLess(d, e) => TrueDays(d) < TrueDays(e)
      BY TrueDaysGrow
    <3> QED BY <1>6, <2>1, <3>1
  <2> QED BY <1>5, <1>6, <1>8, <2>2 DEF DatesExact
<1> QED BY <1>5, <1>7, <1>8 DEF DatesExact

\* Sums and differences of times lose no second, and differences of dates of
\* one year no day: src/sparam.cpp:362-388, 705-760.
THEOREM ValueParamsDifferencesExact ==
  ASSUME NoFalseLeapDay
  PROVE  Spec => []DifferencesExact
<1>1. Init => ClockInv /\ ClockValid
  BY ClockInit, ClockValidInit
<1>2. (ClockInv /\ ClockValid) /\ [Next]_vars => (ClockInv /\ ClockValid)'
  BY ClockNext, ClockValidNext
<1>3. ClockInv /\ ClockValid => DifferencesExact
  <2> SUFFICES ASSUME ClockInv, ClockValid, kind = "clock"
               PROVE  /\ \A u \in Times : TimesExact(val.time, u)
                      /\ \A e \in Dates : e.year = val.date.year => DatesExact(val.date, e)
    BY DEF DifferencesExact
  <2>1. ASSUME NEW u \in Times PROVE TimesExact(val.time, u)
    <3>1. u \in Time /\ isValidTime(u) /\ val.time \in Time /\ isValidTime(val.time)
      BY ClocksAssumption DEF ClockInv
    <3> QED BY <3>1, TimeDifferences
  <2>2. ASSUME NEW e \in Dates, e.year = val.date.year PROVE DatesExact(val.date, e)
    <3>1. e \in Carried /\ OnCalendar(e)
      BY ClocksAssumption, ValidDate
    <3>2. val.date \in Carried /\ OnCalendar(val.date)
      BY ValidDate DEF ClockValid
    <3> QED BY <2>2, <3>1, <3>2, DateDifferences
  <2> QED BY <2>1, <2>2
<1> QED BY <1>1, <1>2, <1>3, PTL DEF Spec

-----------------------------------------------------------------------------
(* Addresses of IPv4.                                                       *)

LEMMA MaxExists ==
  ASSUME NEW n \in Nat, NEW S \in SUBSET (0..n), S # {}
  PROVE  Max(S) \in S /\ \A y \in S : y <= Max(S)
<1> DEFINE T == {k \in Nat : \A R \in SUBSET (0..k) : R # {} => \E x \in R : \A y \in R : y <= x}
<1>1. 0 \in T
  <2> SUFFICES ASSUME NEW R \in SUBSET (0..0), R # {} PROVE \E x \in R : \A y \in R : y <= x
    OBVIOUS
  <2>1. \A y \in R : y = 0
    OBVIOUS
  <2>2. PICK x \in R : TRUE
    OBVIOUS
  <2>3. \A y \in R : y <= x
    BY <2>1
  <2> QED BY <2>3
<1>2. ASSUME NEW k \in Nat, k \in T PROVE k + 1 \in T
  <2> SUFFICES ASSUME NEW R \in SUBSET (0..(k + 1)), R # {}
               PROVE  \E x \in R : \A y \in R : y <= x
    OBVIOUS
  <2>1. CASE k + 1 \in R
    BY <2>1
  <2>2. CASE k + 1 \notin R
    <3>1. R \in SUBSET (0..k)
      BY <2>2
    <3> QED BY <1>2, <3>1
  <2> QED BY <2>1, <2>2
<1> HIDE DEF T
<1>3. n \in T
  BY <1>1, <1>2, NaturalsFrom0
<1>4. \E x \in S : \A y \in S : y <= x
  BY <1>3 DEF T
<1> DEFINE m == CHOOSE x \in S : \A y \in S : x >= y
<1>5. \E x \in S : \A y \in S : x >= y
  BY <1>4
<1>6. m \in S /\ \A y \in S : m >= y
  BY <1>5, Zenon
<1>7. Max(S) = m
  BY DEF Max
<1> HIDE DEF m
<1> QED BY <1>6, <1>7

Bytes == [1..4 -> Byte]
Words == [1..8 -> Word]
Part  == Int \union {Blank, Letters}

LEMMA PartsType ==
  ASSUME NEW n \in Int
  PROVE  compactToParts(n) \in Bytes
<1>1. ASSUME NEW i \in 1..4 PROVE (n \div 2^(8 * (4 - i))) % 256 \in 0..255
  <2> DEFINE e == 8 * (4 - i)
             p == 2^e
  <2>1. e \in {0, 8, 16, 24}
    OBVIOUS
  <2> HIDE DEF e
  <2>2. p \in Nat \ {0}
    <3>1. 2^0 \in Nat \ {0} /\ 2^8 \in Nat \ {0} /\ 2^16 \in Nat \ {0} /\ 2^24 \in Nat \ {0}
      BY SMT
    <3>2. p \in {2^0, 2^8, 2^16, 2^24}
      BY <2>1, Zenon
    <3> QED BY <3>1, <3>2
  <2> HIDE DEF p
  <2>3. n \div p \in Int
    BY <2>2
  <2>4. (n \div p) % 256 \in 0..255
    BY <2>3
  <2> QED BY <2>4 DEF p, e
<1> QED BY <1>1 DEF compactToParts, Bytes, Byte

LEMMA PrefixType ==
  ASSUME NEW bits
  PROVE  convertCompactNetmaskToSimple(bits) \in -1..31
<1> DEFINE clear == (0..31) \ bits
           threshold == IF clear = {} THEN 0 ELSE Max(clear)
<1>1. threshold \in 0..31
  <2>1. clear # {} => Max(clear) \in clear
    BY MaxExists
  <2> QED BY <2>1
<1>2. convertCompactNetmaskToSimple(bits)
        = IF bits \cap (0..(threshold - 1)) # {} THEN NotAMask ELSE 31 - threshold
  BY DEF convertCompactNetmaskToSimple
<1> HIDE DEF threshold
<1> QED BY <1>1, <1>2 DEF NotAMask

LEMMA Netmask4Type ==
  ASSUME NEW m \in Seq(Part)
  PROVE  setNetmask4(m) \in -1..32
<1>1. \A n : convertCompactNetmaskToSimple(n) \in -1..32
  BY PrefixType
<1>0. m = <<Blank>> => Len(m) = 1 /\ m[1] = Blank /\ m[1] \notin Int
  BY BlankAssumption
<1>6. CASE m = <<Blank>>
  <2>1. ~(Len(m) = 1 /\ m[1] \in 0..32) /\ ~(Len(m) = 1 /\ m[1] \in Int \ (0..32)) /\ Len(m) # 4
    BY <1>0, <1>6
  <2>2. setNetmask4(m) = 0
    BY <1>6, <2>1, Zenon DEF setNetmask4
  <2> QED BY <2>2
<1>2. CASE Len(m) = 1 /\ m[1] \in 0..32
  BY <1>0, <1>2 DEF setNetmask4
<1>3. CASE Len(m) = 1 /\ m[1] \in Int \ (0..32)
  <2>1. setNetmask4(m) = convertCompactNetmaskToSimple(Bits(compactToParts(m[1])))
    BY <1>0, <1>3 DEF setNetmask4
  <2> QED BY <1>1, <2>1, Zenon
<1>4. CASE Len(m) = 4 /\ \A i \in 1..4 : m[i] \in Byte
  <2>1. setNetmask4(m) = convertCompactNetmaskToSimple(Bits(m))
    BY <1>4 DEF setNetmask4
  <2> QED BY <1>1, <2>1, Zenon
<1>5. CASE m # <<Blank>> /\ ~(Len(m) = 1 /\ m[1] \in Int) /\ ~(Len(m) = 4 /\ \A i \in 1..4 : m[i] \in Byte)
  <2>1. 0..32 \subseteq Int /\ Int \ (0..32) \subseteq Int
    OBVIOUS
  <2>2. ~(Len(m) = 1 /\ m[1] \in 0..32) /\ ~(Len(m) = 1 /\ m[1] \in Int \ (0..32))
    BY <1>5, <2>1, Zenon
  <2>3. setNetmask4(m) = NotAMask
    BY <1>5, <2>2, Zenon DEF setNetmask4
  <2> QED BY <2>3 DEF NotAMask
<1> QED BY <1>2, <1>3, <1>4, <1>5, <1>6

LEMMA Address4Type ==
  ASSUME NEW t \in Text
  PROVE  setAddress4(t) = Rejected \/ setAddress4(t) \in Bytes
<1>1. t.parts \in Seq(Part) /\ Len(t.parts) \in Nat
  BY DEF Text, Part
<1>2. CASE t.parts = <<Blank>>
  <2>1. setAddress4(t) = compactToParts(0)
    BY <1>2, BlankAssumption DEF setAddress4
  <2> QED BY <2>1, PartsType
<1>3. CASE t.parts # <<Blank>> /\ Len(t.parts) = 1 /\ t.parts[1] \in Int
  <2>1. setAddress4(t) = compactToParts(t.parts[1])
    BY <1>3 DEF setAddress4
  <2> QED BY <1>3, <2>1, PartsType
<1>4. CASE t.parts # <<Blank>> /\ t.sep = "." /\ Len(t.parts) = 4 /\ \A i \in 1..4 : t.parts[i] \in Byte
  <2>1. setAddress4(t) = t.parts
    BY <1>4 DEF setAddress4
  <2>2. t.parts = [i \in 1..4 |-> t.parts[i]]
    BY <1>1, <1>4
  <2> QED BY <1>4, <2>1, <2>2 DEF Bytes
<1>5. CASE /\ t.parts # <<Blank>> /\ ~(Len(t.parts) = 1 /\ t.parts[1] \in Int)
           /\ ~(t.sep = "." /\ Len(t.parts) = 4 /\ \A i \in 1..4 : t.parts[i] \in Byte)
  BY <1>5 DEF setAddress4
<1> QED BY <1>2, <1>3, <1>4, <1>5

\* What IPv4Param reads leaves it an address.
LEMMA Set4Type ==
  ASSUME NEW ip \in IPv4, NEW t \in Text
  PROVE  set4(ip, t) \in IPv4
<1>1. t.mask \in Seq(Part)
  BY DEF Text, Part
<1>2. /\ setAddress4(t) = Rejected \/ setAddress4(t) \in Bytes
      /\ setNetmask4(t.mask) \in -1..32
  BY <1>1, Address4Type, Netmask4Type
<1>3. CASE HalfEmpty(t) \/ setAddress4(t) = Rejected
  BY <1>3 DEF set4
<1>4. CASE ~(HalfEmpty(t) \/ setAddress4(t) = Rejected) /\ (~Reads4(t) \/ t.mask = NoMask)
  <2>1. set4(ip, t) = [ip EXCEPT !.address = setAddress4(t)]
    BY <1>4 DEF set4
  <2> QED BY <1>2, <1>4, <2>1 DEF IPv4, Bytes
<1>5. CASE ~(HalfEmpty(t) \/ setAddress4(t) = Rejected) /\ ~(~Reads4(t) \/ t.mask = NoMask)
  <2>1. set4(ip, t) = [address |-> setAddress4(t), netmask |-> setNetmask4(t.mask), containNetmask |-> TRUE]
    BY <1>5 DEF set4
  <2>2. setNetmask4(t.mask) \in 0..32
    BY <1>2, <1>5 DEF Reads4, NotAMask
  <2> QED BY <1>2, <1>5, <2>1, <2>2 DEF IPv4, Bytes
<1> QED BY <1>3, <1>4, <1>5

-----------------------------------------------------------------------------
(* Addresses of IPv6.                                                       *)

\* Zeros between the parts before and behind the empty one fill up the words.
FilledUp(parts, n, e) == SubSeq(parts, 1, e - 1) \o [i \in 1..(9 - n) |-> 0] \o SubSeq(parts, e + 1, n)

LEMMA ZeroIsWord == 0 \in Word
<1>1. MaxWord \in Nat
  BY DEF MaxWord
<1> QED BY <1>1 DEF Word

LEMMA Filled ==
  ASSUME NEW n \in 3..8, NEW parts \in Seq(Part), Len(parts) = n, NEW e \in 1..n,
         \A i \in (1..n) \ {e} : parts[i] \in Word
  PROVE  /\ FilledUp(parts, n, e) \in Words
         /\ \A i \in 1..8 : FilledUp(parts, n, e)[i] = IF i < e THEN parts[i]
                                                       ELSE IF i <= e + 8 - n THEN 0 ELSE parts[i - (8 - n)]
<1> DEFINE A == SubSeq(parts, 1, e - 1)
           Z == [i \in 1..(9 - n) |-> 0]
           B == SubSeq(parts, e + 1, n)
           R == A \o Z \o B
<1>1. A \in Seq(Part) /\ Len(A) = e - 1 /\ \A i \in 1..(e - 1) : A[i] = parts[i]
  OBVIOUS
<1>2. Z \in Seq(Part) /\ Len(Z) = 9 - n /\ \A i \in 1..(9 - n) : Z[i] = 0
  BY DEF Part
<1>3. B \in Seq(Part) /\ Len(B) = n - e /\ \A i \in 1..(n - e) : B[i] = parts[e + i]
  <2>1. \A i \in (e + 1)..n : parts[i] \in Part
    OBVIOUS
  <2>2. /\ B \in Seq(Part) /\ Len(B) = (IF e + 1 <= n THEN n - (e + 1) + 1 ELSE 0)
        /\ \A i \in 1..(n - (e + 1) + 1) : B[i] = parts[(e + 1) + i - 1]
    BY <2>1, SubSeqProperties
  <2> HIDE DEF B
  <2>3. Len(B) = n - e
    BY <2>2
  <2>4. ASSUME NEW i \in 1..(n - e) PROVE B[i] = parts[e + i]
    <3>1. i \in 1..(n - (e + 1) + 1) /\ (e + 1) + i - 1 = e + i
      OBVIOUS
    <3> QED BY <2>2, <3>1
  <2> QED BY <2>2, <2>3, <2>4
<1> HIDE DEF A, Z, B, Part
<1> DEFINE C == A \o Z
<1>4. C \in Seq(Part) /\ Len(C) = e + 8 - n /\ \A i \in 1..(e + 8 - n) : C[i] = IF i < e THEN parts[i] ELSE 0
  BY <1>1, <1>2
<1> HIDE DEF C
<1> DEFINE D == C \o B
<1>5. /\ D \in Seq(Part) /\ Len(D) = 8
      /\ \A i \in 1..8 : i <= e + 8 - n => D[i] = C[i]
      /\ \A i \in 1..8 : i > e + 8 - n => D[i] = B[i - (e + 8 - n)]
  <2>1. /\ D \in Seq(Part) /\ Len(D) = Len(C) + Len(B)
        /\ \A i \in 1..(Len(C) + Len(B)) : D[i] = IF i <= Len(C) THEN C[i] ELSE B[i - Len(C)]
    BY <1>3, <1>4, ConcatProperties
  <2> HIDE DEF D
  <2>2. Len(C) + Len(B) = 8 /\ Len(C) = e + 8 - n
    BY <1>3, <1>4
  <2>3. D \in Seq(Part) /\ Len(D) = 8 /\ \A i \in 1..8 : D[i] = IF i <= e + 8 - n THEN C[i] ELSE B[i - (e + 8 - n)]
    BY <2>1, <2>2, Zenon
  <2> QED BY <2>3
<1> HIDE DEF D
<1>6. \A i \in 1..8 : i < e => D[i] = parts[i]
  <2> SUFFICES ASSUME NEW i \in 1..8, i < e PROVE D[i] = parts[i]
    OBVIOUS
  <2>1. i \in 1..(e + 8 - n) /\ i <= e + 8 - n
    OBVIOUS
  <2>2. D[i] = C[i]
    BY <1>5, <2>1
  <2>3. C[i] = IF i < e THEN parts[i] ELSE 0
    BY <1>4, <2>1
  <2> QED BY <2>2, <2>3
<1>7. \A i \in 1..8 : i >= e /\ i <= e + 8 - n => D[i] = 0
  <2> SUFFICES ASSUME NEW i \in 1..8, i >= e, i <= e + 8 - n PROVE D[i] = 0
    OBVIOUS
  <2>1. i \in 1..(e + 8 - n) /\ ~(i < e)
    OBVIOUS
  <2>2. D[i] = C[i]
    BY <1>5
  <2>3. C[i] = IF i < e THEN parts[i] ELSE 0
    BY <1>4, <2>1
  <2> QED BY <2>1, <2>2, <2>3
<1>8. \A i \in 1..8 : i > e + 8 - n => D[i] = parts[i - (8 - n)]
  <2> SUFFICES ASSUME NEW i \in 1..8, i > e + 8 - n PROVE D[i] = parts[i - (8 - n)]
    OBVIOUS
  <2>1. i - (e + 8 - n) \in 1..(n - e) /\ e + (i - (e + 8 - n)) = i - (8 - n)
    OBVIOUS
  <2>2. D[i] = B[i - (e + 8 - n)] /\ B[i - (e + 8 - n)] = parts[e + (i - (e + 8 - n))]
    BY <1>3, <1>5, <2>1
  <2> QED BY <2>1, <2>2
<1>9. \A i \in 1..8 : D[i] \in Word
  <2> SUFFICES ASSUME NEW i \in 1..8 PROVE D[i] \in Word
    OBVIOUS
  <2>1. CASE i < e
    BY <1>6, <2>1
  <2>2. CASE i >= e /\ i <= e + 8 - n
    <3>1. D[i] = 0
      BY <1>7, <2>2
    <3> QED BY <3>1, ZeroIsWord
  <2>3. CASE i > e + 8 - n
    <3>1. i - (8 - n) \in (1..n) \ {e}
      BY <2>3
    <3> QED BY <1>8, <2>3, <3>1
  <2> QED BY <2>1, <2>2, <2>3
<1>10. D = [i \in 1..8 |-> D[i]]
  BY <1>5
<1>11. D \in Words
  BY <1>9, <1>10 DEF Words
<1>12. \A i \in 1..8 : D[i] = IF i < e THEN parts[i] ELSE IF i <= e + 8 - n THEN 0 ELSE parts[i - (8 - n)]
  BY <1>6, <1>7, <1>8
<1>13. FilledUp(parts, n, e) = D
  BY DEF FilledUp, A, Z, B, C, D
<1> QED BY <1>11, <1>12, <1>13

\* The parts of a text, the blank ones at its ends read as 0.
PartsOf(t) == [i \in 1..Len(t.parts) |-> IF i \in {1, Len(t.parts)} /\ t.parts[i] = Blank THEN 0 ELSE t.parts[i]]

\* The cases of setAddress().
Refuses(t) ==
  LET n     == Len(t.parts)
      empty == {i \in 1..n : PartsOf(t)[i] = Blank}
  IN \/ t.sep = "." \/ n \notin 3..8
     \/ \E i, j \in empty : i # j
     \/ \E i \in (1..n) \ empty : PartsOf(t)[i] \notin Word
     \/ empty = {} /\ n < 8

LEMMA setAddress6Cases ==
  ASSUME NEW t
  PROVE  /\ Refuses(t) => setAddress6(t) = Rejected
         /\ ~Refuses(t) => LET empty == {i \in 1..Len(t.parts) : PartsOf(t)[i] = Blank} IN
              /\ empty = {} => setAddress6(t) = PartsOf(t)
              /\ empty # {} => \E e \in empty : setAddress6(t) = FilledUp(PartsOf(t), Len(t.parts), e)
<1> DEFINE n == Len(t.parts)
           parts == PartsOf(t)
           empty == {i \in 1..n : parts[i] = Blank}
<1>1. setAddress6(t) = IF Refuses(t) THEN Rejected
                       ELSE IF empty = {} THEN parts
                       ELSE LET e == CHOOSE i \in empty : TRUE IN FilledUp(parts, n, e)
  BY DEF setAddress6, Refuses, PartsOf, FilledUp
<1> HIDE DEF empty, parts, n
<1>2. empty # {} => (CHOOSE i \in empty : TRUE) \in empty
  BY Zenon
<1>3. /\ Refuses(t) => setAddress6(t) = Rejected
      /\ ~Refuses(t) => /\ empty = {} => setAddress6(t) = parts
                        /\ empty # {} => \E e \in empty : setAddress6(t) = FilledUp(parts, n, e)
  BY <1>1, <1>2, Zenon
<1> QED BY <1>3, Zenon DEF empty, parts, n

LEMMA Address6Type ==
  ASSUME NEW t \in Text
  PROVE  setAddress6(t) = Rejected \/ setAddress6(t) \in Words
<1> DEFINE n == Len(t.parts)
           parts == PartsOf(t)
           empty == {i \in 1..n : parts[i] = Blank}
<1>1. t.parts \in Seq(Part) /\ n \in Nat
  BY DEF Text, Part
<1>2. parts \in Seq(Part) /\ Len(parts) = n /\ parts = [i \in 1..n |-> parts[i]]
  <2>1. 0 \in Part
    BY DEF Part
  <2> HIDE DEF Part
  <2> QED BY <1>1, <2>1 DEF PartsOf
<1> SUFFICES ASSUME ~Refuses(t) PROVE setAddress6(t) \in Words
  BY setAddress6Cases
<1>3. /\ n \in 3..8 /\ \A i, j \in empty : i = j
      /\ \A i \in (1..n) \ empty : parts[i] \in Word
      /\ empty = {} => ~(n < 8)
  BY Zenon DEF Refuses
<1>4. /\ empty = {} => setAddress6(t) = parts
      /\ empty # {} => \E e \in empty : setAddress6(t) = FilledUp(parts, n, e)
  BY setAddress6Cases, Zenon
<1> HIDE DEF n, parts
<1>5. CASE empty = {}
  <2>1. n = 8 /\ \A i \in 1..8 : parts[i] \in Word
    BY <1>3, <1>5
  <2> QED BY <1>2, <1>4, <1>5, <2>1 DEF Words
<1>6. CASE empty # {}
  <2>1. PICK e \in empty : setAddress6(t) = FilledUp(parts, n, e)
    BY <1>4, <1>6
  <2>2. e \in 1..n /\ \A i \in (1..n) \ {e} : parts[i] \in Word
    BY <1>3
  <2>3. FilledUp(parts, n, e) \in Words
    <3> HIDE DEF empty
    <3> QED BY <1>2, <1>3, <2>2, Filled
  <2> QED BY <2>1, <2>3
<1> QED BY <1>5, <1>6

LEMMA TwoBytes ==
  ASSUME NEW a \in Byte, NEW b \in Byte
  PROVE  (a * 256) + b \in Word
<1>1. a \in Int /\ b \in Int /\ 0 <= a /\ a <= 255 /\ 0 <= b /\ b <= 255
  BY DEF Byte
<1>2. a * 256 \in Int /\ 0 <= a * 256 /\ a * 256 <= 65280
  BY <1>1
<1>3. (a * 256) + b \in Int /\ 0 <= (a * 256) + b /\ (a * 256) + b <= 65535
  BY <1>1, <1>2
<1>4. MaxWord \in Nat /\ 65535 <= MaxWord
  BY DEF MaxWord
<1>5. (a * 256) + b <= MaxWord
  BY <1>3, <1>4
<1> QED BY <1>3, <1>4, <1>5 DEF Word

LEMMA MappedType ==
  ASSUME NEW ip \in IPv4
  PROVE  Mapped(ip) \in IPv6
<1> DEFINE x == (ip.address[1] * 256) + ip.address[2]
           y == (ip.address[3] * 256) + ip.address[4]
           m == 96 + ip.netmask
<1>1. ip.address \in [1..4 -> Byte] /\ ip.netmask \in 0..32
  BY Zenon DEF IPv4
<1>2. ip.address[1] \in Byte /\ ip.address[2] \in Byte /\ ip.address[3] \in Byte /\ ip.address[4] \in Byte
  BY <1>1
<1>3. x \in Word /\ y \in Word
  BY <1>2, TwoBytes
<1>4. m \in 0..128
  BY <1>1
<1>5. Mapped(ip) = [address |-> <<0, 0, 0, 0, 65535, 0, x, y>>, netmask |-> m, containNetmask |-> TRUE]
  BY SMT DEF Mapped
<1> HIDE DEF x, y, m
<1>6. 65535 \in Word
  <2>1. 65535 = MaxWord /\ MaxWord \in Nat
    BY DEF MaxWord
  <2>2. MaxWord \in Word
    <3>1. MaxWord \in Nat
      BY <2>1
    <3> QED BY <3>1 DEF Word
  <2> QED BY <2>1, <2>2
<1>7. <<0, 0, 0, 0, 65535, 0, x, y>> \in [1..8 -> Word]
  BY <1>3, <1>6, ZeroIsWord, SMT
<1> QED BY <1>4, <1>5, <1>7, SMT DEF IPv6

LEMMA Netmask6Type ==
  ASSUME NEW m
  PROVE  setNetmask6(m) = NotAMask \/ setNetmask6(m) \in 0..128
BY BlankAssumption DEF setNetmask6

LEMMA NewTypes == NewIPv4 \in IPv4 /\ NewIPv6 \in IPv6 /\ NewIPx \in IPx
<1>1. 0 \in Byte
  BY DEF Byte
<1>2. NewIPv4 \in IPv4
  BY <1>1 DEF NewIPv4, IPv4
<1>3. NewIPv6 \in IPv6
  BY ZeroIsWord DEF NewIPv6, IPv6
<1> QED BY <1>2, <1>3, Zenon DEF NewIPx, IPx

\* What IPv6Param reads leaves it an address.
LEMMA Set6Type ==
  ASSUME NEW ip \in IPv6, NEW t \in Text
  PROVE  set6(ip, t) \in IPv6
<1>1. setAddress6(t) = Rejected \/ setAddress6(t) \in Words
  BY Address6Type
<1>2. CASE Reads6(t) /\ t.mask # NoMask
  <2>0. ~(HalfEmpty(t) \/ setAddress6(t) = Rejected)
    BY <1>2, Zenon DEF Reads6
  <2>1. set6(ip, t) = [address |-> setAddress6(t), netmask |-> setNetmask6(t.mask), containNetmask |-> TRUE]
    BY <1>2, <2>0 DEF set6
  <2>2. setAddress6(t) \in Words /\ setNetmask6(t.mask) \in 0..128
    BY <1>1, <1>2, Netmask6Type, Zenon DEF Reads6
  <2> QED BY <2>1, <2>2 DEF IPv6, Words
<1>3. CASE ~Reads6(t) /\ Reads4(t)
  <2>1. set6(ip, t) = Mapped(set4(NewIPv4, t))
    BY <1>3 DEF set6
  <2>2. set4(NewIPv4, t) \in IPv4
    BY NewTypes, Set4Type
  <2> QED BY <2>1, <2>2, MappedType
<1>4. CASE ~Reads4(t) /\ (HalfEmpty(t) \/ setAddress6(t) = Rejected)
  <2>1. ~Reads6(t)
    BY <1>4 DEF Reads6
  <2>2. set6(ip, t) = ip
    BY <1>4, <2>1 DEF set6
  <2> QED BY <2>2
<1>5. CASE /\ ~(Reads6(t) /\ t.mask # NoMask) /\ ~(~Reads6(t) /\ Reads4(t))
           /\ ~(~Reads4(t) /\ (HalfEmpty(t) \/ setAddress6(t) = Rejected))
  <2>1. set6(ip, t) = [ip EXCEPT !.address = setAddress6(t)]
    BY <1>5, Zenon DEF set6
  <2>2. setAddress6(t) # Rejected
    BY <1>5, Zenon DEF Reads6
  <2> QED BY <1>1, <2>1, <2>2 DEF IPv6, Words
<1> QED BY <1>2, <1>3, <1>4, <1>5, Zenon

-----------------------------------------------------------------------------
(* Addresses of either version, and ranges.                                 *)

LEMMA assignType ==
  ASSUME NEW x \in IPx, NEW t \in Text
  PROVE  /\ assign(x, t) \in IPx
         /\ Reads4(t) => assign(x, t).version = "v4"
         /\ ~Reads4(t) /\ Reads6(t) => assign(x, t).version = "v6"
         /\ ~Readable(t) => assign(x, t).version = x.version
<1>1. set4(NewIPv4, t) \in IPv4 /\ set6(NewIPv6, t) \in IPv6
  BY NewTypes, Set4Type, Set6Type
<1>2. CASE Reads4(t)
  <2>1. assign(x, t) = [version |-> "v4", ipv4 |-> set4(NewIPv4, t), ipv6 |-> Null]
    BY <1>2 DEF assign
  <2> QED BY <1>1, <1>2, <2>1 DEF IPx, Readable
<1>3. CASE ~Reads4(t) /\ Reads6(t)
  <2>1. assign(x, t) = [version |-> "v6", ipv4 |-> Null, ipv6 |-> set6(NewIPv6, t)]
    BY <1>3 DEF assign
  <2> QED BY <1>1, <1>3, <2>1 DEF IPx, Readable
<1>4. CASE ~Reads4(t) /\ ~Reads6(t)
  <2>1. assign(x, t) = [x EXCEPT !.ipv4 = Null, !.ipv6 = Null]
    BY <1>4, Zenon DEF assign
  <2> QED BY <1>4, <2>1 DEF IPx, Readable
<1> QED BY <1>2, <1>3, <1>4

LEMMA setAddressXType ==
  ASSUME NEW x \in IPx, NEW t \in Text
  PROVE  /\ setAddressX(x, t) \in IPx
         /\ Reads4(t) => setAddressX(x, t).version = "v4"
         /\ ~Reads4(t) /\ Reads6(t) => setAddressX(x, t).version = "v6"
         /\ ~Readable(t) => setAddressX(x, t).version = x.version
<1>1. set4(NewIPv4, t) \in IPv4 /\ set6(NewIPv6, t) \in IPv6
  BY NewTypes, Set4Type, Set6Type
<1>2. CASE Reads4(t)
  <2>1. setAddressX(x, t) = [x EXCEPT !.version = "v4", !.ipv4 = set4(NewIPv4, t)]
    BY <1>2 DEF setAddressX
  <2> QED BY <1>1, <1>2, <2>1 DEF IPx, Readable
<1>3. CASE ~Reads4(t) /\ Reads6(t)
  <2>1. setAddressX(x, t) = [x EXCEPT !.version = "v6", !.ipv6 = set6(NewIPv6, t)]
    BY <1>3 DEF setAddressX
  <2> QED BY <1>1, <1>3, <2>1 DEF IPx, Readable
<1>4. CASE ~Reads4(t) /\ ~Reads6(t)
  <2>1. setAddressX(x, t) = x
    BY <1>4, Zenon DEF setAddressX
  <2> QED BY <1>4, <2>1 DEF IPx, Readable
<1> QED BY <1>2, <1>3, <1>4

LEMMA setObjectXType ==
  ASSUME NEW x \in IPx, NEW t \in Text, NEW version
  PROVE  setObjectX(x, version, t) \in IPx /\ setObjectX(x, version, t).version = x.version
<1>1. set4(NewIPv4, t) \in IPv4 /\ set6(NewIPv6, t) \in IPv6
  BY NewTypes, Set4Type, Set6Type
<1>2. CASE version = x.version /\ version = "v4"
  <2>1. setObjectX(x, version, t) = [x EXCEPT !.ipv4 = set4(NewIPv4, t)]
    BY <1>2 DEF setObjectX
  <2> QED BY <1>1, <2>1 DEF IPx
<1>3. CASE version = x.version /\ version = "v6"
  <2>1. setObjectX(x, version, t) = [x EXCEPT !.ipv6 = set6(NewIPv6, t)]
    BY <1>3 DEF setObjectX
  <2> QED BY <1>1, <2>1 DEF IPx
<1>4. CASE ~(version = x.version /\ version = "v4") /\ ~(version = x.version /\ version = "v6")
  BY <1>4, Zenon DEF setObjectX
<1> QED BY <1>2, <1>3, <1>4

LEMMA setNetmaskXType ==
  ASSUME NEW x \in IPx, Present(x), NEW m \in {24, 96}
  PROVE  setNetmaskX(x, m) \in IPx /\ setNetmaskX(x, m).version = x.version
<1>1. CASE x.version = "v4" /\ m <= 32
  <2>1. setNetmaskX(x, m) = [x EXCEPT !.ipv4 = [[x.ipv4 EXCEPT !.netmask = m] EXCEPT !.containNetmask = TRUE]]
    BY <1>1 DEF setNetmaskX, IPx
  <2>2. x.ipv4 \in IPv4
    BY <1>1 DEF Present, IPx
  <2> DEFINE ip == x.ipv4
  <2>3. [[ip EXCEPT !.netmask = m] EXCEPT !.containNetmask = TRUE] \in IPv4
    <3>1. m \in 0..32
      BY <1>1
    <3>2. ip \in IPv4
      BY <2>2
    <3> HIDE DEF ip
    <3> QED BY <3>1, <3>2 DEF IPv4
  <2> QED BY <2>1, <2>3 DEF IPx
<1>2. CASE x.version = "v6" /\ m <= 128
  <2>1. setNetmaskX(x, m) = [x EXCEPT !.ipv6 = [[x.ipv6 EXCEPT !.netmask = m] EXCEPT !.containNetmask = TRUE]]
    BY <1>2 DEF setNetmaskX, IPx
  <2>2. x.ipv6 \in IPv6
    BY <1>2 DEF Present, IPx
  <2> DEFINE ip == x.ipv6
  <2>3. [[ip EXCEPT !.netmask = m] EXCEPT !.containNetmask = TRUE] \in IPv6
    <3>1. m \in 0..128
      BY <1>2
    <3>2. ip \in IPv6
      BY <2>2
    <3> HIDE DEF ip
    <3> QED BY <3>1, <3>2 DEF IPv6
  <2> QED BY <2>1, <2>3 DEF IPx
<1>3. CASE ~(x.version = "v4" /\ m <= 32) /\ ~(x.version = "v6" /\ m <= 128)
  BY <1>3, Zenon DEF setNetmaskX
<1> QED BY <1>1, <1>2, <1>3

-----------------------------------------------------------------------------
(* Security identifiers.                                                    *)

LEMMA CountRead ==
  ASSUME NEW n \in Nat
  PROVE  atoi(decimalToHex2(n)) \in 0..n /\ (n <= 9 => atoi(decimalToHex2(n)) = n)
<1> DEFINE a == (n \div 16) % 16
           b == n % 16
<1>1. n \div 16 \in Nat /\ b \in 0..15 /\ n = (16 * (n \div 16)) + b
  OBVIOUS
<1>2. a \in 0..15 /\ a <= n \div 16
  BY <1>1
<1>3. atoi(decimalToHex2(n)) = IF a > 9 THEN 0 ELSE IF b > 9 THEN a ELSE (a * 10) + b
  BY <1>1, <1>2 DEF atoi, decimalToHex2
<1>4. n <= 9 => a = 0 /\ b = n
  BY <1>1
<1> HIDE DEF a, b
<1>5. (16 * a) + b <= n
  BY <1>1, <1>2
<1> QED BY <1>1, <1>2, <1>3, <1>4, <1>5

LEMMA ReversedTwice ==
  ASSUME NEW id \in SubIDs
  PROVE  toBigOrLittleEndian(toBigOrLittleEndian(id)) = id
<1>1. id \in [1..4 -> 0..255] /\ id = [i \in 1..4 |-> id[i]]
  BY SubIDsAssumption
<1>2. id \in Seq(0..255) /\ Len(id) = 4
  BY <1>1
<1> DEFINE r == Reverse(id)
<1>3. r = [i \in 1..4 |-> id[(4 - i) + 1]]
  BY <1>2 DEF Reverse
<1>4. r \in Seq(0..255) /\ Len(r) = 4
  <2>1. \A i \in 1..4 : id[(4 - i) + 1] \in 0..255
    BY <1>1
  <2> QED BY <1>3, <2>1
<1> HIDE DEF r
<1>5. Reverse(r) = [i \in 1..4 |-> r[(4 - i) + 1]]
  BY <1>4 DEF Reverse
<1>6. \A i \in 1..4 : r[(4 - i) + 1] = id[i]
  BY <1>3
<1> QED BY <1>1, <1>5, <1>6 DEF r, toBigOrLittleEndian

LEMMA ReadBack ==
  ASSUME NEW sid \in SID
  PROVE  /\ hexToStr(strToHex(sid)) \in SID
         /\ Len(sid.ids) <= 9 => hexToStr(strToHex(sid)) = sid
<1> DEFINE n == Len(sid.ids)
           k == atoi(decimalToHex2(n))
           ids == [i \in 1..k |-> toBigOrLittleEndian(toBigOrLittleEndian(sid.ids[i]))]
<1>1. sid = [authority |-> sid.authority, ids |-> sid.ids] /\ sid.authority \in Nat
      /\ sid.ids \in Seq(SubIDs) /\ n \in Nat
  BY DEF SID
<1>2. k \in 0..n /\ (n <= 9 => k = n)
  BY <1>1, CountRead
<1>3. DOMAIN sid.ids = 1..n /\ 1..k \subseteq 1..n
  BY <1>1, <1>2
<1>4. \A i \in 1..k : sid.ids[i] \in SubIDs
  BY <1>1, <1>2
<1>5. hexToStr(strToHex(sid)) = [authority |-> sid.authority, ids |-> ids]
  <2> DEFINE hex == strToHex(sid)
             turned == [i \in DOMAIN sid.ids |-> toBigOrLittleEndian(sid.ids[i])]
  <2>1. /\ hex.count = decimalToHex2(n) /\ hex.authority = sid.authority
        /\ hex.ids = turned
    BY DEF strToHex
  <2>2. hexToStr(hex) = [authority |-> hex.authority,
                         ids |-> [i \in 1..atoi(hex.count) |-> toBigOrLittleEndian(hex.ids[i])]]
    BY DEF hexToStr
  <2>3. \A i \in 1..k : turned[i] = toBigOrLittleEndian(sid.ids[i])
    BY <1>3
  <2> HIDE DEF turned, hex, k
  <2>4. hexToStr(hex) = [authority |-> sid.authority, ids |-> [i \in 1..k |-> toBigOrLittleEndian(turned[i])]]
    BY <2>1, <2>2 DEF k
  <2>5. [i \in 1..k |-> toBigOrLittleEndian(turned[i])] = ids
    BY <2>3
  <2> QED BY <2>4, <2>5 DEF hex
<1> HIDE DEF k
<1>6. \A i \in 1..k : toBigOrLittleEndian(toBigOrLittleEndian(sid.ids[i])) = sid.ids[i]
  BY <1>4, ReversedTwice
<1>7. ids = [i \in 1..k |-> sid.ids[i]]
  BY <1>6
<1> HIDE DEF ids
<1>8. ids \in Seq(SubIDs)
  BY <1>2, <1>4, <1>7
<1>9. ASSUME n <= 9 PROVE ids = sid.ids
  BY <1>1, <1>2, <1>7, <1>9
<1> QED BY <1>1, <1>5, <1>8, <1>9 DEF SID

SIDOk == kind = "sid" => val \in SID

LEMMA SIDInit == Init => SIDOk
<1>1. NewSID \in SID
  BY DEF NewSID, SID
<1>2. Init /\ kind = "sid" => val = NewSID
  BY DEF Init
<1> QED BY <1>1, <1>2 DEF SIDOk

LEMMA SIDNext == SIDOk /\ [Next]_vars => SIDOk'
<1> SUFFICES ASSUME SIDOk, [Next]_vars, kind' = "sid" PROVE val' \in SID
  BY DEF SIDOk
<1>1. kind = "sid" /\ (val' = val \/ MovesSID)
  BY Moves
<1>2. val \in SID
  BY <1>1 DEF SIDOk
<1>3. ASSUME NEW i \in SubIDs, AddID(i) PROVE val' \in SID
  <2>1. val' = [val EXCEPT !.ids = Append(@, i)]
    BY <1>3 DEF AddID, Change
  <2>2. Append(val.ids, i) \in Seq(SubIDs)
    BY <1>2 DEF SID
  <2> QED BY <1>2, <2>1, <2>2 DEF SID
<1>4. ASSUME AssignHex PROVE val' \in SID
  BY <1>2, <1>4, ReadBack DEF AssignHex, Change
<1> QED BY <1>1, <1>2, <1>3, <1>4 DEF MovesSID

\* A security identifier of at most nine ids survives its hexadecimal form,
\* whatever ids it has: ConvertSID::hexToStr and strToHex, src/sparam.cpp:2207-2237, 2239-2275.
THEOREM ValueParamsSIDReadsBack == Spec => []SIDReadsBack
<1>1. SIDOk => SIDReadsBack
  BY ReadBack DEF SIDOk, SIDReadsBack
<1> QED BY <1>1, SIDInit, SIDNext, PTL DEF Spec

-----------------------------------------------------------------------------
(* The fields of addresses and ranges.                                      *)

V4Ok == kind = "v4" => val \in IPv4
V6Ok == kind = "v6" => val \in IPv6

LEMMA TextsTyped ==
  /\ \A t \in Texts \union AddressTexts : t \in Text
  /\ \A m \in Netmasks : m \in Seq(Part)
BY TextsAssumption, Zenon DEF Part

LEMMA AddressesInit == Init => V4Ok /\ V6Ok
<1>1. Init => (kind = "v4" => val = NewIPv4) /\ (kind = "v6" => val = NewIPv6)
  BY DEF Init
<1> QED BY <1>1, NewTypes DEF V4Ok, V6Ok

LEMMA V4Next == V4Ok /\ [Next]_vars => V4Ok'
<1> SUFFICES ASSUME V4Ok, [Next]_vars, kind' = "v4" PROVE val' \in IPv4
  BY DEF V4Ok
<1>1. kind = "v4" /\ (val' = val \/ Moves4)
  BY Moves
<1>2. val \in IPv4
  BY <1>1 DEF V4Ok
<1>3. ASSUME Reset4 PROVE val' \in IPv4
  BY <1>3, NewTypes DEF Reset4, Change
<1>4. ASSUME NEW t \in Texts, Assign4(t) PROVE val' \in IPv4
  BY <1>2, <1>4, TextsTyped, Set4Type DEF Assign4, Change
<1>5. ASSUME NEW m \in Netmasks, SetNetmask4(m) PROVE val' \in IPv4
  <2>1. setNetmask4(m) \in -1..32
    BY TextsTyped, Netmask4Type
  <2>2. CASE setNetmask4(m) = NotAMask
    BY <1>2, <1>5, <2>2 DEF SetNetmask4, Change
  <2>3. CASE setNetmask4(m) # NotAMask
    <3>1. val' = [val EXCEPT !.netmask = setNetmask4(m), !.containNetmask = TRUE]
      BY <1>5, <2>3 DEF SetNetmask4, Change
    <3>2. setNetmask4(m) \in 0..32
      BY <2>1, <2>3 DEF NotAMask
    <3> QED BY <1>2, <3>1, <3>2 DEF IPv4
  <2> QED BY <2>2, <2>3
<1> QED BY <1>1, <1>2, <1>3, <1>4, <1>5 DEF Moves4

LEMMA V6Next == V6Ok /\ [Next]_vars => V6Ok'
<1> SUFFICES ASSUME V6Ok, [Next]_vars, kind' = "v6" PROVE val' \in IPv6
  BY DEF V6Ok
<1>1. kind = "v6" /\ (val' = val \/ Moves6)
  BY Moves
<1>2. val \in IPv6
  BY <1>1 DEF V6Ok
<1>3. ASSUME Reset6 PROVE val' \in IPv6
  BY <1>3, NewTypes DEF Reset6, Change
<1>4. ASSUME NEW t \in Texts, Assign6(t) PROVE val' \in IPv6
  BY <1>2, <1>4, TextsTyped, Set6Type DEF Assign6, Change
<1>5. ASSUME NEW t \in Texts, AssignIPv4(t) PROVE val' \in IPv6
  <2>1. set4(NewIPv4, t) \in IPv4
    BY NewTypes, TextsTyped, Set4Type
  <2> QED BY <1>5, <2>1, MappedType DEF AssignIPv4, Change
<1>6. ASSUME NEW w \in WordLists, SetWords(w) PROVE val' \in IPv6
  <2>1. CASE setAddressWords(w) = Rejected
    BY <1>2, <1>6, <2>1 DEF SetWords, Change
  <2>2. CASE setAddressWords(w) # Rejected
    <3>1. val' = [val EXCEPT !.address = w]
      BY <1>6, <2>2 DEF SetWords, Change
    <3>2. \A i \in 1..4 : w[i] \in Word
      BY <2>2, Zenon DEF setAddressWords
    <3>3. w \in [1..8 -> Int] /\ \A i \in 5..8 : w[i] \in Word
      BY TextsAssumption, Zenon
    <3>4. \A i \in 1..8 : i \in 1..4 \/ i \in 5..8
      OBVIOUS
    <3>5. \A i \in 1..8 : w[i] \in Word
      BY <3>2, <3>3, <3>4, Zenon
    <3>6. w \in [1..8 -> Word]
      BY <3>3, <3>5
    <3> QED BY <1>2, <3>1, <3>6 DEF IPv6
  <2> QED BY <2>1, <2>2
<1> QED BY <1>1, <1>2, <1>3, <1>4, <1>5, <1>6 DEF Moves6

\* The fields of a range.
RangeType == [from : IPx, to : IPx, _not : BOOLEAN]
RangeOk   == kind = "range" => val \in RangeType

LEMMA EmptiedType ==
  ASSUME NEW x \in IPx
  PROVE  Emptied(x) \in IPx /\ Emptied(x).version = "v4"
<1>1. EmptyText \in Text
  BY DEF EmptyText, Text, NoMask
<1>2. Reads4(EmptyText)
  <2>1. EmptyText.parts = <<Blank>> /\ EmptyText.mask = NoMask
    BY DEF EmptyText
  <2>2. ~HalfEmpty(EmptyText)
    BY <2>1 DEF HalfEmpty
  <2>3. setAddress4(EmptyText) = compactToParts(0)
    BY <2>1, BlankAssumption DEF setAddress4
  <2>4. compactToParts(0) # Rejected
    BY PartsType DEF Bytes, Rejected
  <2> QED BY <2>1, <2>2, <2>3, <2>4 DEF Reads4
<1> QED BY <1>1, <1>2, assignType DEF Emptied

\* An end stored before the versions are compared leaves versions that fit.
LEMMA WithFromKeeps ==
  ASSUME kind = "range", val \in RangeType, NEW x \in IPx, x.version \in {"v4", "v6"}
  PROVE  WithFrom(x) \in RangeType /\ VersionsFit(WithFrom(x))
<1>1. val.from \in IPx /\ val.to \in IPx /\ Emptied(val.to) \in IPx /\ Emptied(val.to).version = "v4"
  BY EmptiedType DEF RangeType
<1> DEFINE to == IF x.version = val.to.version THEN val.to ELSE Emptied(val.to)
<1>2. to \in IPx /\ (to.version = x.version \/ to.version = "v4")
  BY <1>1
<1>3. WithFrom(x) = [val EXCEPT !.from = x, !.to = to]
  BY DEF WithFrom, RangeType
<1> HIDE DEF to
<1> QED BY <1>2, <1>3 DEF RangeType, VersionsFit

LEMMA WithToKeeps ==
  ASSUME kind = "range", val \in RangeType, NEW x \in IPx, val.from.version # "none"
  PROVE  WithTo(x) \in RangeType /\ VersionsFit(WithTo(x))
<1>1. val.from \in IPx /\ Emptied(x) \in IPx /\ Emptied(x).version = "v4"
      /\ val.from.version \in {"v4", "v6"}
  BY EmptiedType DEF RangeType, IPx
<1> DEFINE to == IF val.from.version = x.version THEN x ELSE Emptied(x)
<1>2. to \in IPx /\ (to.version = val.from.version \/ to.version = "v4")
  BY <1>1
<1>3. WithTo(x) = [val EXCEPT !.to = to]
  BY DEF WithTo, RangeType
<1> HIDE DEF to
<1> QED BY <1>1, <1>2, <1>3 DEF RangeType, VersionsFit

\* An end stored as it is, of the version it had.
LEMMA SameVersion ==
  ASSUME val \in RangeType, NEW x \in IPx
  PROVE  /\ [val EXCEPT !.from = x] \in RangeType /\ [val EXCEPT !.to = x] \in RangeType
         /\ x.version = val.from.version /\ VersionsFit(val) => VersionsFit([val EXCEPT !.from = x])
         /\ x.version = val.to.version /\ VersionsFit(val) => VersionsFit([val EXCEPT !.to = x])
BY DEF RangeType, VersionsFit

LEMMA RangeInit == Init => RangeOk
<1>1. Init /\ kind = "range" => val = NewRange
  BY DEF Init
<1>2. NewRange \in RangeType
  BY NewTypes DEF NewRange, RangeType
<1> QED BY <1>1, <1>2 DEF RangeOk

\* A step keeps the fields.  The versions fit after it when `given`, an
\* address in text without a mask for setAddressFrom() and setAddressTo();
\* and they go on to fit when not `masked`.
Fits(given, masked) ==
  /\ val' \in RangeType
  /\ given => VersionsFit(val')
  /\ VersionsFit(val) /\ ~masked => VersionsFit(val')

LEMMA SetFromFits ==
  ASSUME val \in RangeType, NEW t \in Texts, SetFrom(t)
  PROVE  Fits(Readable(t), FALSE)
<1>1. t \in Text /\ kind = "range" /\ val.from \in IPx
  BY TextsTyped DEF SetFrom, Change, RangeType
<1>2. /\ assign(val.from, t) \in IPx
      /\ Readable(t) => assign(val.from, t).version \in {"v4", "v6"}
      /\ ~Readable(t) => assign(val.from, t).version = val.from.version
  BY <1>1, assignType DEF Readable
<1>3. CASE Readable(t)
  <2>1. val' = WithFrom(assign(val.from, t))
    BY <1>3 DEF SetFrom, Change
  <2> QED BY <1>1, <1>2, <1>3, <2>1, WithFromKeeps DEF Fits
<1>4. CASE ~Readable(t)
  <2>1. val' = [val EXCEPT !.from = assign(val.from, t)]
    BY <1>4 DEF SetFrom, Change
  <2> QED BY <1>2, <1>4, <2>1, SameVersion DEF Fits
<1> QED BY <1>3, <1>4

LEMMA SetToFits ==
  ASSUME val \in RangeType, NEW t \in Texts, SetTo(t)
  PROVE  Fits(Readable(t), FALSE)
<1>1. t \in Text /\ kind = "range" /\ val.from.version # "none" /\ val.to \in IPx
  BY TextsTyped DEF SetTo, HasFrom, RangeType
<1>2. /\ assign(val.to, t) \in IPx
      /\ ~Readable(t) => assign(val.to, t).version = val.to.version
  BY <1>1, assignType DEF Readable
<1>3. CASE Readable(t)
  <2>1. val' = WithTo(assign(val.to, t))
    BY <1>3 DEF SetTo, Change
  <2> QED BY <1>1, <1>2, <2>1, WithToKeeps DEF Fits
<1>4. CASE ~Readable(t)
  <2>1. val' = [val EXCEPT !.to = assign(val.to, t)]
    BY <1>4 DEF SetTo, Change
  <2> QED BY <1>2, <1>4, <2>1, SameVersion DEF Fits
<1> QED BY <1>3, <1>4

LEMMA SetAddressFromFits ==
  ASSUME val \in RangeType, NEW t \in AddressTexts, SetAddressFrom(t)
  PROVE  Fits(Readable(t) /\ t.mask = NoMask, Readable(t) /\ t.mask # NoMask)
<1>1. t \in Text /\ kind = "range" /\ val.from \in IPx
  BY TextsTyped DEF SetAddressFrom, Change, RangeType
<1>2. /\ setAddressX(val.from, t) \in IPx
      /\ Readable(t) => setAddressX(val.from, t).version \in {"v4", "v6"}
      /\ ~Readable(t) => setAddressX(val.from, t).version = val.from.version
  BY <1>1, setAddressXType DEF Readable
<1>3. CASE Readable(t) /\ t.mask = NoMask
  <2>1. val' = WithFrom(setAddressX(val.from, t))
    BY <1>3 DEF SetAddressFrom, Change
  <2> QED BY <1>1, <1>2, <1>3, <2>1, WithFromKeeps DEF Fits
<1>4. CASE ~(Readable(t) /\ t.mask = NoMask)
  <2>1. val' = [val EXCEPT !.from = setAddressX(val.from, t)]
    BY <1>4 DEF SetAddressFrom, Change
  <2> QED BY <1>2, <1>4, <2>1, SameVersion DEF Fits
<1> QED BY <1>3, <1>4

LEMMA SetAddressToFits ==
  ASSUME val \in RangeType, NEW t \in AddressTexts, SetAddressTo(t)
  PROVE  Fits(Readable(t) /\ t.mask = NoMask, Readable(t) /\ t.mask # NoMask)
<1>1. t \in Text /\ kind = "range" /\ val.from.version # "none" /\ val.to \in IPx
  BY TextsTyped DEF SetAddressTo, HasFrom, RangeType
<1>2. /\ setAddressX(val.to, t) \in IPx
      /\ ~Readable(t) => setAddressX(val.to, t).version = val.to.version
  BY <1>1, setAddressXType DEF Readable
<1>3. CASE Readable(t) /\ t.mask = NoMask
  <2>1. val' = WithTo(setAddressX(val.to, t))
    BY <1>3 DEF SetAddressTo, Change
  <2> QED BY <1>1, <1>2, <2>1, WithToKeeps DEF Fits
<1>4. CASE ~(Readable(t) /\ t.mask = NoMask)
  <2>1. val' = [val EXCEPT !.to = setAddressX(val.to, t)]
    BY <1>4 DEF SetAddressTo, Change
  <2> QED BY <1>2, <1>4, <2>1, SameVersion DEF Fits
<1> QED BY <1>3, <1>4

\* An object and a netmask leave the version of the end they are given to.
LEMMA EndFits ==
  ASSUME val \in RangeType, (\E t \in Texts : SetToObject(t)) \/ (\E m \in {24, 96} : SetNetmaskTo(m))
  PROVE  Fits(FALSE, FALSE)
<1>1. val.to \in IPx
  BY DEF RangeType
<1>2. PICK x \in IPx : x.version = val.to.version /\ val' = [val EXCEPT !.to = x]
  <2>1. ASSUME NEW t \in Texts, SetToObject(t)
        PROVE  \E x \in IPx : x.version = val.to.version /\ val' = [val EXCEPT !.to = x]
    <3>1. PICK version : val' = [val EXCEPT !.to = setObjectX(val.to, version, t)]
      BY <2>1 DEF SetToObject, Change
    <3> QED BY <1>1, <3>1, TextsTyped, setObjectXType
  <2>2. ASSUME NEW m \in {24, 96}, SetNetmaskTo(m)
        PROVE  \E x \in IPx : x.version = val.to.version /\ val' = [val EXCEPT !.to = x]
    <3>1. Present(val.to) /\ val' = [val EXCEPT !.to = setNetmaskX(val.to, m)]
      BY <2>2 DEF SetNetmaskTo, Change
    <3> QED BY <1>1, <3>1, setNetmaskXType
  <2> QED BY <2>1, <2>2
<1> QED BY <1>2, SameVersion DEF Fits

LEMMA RangeMoves ==
  ASSUME val \in RangeType, MovesRange
  PROVE  /\ val' \in RangeType
         /\ VersionsFit(val) /\ ~VersionsFit(val') => \E t \in AddressTexts : Readable(t) /\ GivesMask(t)
<1>1. ASSUME NEW t \in Texts, SetFrom(t) \/ SetTo(t)
      PROVE  val' \in RangeType /\ (VersionsFit(val) => VersionsFit(val'))
  BY <1>1, SetFromFits, SetToFits DEF Fits
<1>2. ASSUME NEW t \in AddressTexts, SetAddressFrom(t) \/ SetAddressTo(t)
      PROVE  val' \in RangeType /\ (VersionsFit(val) /\ ~VersionsFit(val') => Readable(t) /\ GivesMask(t))
  BY <1>2, SetAddressFromFits, SetAddressToFits DEF Fits, GivesMask
<1>3. ASSUME (\E t \in Texts : SetToObject(t)) \/ (\E m \in {24, 96} : SetNetmaskTo(m))
      PROVE  val' \in RangeType /\ (VersionsFit(val) => VersionsFit(val'))
  BY <1>3, EndFits DEF Fits
<1> QED BY <1>1, <1>2, <1>3, Zenon DEF MovesRange

LEMMA RangeNext == RangeOk /\ [Next]_vars => RangeOk'
<1> SUFFICES ASSUME RangeOk, [Next]_vars, kind' = "range" PROVE val' \in RangeType
  BY DEF RangeOk
<1>1. kind = "range" /\ (val' = val \/ MovesRange) /\ val \in RangeType
  BY Moves DEF RangeOk
<1> QED BY <1>1, RangeMoves

\* Whatever the texts and the order in which they are assigned: once an end of
\* a range was given an address its versions fit, and no operation takes that
\* away but setAddressFrom() and setAddressTo() of an address with a mask,
\* which they store and refuse: IPxRangeParam, src/sparam.cpp:1860-1909.
THEOREM ValueParamsRangeVersions == Spec => RangeVersions
<1>1. ASSUME RangeOk, [Next]_vars, kind = "range", ~VersionsFit(val')
      PROVE  /\ \A t \in Texts : Readable(t) => ~SetFrom(t) /\ ~SetTo(t)
             /\ \A t \in AddressTexts : Readable(t) /\ t.mask = NoMask => ~SetAddressFrom(t) /\ ~SetAddressTo(t)
             /\ VersionsFit(val) => \E t \in AddressTexts : Readable(t) /\ GivesMask(t)
  <2>1. val \in RangeType /\ (val' = val \/ MovesRange)
    BY <1>1, Moves DEF RangeOk
  <2>2. \A t \in Texts : Readable(t) => ~SetFrom(t) /\ ~SetTo(t)
    BY <1>1, <2>1, SetFromFits, SetToFits DEF Fits
  <2>3. \A t \in AddressTexts : Readable(t) /\ t.mask = NoMask => ~SetAddressFrom(t) /\ ~SetAddressTo(t)
    BY <1>1, <2>1, SetAddressFromFits, SetAddressToFits DEF Fits
  <2>4. VersionsFit(val) => \E t \in AddressTexts : Readable(t) /\ GivesMask(t)
    BY <1>1, <2>1, RangeMoves
  <2> QED BY <2>2, <2>3, <2>4
<1>2. Init => RangeOk
  BY RangeInit
<1>3. RangeOk /\ [Next]_vars => RangeOk'
  BY RangeNext
<1> QED BY <1>1, <1>2, <1>3, PTL DEF Spec, RangeVersions

-----------------------------------------------------------------------------
(* The bits of bytes and words.                                             *)

Bit(a, e) == (a \div 2^e) % 2

LEMMA Powers ==
  /\ 2^0 = 1 /\ 2^1 = 2 /\ 2^2 = 4 /\ 2^3 = 8 /\ 2^4 = 16 /\ 2^5 = 32 /\ 2^6 = 64 /\ 2^7 = 128 /\ 2^8 = 256
  /\ 2^9 = 512 /\ 2^10 = 1024 /\ 2^11 = 2048 /\ 2^12 = 4096 /\ 2^13 = 8192 /\ 2^14 = 16384 /\ 2^15 = 32768
  /\ 2^16 = 65536
OBVIOUS

\* The bits of a and b from bit k on are the same.
Agree(a, b, k) == \A e \in k..7 : Bit(a, e) = Bit(b, e)

SameBit(a, b, q)   == (a \div q) % 2 = (b \div q) % 2
SameAbove(a, b, q) == a - (a % q) = b - (b % q)

\* Two bytes agree from a bit on when what is left above it is the same.
LEMMA ByteAgrees ==
  ASSUME NEW a \in Byte, NEW b \in Byte, NEW k \in 0..8
  PROVE  Agree(a, b, k) <=> SameAbove(a, b, 2^k)
<1>1. k \in {0, 1, 2, 3, 4, 5, 6, 7, 8} /\ a \in 0..255 /\ b \in 0..255
  BY DEF Byte
<1> DEFINE S(q) == SameBit(a, b, q)
           T(q) == SameAbove(a, b, q)
<1>2. T(128) <=> S(128) /\ T(256)
  BY <1>1 DEF SameBit, SameAbove
<1>3. T(64) <=> S(64) /\ T(128)
  BY <1>1 DEF SameBit, SameAbove
<1>4. T(32) <=> S(32) /\ T(64)
  BY <1>1 DEF SameBit, SameAbove
<1>5. T(16) <=> S(16) /\ T(32)
  BY <1>1 DEF SameBit, SameAbove
<1>6. T(8) <=> S(8) /\ T(16)
  BY <1>1 DEF SameBit, SameAbove
<1>7. T(4) <=> S(4) /\ T(8)
  BY <1>1 DEF SameBit, SameAbove
<1>8. T(2) <=> S(2) /\ T(4)
  BY <1>1 DEF SameBit, SameAbove
<1>9. T(1) <=> S(1) /\ T(2)
  BY <1>1 DEF SameBit, SameAbove
<1>10. T(256)
  BY <1>1 DEF SameAbove
<1>11. CASE k = 0
  <2>1. 2^k = 1 /\ (Agree(a, b, k) <=> S(1) /\ S(2) /\ S(4) /\ S(8) /\ S(16) /\ S(32) /\ S(64) /\ S(128))
    BY <1>11, Powers DEF Agree, Bit, SameBit
  <2> QED BY <1>9, <1>8, <1>7, <1>6, <1>5, <1>4, <1>3, <1>2, <1>10, <2>1
<1>12. CASE k = 1
  <2>1. 2^k = 2 /\ (Agree(a, b, k) <=> S(2) /\ S(4) /\ S(8) /\ S(16) /\ S(32) /\ S(64) /\ S(128))
    BY <1>12, Powers DEF Agree, Bit, SameBit
  <2> QED BY <1>8, <1>7, <1>6, <1>5, <1>4, <1>3, <1>2, <1>10, <2>1
<1>13. CASE k = 2
  <2>1. 2^k = 4 /\ (Agree(a, b, k) <=> S(4) /\ S(8) /\ S(16) /\ S(32) /\ S(64) /\ S(128))
    BY <1>13, Powers DEF Agree, Bit, SameBit
  <2> QED BY <1>7, <1>6, <1>5, <1>4, <1>3, <1>2, <1>10, <2>1
<1>14. CASE k = 3
  <2>1. 2^k = 8 /\ (Agree(a, b, k) <=> S(8) /\ S(16) /\ S(32) /\ S(64) /\ S(128))
    BY <1>14, Powers DEF Agree, Bit, SameBit
  <2> QED BY <1>6, <1>5, <1>4, <1>3, <1>2, <1>10, <2>1
<1>15. CASE k = 4
  <2>1. 2^k = 16 /\ (Agree(a, b, k) <=> S(16) /\ S(32) /\ S(64) /\ S(128))
    BY <1>15, Powers DEF Agree, Bit, SameBit
  <2> QED BY <1>5, <1>4, <1>3, <1>2, <1>10, <2>1
<1>16. CASE k = 5
  <2>1. 2^k = 32 /\ (Agree(a, b, k) <=> S(32) /\ S(64) /\ S(128))
    BY <1>16, Powers DEF Agree, Bit, SameBit
  <2> QED BY <1>4, <1>3, <1>2, <1>10, <2>1
<1>17. CASE k = 6
  <2>1. 2^k = 64 /\ (Agree(a, b, k) <=> S(64) /\ S(128))
    BY <1>17, Powers DEF Agree, Bit, SameBit
  <2> QED BY <1>3, <1>2, <1>10, <2>1
<1>18. CASE k = 7
  <2>1. 2^k = 128 /\ (Agree(a, b, k) <=> S(128))
    BY <1>18, Powers DEF Agree, Bit, SameBit
  <2> QED BY <1>2, <1>10, <2>1
<1>19. CASE k = 8
  <2>1. 2^k = 256 /\ (Agree(a, b, k) <=> TRUE)
    BY <1>19, Powers DEF Agree, Bit, SameBit
  <2> QED BY <1>10, <2>1
<1> QED BY <1>1, <1>11, <1>12, <1>13, <1>14, <1>15, <1>16, <1>17, <1>18, <1>19
LEMMA AgreeAll ==
  ASSUME NEW a \in Byte, NEW b \in Byte
  PROVE  (Agree(a, b, 0) <=> a = b) /\ Agree(a, b, 8)
<1>1. SameAbove(a, b, 1) <=> a = b
  BY DEF SameAbove, Byte
<1>2. Agree(a, b, 0) <=> SameAbove(a, b, 2^0)
  BY ByteAgrees
<1>3. Agree(a, b, 8)
  BY DEF Agree
<1> QED BY <1>1, <1>2, <1>3, Powers

\* The word made of two bytes.
Pair(a, c) == (a * 256) + c

\* The words made of the bytes a, c and b, d.
Low(a, b, c, d, q)     == SameAbove((a * 256) + c, (b * 256) + d, q) <=> a = b /\ SameAbove(c, d, q)
High(a, b, c, d, q, p) == SameAbove((a * 256) + c, (b * 256) + d, p) <=> SameAbove(a, b, q)

\* What is left of a word above 256 * q is what is left of its upper byte.
LEMMA UpperByte ==
  ASSUME NEW a \in Byte, NEW c \in Byte
  PROVE
         /\ ((a * 256) + c) % 256 = ((a % 1) * 256) + c
         /\ ((a * 256) + c) % 512 = ((a % 2) * 256) + c
         /\ ((a * 256) + c) % 1024 = ((a % 4) * 256) + c
         /\ ((a * 256) + c) % 2048 = ((a % 8) * 256) + c
         /\ ((a * 256) + c) % 4096 = ((a % 16) * 256) + c
         /\ ((a * 256) + c) % 8192 = ((a % 32) * 256) + c
         /\ ((a * 256) + c) % 16384 = ((a % 64) * 256) + c
         /\ ((a * 256) + c) % 32768 = ((a % 128) * 256) + c
         /\ ((a * 256) + c) % 65536 = ((a % 256) * 256) + c
<1>1. ((a * 256) + c) % 256 = ((a % 1) * 256) + c
  BY DEF Byte
<1>2. ((a * 256) + c) % 512 = ((a % 2) * 256) + c
  BY DEF Byte
<1>3. ((a * 256) + c) % 1024 = ((a % 4) * 256) + c
  BY DEF Byte
<1>4. ((a * 256) + c) % 2048 = ((a % 8) * 256) + c
  BY DEF Byte
<1>5. ((a * 256) + c) % 4096 = ((a % 16) * 256) + c
  BY DEF Byte
<1>6. ((a * 256) + c) % 8192 = ((a % 32) * 256) + c
  BY DEF Byte
<1>7. ((a * 256) + c) % 16384 = ((a % 64) * 256) + c
  BY DEF Byte
<1>8. ((a * 256) + c) % 32768 = ((a % 128) * 256) + c
  BY DEF Byte
<1>9. ((a * 256) + c) % 65536 = ((a % 256) * 256) + c
  BY DEF Byte
<1> QED BY <1>1, <1>2, <1>3, <1>4, <1>5, <1>6, <1>7, <1>8, <1>9

LEMMA LowAgrees ==
  ASSUME NEW a \in Byte, NEW b \in Byte, NEW c \in Byte, NEW d \in Byte, NEW k \in 0..8
  PROVE  Low(a, b, c, d, 2^k)
<1> DEFINE L(q) == Low(a, b, c, d, q)
<1>1. a \in 0..255 /\ b \in 0..255 /\ c \in 0..255 /\ d \in 0..255
  BY DEF Byte
<1>2. L(1)
  BY <1>1 DEF Low, SameAbove
<1>3. L(2)
  BY <1>1 DEF Low, SameAbove
<1>4. L(4)
  BY <1>1 DEF Low, SameAbove
<1>5. L(8)
  BY <1>1 DEF Low, SameAbove
<1>6. L(16)
  BY <1>1 DEF Low, SameAbove
<1>7. L(32)
  BY <1>1 DEF Low, SameAbove
<1>8. L(64)
  BY <1>1 DEF Low, SameAbove
<1>9. L(128)
  BY <1>1 DEF Low, SameAbove
<1>10. L(256)
  BY <1>1 DEF Low, SameAbove
<1>11. k \in {0, 1, 2, 3, 4, 5, 6, 7, 8}
  OBVIOUS
<1> HIDE DEF L
<1>12. CASE k = 0
  <2>1. 2^k = 1
    BY <1>12, Powers
  <2>2. L(2^k)
    BY <1>2, <2>1
  <2> QED BY <2>2 DEF L
<1>13. CASE k = 1
  <2>1. 2^k = 2
    BY <1>13, Powers
  <2>2. L(2^k)
    BY <1>3, <2>1
  <2> QED BY <2>2 DEF L
<1>14. CASE k = 2
  <2>1. 2^k = 4
    BY <1>14, Powers
  <2>2. L(2^k)
    BY <1>4, <2>1
  <2> QED BY <2>2 DEF L
<1>15. CASE k = 3
  <2>1. 2^k = 8
    BY <1>15, Powers
  <2>2. L(2^k)
    BY <1>5, <2>1
  <2> QED BY <2>2 DEF L
<1>16. CASE k = 4
  <2>1. 2^k = 16
    BY <1>16, Powers
  <2>2. L(2^k)
    BY <1>6, <2>1
  <2> QED BY <2>2 DEF L
<1>17. CASE k = 5
  <2>1. 2^k = 32
    BY <1>17, Powers
  <2>2. L(2^k)
    BY <1>7, <2>1
  <2> QED BY <2>2 DEF L
<1>18. CASE k = 6
  <2>1. 2^k = 64
    BY <1>18, Powers
  <2>2. L(2^k)
    BY <1>8, <2>1
  <2> QED BY <2>2 DEF L
<1>19. CASE k = 7
  <2>1. 2^k = 128
    BY <1>19, Powers
  <2>2. L(2^k)
    BY <1>9, <2>1
  <2> QED BY <2>2 DEF L
<1>20. CASE k = 8
  <2>1. 2^k = 256
    BY <1>20, Powers
  <2>2. L(2^k)
    BY <1>10, <2>1
  <2> QED BY <2>2 DEF L
<1> QED BY <1>11, <1>12, <1>13, <1>14, <1>15, <1>16, <1>17, <1>18, <1>19, <1>20

LEMMA HighAgrees ==
  ASSUME NEW a \in Byte, NEW b \in Byte, NEW c \in Byte, NEW d \in Byte, NEW k \in 0..8
  PROVE  SameAbove((a * 256) + c, (b * 256) + d, 2^(8 + k)) <=> SameAbove(a, b, 2^k)
<1> DEFINE H(q, p) == High(a, b, c, d, q, p)
<1>1. a \in Int /\ b \in Int /\ c \in Int /\ d \in Int
  BY DEF Byte
<1>2. H(1, 256)
  <2>1. ((a * 256) + c) % 256 = ((a % 1) * 256) + c /\ ((b * 256) + d) % 256 = ((b % 1) * 256) + d
    BY UpperByte
  <2> QED BY <1>1, <2>1 DEF High, SameAbove
<1>3. H(2, 512)
  <2>1. ((a * 256) + c) % 512 = ((a % 2) * 256) + c /\ ((b * 256) + d) % 512 = ((b % 2) * 256) + d
    BY UpperByte
  <2> QED BY <1>1, <2>1 DEF High, SameAbove
<1>4. H(4, 1024)
  <2>1. ((a * 256) + c) % 1024 = ((a % 4) * 256) + c /\ ((b * 256) + d) % 1024 = ((b % 4) * 256) + d
    BY UpperByte
  <2> QED BY <1>1, <2>1 DEF High, SameAbove
<1>5. H(8, 2048)
  <2>1. ((a * 256) + c) % 2048 = ((a % 8) * 256) + c /\ ((b * 256) + d) % 2048 = ((b % 8) * 256) + d
    BY UpperByte
  <2> QED BY <1>1, <2>1 DEF High, SameAbove
<1>6. H(16, 4096)
  <2>1. ((a * 256) + c) % 4096 = ((a % 16) * 256) + c /\ ((b * 256) + d) % 4096 = ((b % 16) * 256) + d
    BY UpperByte
  <2> QED BY <1>1, <2>1 DEF High, SameAbove
<1>7. H(32, 8192)
  <2>1. ((a * 256) + c) % 8192 = ((a % 32) * 256) + c /\ ((b * 256) + d) % 8192 = ((b % 32) * 256) + d
    BY UpperByte
  <2> QED BY <1>1, <2>1 DEF High, SameAbove
<1>8. H(64, 16384)
  <2>1. ((a * 256) + c) % 16384 = ((a % 64) * 256) + c /\ ((b * 256) + d) % 16384 = ((b % 64) * 256) + d
    BY UpperByte
  <2> QED BY <1>1, <2>1 DEF High, SameAbove
<1>9. H(128, 32768)
  <2>1. ((a * 256) + c) % 32768 = ((a % 128) * 256) + c /\ ((b * 256) + d) % 32768 = ((b % 128) * 256) + d
    BY UpperByte
  <2> QED BY <1>1, <2>1 DEF High, SameAbove
<1>10. H(256, 65536)
  <2>1. ((a * 256) + c) % 65536 = ((a % 256) * 256) + c /\ ((b * 256) + d) % 65536 = ((b % 256) * 256) + d
    BY UpperByte
  <2> QED BY <1>1, <2>1 DEF High, SameAbove
<1>11. k \in {0, 1, 2, 3, 4, 5, 6, 7, 8}
  OBVIOUS
<1> HIDE DEF H
<1>12. CASE k = 0
  <2>1. 2^k = 1 /\ 2^(8 + k) = 256
    BY <1>12, Powers
  <2>2. H(2^k, 2^(8 + k))
    BY <1>2, <2>1
  <2> QED BY <2>2 DEF H, High
<1>13. CASE k = 1
  <2>1. 2^k = 2 /\ 2^(8 + k) = 512
    BY <1>13, Powers
  <2>2. H(2^k, 2^(8 + k))
    BY <1>3, <2>1
  <2> QED BY <2>2 DEF H, High
<1>14. CASE k = 2
  <2>1. 2^k = 4 /\ 2^(8 + k) = 1024
    BY <1>14, Powers
  <2>2. H(2^k, 2^(8 + k))
    BY <1>4, <2>1
  <2> QED BY <2>2 DEF H, High
<1>15. CASE k = 3
  <2>1. 2^k = 8 /\ 2^(8 + k) = 2048
    BY <1>15, Powers
  <2>2. H(2^k, 2^(8 + k))
    BY <1>5, <2>1
  <2> QED BY <2>2 DEF H, High
<1>16. CASE k = 4
  <2>1. 2^k = 16 /\ 2^(8 + k) = 4096
    BY <1>16, Powers
  <2>2. H(2^k, 2^(8 + k))
    BY <1>6, <2>1
  <2> QED BY <2>2 DEF H, High
<1>17. CASE k = 5
  <2>1. 2^k = 32 /\ 2^(8 + k) = 8192
    BY <1>17, Powers
  <2>2. H(2^k, 2^(8 + k))
    BY <1>7, <2>1
  <2> QED BY <2>2 DEF H, High
<1>18. CASE k = 6
  <2>1. 2^k = 64 /\ 2^(8 + k) = 16384
    BY <1>18, Powers
  <2>2. H(2^k, 2^(8 + k))
    BY <1>8, <2>1
  <2> QED BY <2>2 DEF H, High
<1>19. CASE k = 7
  <2>1. 2^k = 128 /\ 2^(8 + k) = 32768
    BY <1>19, Powers
  <2>2. H(2^k, 2^(8 + k))
    BY <1>9, <2>1
  <2> QED BY <2>2 DEF H, High
<1>20. CASE k = 8
  <2>1. 2^k = 256 /\ 2^(8 + k) = 65536
    BY <1>20, Powers
  <2>2. H(2^k, 2^(8 + k))
    BY <1>10, <2>1
  <2> QED BY <2>2 DEF H, High
<1> QED BY <1>11, <1>12, <1>13, <1>14, <1>15, <1>16, <1>17, <1>18, <1>19, <1>20

LEMMA WordAgrees ==
  ASSUME NEW a \in Byte, NEW b \in Byte, NEW c \in Byte, NEW d \in Byte
  PROVE  /\ \A k \in 0..8 : SameAbove(Pair(a, c), Pair(b, d), 2^k) <=> a = b /\ Agree(c, d, k)
         /\ \A k \in 0..8 : SameAbove(Pair(a, c), Pair(b, d), 2^(8 + k)) <=> Agree(a, b, k)
<1>1. \A k \in 0..8 : SameAbove(Pair(a, c), Pair(b, d), 2^k) <=> a = b /\ SameAbove(c, d, 2^k)
  <2> TAKE k \in 0..8
  <2>1. Low(a, b, c, d, 2^k)
    BY LowAgrees
  <2> QED BY <2>1, Zenon DEF Low, Pair
<1>2. \A k \in 0..8 : SameAbove(Pair(a, c), Pair(b, d), 2^(8 + k)) <=> SameAbove(a, b, 2^k)
  <2> TAKE k \in 0..8
  <2>1. SameAbove((a * 256) + c, (b * 256) + d, 2^(8 + k)) <=> SameAbove(a, b, 2^k)
    BY HighAgrees
  <2> QED BY <2>1, Zenon DEF Pair
<1>3. \A k \in 0..8 : (Agree(c, d, k) <=> SameAbove(c, d, 2^k)) /\ (Agree(a, b, k) <=> SameAbove(a, b, 2^k))
  BY ByteAgrees, Zenon
<1> QED BY <1>1, <1>2, <1>3, Zenon

-----------------------------------------------------------------------------
(* Netmasks of IPv4 as bits.                                                *)

\* Where bit i of 32 is: in which byte, and which bit of it.
ByteOf(i) == 4 - (i \div 8)

LEMMA BitPlaces ==
  /\ \A i \in 0..31 : ByteOf(i) \in 1..4 /\ i % 8 \in 0..7 /\ (8 * (4 - ByteOf(i))) + (i % 8) = i
  /\ \A j \in 1..4, e \in 0..7 : LET i == (8 * (4 - j)) + e IN i \in 0..31 /\ ByteOf(i) = j /\ i % 8 = e
BY DEF ByteOf

LEMMA InBits ==
  ASSUME NEW bytes, NEW i \in 0..31
  PROVE  i \in Bits(bytes) <=> Bit(bytes[ByteOf(i)], i % 8) = 1
BY DEF Bits, Bit, ByteOf

LEMMA InBitsAt ==
  ASSUME NEW bytes, NEW j \in 1..4, NEW e \in 0..7
  PROVE  (8 * (4 - j)) + e \in Bits(bytes) <=> Bit(bytes[j], e) = 1
BY BitPlaces, InBits

LEMMA BitIsBit ==
  ASSUME NEW a \in Nat, NEW e \in 0..7
  PROVE  Bit(a, e) \in {0, 1}
BY DEF Bit


\* A sum of different powers of two has the bits of its terms.
LEMMA SumOfBits ==
  ASSUME NEW x0 \in {0, 1},
         NEW x1 \in {0, 2},
         NEW x2 \in {0, 4},
         NEW x3 \in {0, 8},
         NEW x4 \in {0, 16},
         NEW x5 \in {0, 32},
         NEW x6 \in {0, 64},
         NEW x7 \in {0, 128}
  PROVE  LET a == x0 + x1 + x2 + x3 + x4 + x5 + x6 + x7 IN
         /\ a \in Byte
         /\ (a \div 1) % 2 = 1 <=> x0 = 1
         /\ (a \div 2) % 2 = 1 <=> x1 = 2
         /\ (a \div 4) % 2 = 1 <=> x2 = 4
         /\ (a \div 8) % 2 = 1 <=> x3 = 8
         /\ (a \div 16) % 2 = 1 <=> x4 = 16
         /\ (a \div 32) % 2 = 1 <=> x5 = 32
         /\ (a \div 64) % 2 = 1 <=> x6 = 64
         /\ (a \div 128) % 2 = 1 <=> x7 = 128
<1> DEFINE a == x0 + x1 + x2 + x3 + x4 + x5 + x6 + x7
<1>1. a \in Byte
  BY DEF Byte
<1>2. (a \div 1) % 2 = 1 <=> x0 = 1
  OBVIOUS
<1>3. (a \div 2) % 2 = 1 <=> x1 = 2
  OBVIOUS
<1>4. (a \div 4) % 2 = 1 <=> x2 = 4
  OBVIOUS
<1>5. (a \div 8) % 2 = 1 <=> x3 = 8
  OBVIOUS
<1>6. (a \div 16) % 2 = 1 <=> x4 = 16
  OBVIOUS
<1>7. (a \div 32) % 2 = 1 <=> x5 = 32
  OBVIOUS
<1>8. (a \div 64) % 2 = 1 <=> x6 = 64
  OBVIOUS
<1>9. (a \div 128) % 2 = 1 <=> x7 = 128
  OBVIOUS
<1> QED BY <1>1, <1>2, <1>3, <1>4, <1>5, <1>6, <1>7, <1>8, <1>9

\* The four bytes of a mask have the bits it was made of.
LEMMA BytesOfBits ==
  ASSUME NEW S \in SUBSET (0..31)
  PROVE  BytesOf(S) \in Bytes /\ Bits(BytesOf(S)) = S
<1> DEFINE V(j, e) == BitOf(S, j, e)
<1>1. ASSUME NEW j \in 1..4
      PROVE  /\ BytesOf(S)[j] \in Byte
             /\ \A e \in 0..7 : Bit(BytesOf(S)[j], e) = 1 <=> (8 * (4 - j)) + e \in S
  <2>1. V(j, 0) \in {0, 1} /\ (V(j, 0) = 1 <=> (8 * (4 - j)) + 0 \in S)
    BY Powers DEF BitOf
  <2>2. V(j, 1) \in {0, 2} /\ (V(j, 1) = 2 <=> (8 * (4 - j)) + 1 \in S)
    BY Powers DEF BitOf
  <2>3. V(j, 2) \in {0, 4} /\ (V(j, 2) = 4 <=> (8 * (4 - j)) + 2 \in S)
    BY Powers DEF BitOf
  <2>4. V(j, 3) \in {0, 8} /\ (V(j, 3) = 8 <=> (8 * (4 - j)) + 3 \in S)
    BY Powers DEF BitOf
  <2>5. V(j, 4) \in {0, 16} /\ (V(j, 4) = 16 <=> (8 * (4 - j)) + 4 \in S)
    BY Powers DEF BitOf
  <2>6. V(j, 5) \in {0, 32} /\ (V(j, 5) = 32 <=> (8 * (4 - j)) + 5 \in S)
    BY Powers DEF BitOf
  <2>7. V(j, 6) \in {0, 64} /\ (V(j, 6) = 64 <=> (8 * (4 - j)) + 6 \in S)
    BY Powers DEF BitOf
  <2>8. V(j, 7) \in {0, 128} /\ (V(j, 7) = 128 <=> (8 * (4 - j)) + 7 \in S)
    BY Powers DEF BitOf
  <2>9. BytesOf(S)[j] = V(j, 0) + V(j, 1) + V(j, 2) + V(j, 3) + V(j, 4) + V(j, 5) + V(j, 6) + V(j, 7)
    BY DEF BytesOf
  <2> HIDE DEF V
  <2> DEFINE a == BytesOf(S)[j]
  <2>10. /\ a \in Byte
         /\ (a \div 1) % 2 = 1 <=> V(j, 0) = 1
         /\ (a \div 2) % 2 = 1 <=> V(j, 1) = 2
         /\ (a \div 4) % 2 = 1 <=> V(j, 2) = 4
         /\ (a \div 8) % 2 = 1 <=> V(j, 3) = 8
         /\ (a \div 16) % 2 = 1 <=> V(j, 4) = 16
         /\ (a \div 32) % 2 = 1 <=> V(j, 5) = 32
         /\ (a \div 64) % 2 = 1 <=> V(j, 6) = 64
         /\ (a \div 128) % 2 = 1 <=> V(j, 7) = 128
    BY <2>1, <2>2, <2>3, <2>4, <2>5, <2>6, <2>7, <2>8, <2>9, SumOfBits
  <2> HIDE DEF a
  <2>11. ASSUME NEW e \in 0..7 PROVE Bit(a, e) = 1 <=> (8 * (4 - j)) + e \in S
    <3>1. e \in {0, 1, 2, 3, 4, 5, 6, 7}
      OBVIOUS
    <3>2. CASE e = 0
      BY <2>1, <2>10, <3>2, Powers DEF Bit
    <3>3. CASE e = 1
      BY <2>2, <2>10, <3>3, Powers DEF Bit
    <3>4. CASE e = 2
      BY <2>3, <2>10, <3>4, Powers DEF Bit
    <3>5. CASE e = 3
      BY <2>4, <2>10, <3>5, Powers DEF Bit
    <3>6. CASE e = 4
      BY <2>5, <2>10, <3>6, Powers DEF Bit
    <3>7. CASE e = 5
      BY <2>6, <2>10, <3>7, Powers DEF Bit
    <3>8. CASE e = 6
      BY <2>7, <2>10, <3>8, Powers DEF Bit
    <3>9. CASE e = 7
      BY <2>8, <2>10, <3>9, Powers DEF Bit
    <3> QED BY <3>1, <3>2, <3>3, <3>4, <3>5, <3>6, <3>7, <3>8, <3>9
  <2> QED BY <2>10, <2>11 DEF a
<1>2. BytesOf(S) \in Bytes
  <2>1. BytesOf(S) = [j \in 1..4 |-> BytesOf(S)[j]]
    BY DEF BytesOf
  <2> QED BY <1>1, <2>1 DEF Bytes
<1>3. ASSUME NEW i \in 0..31 PROVE i \in Bits(BytesOf(S)) <=> i \in S
  <2>1. ByteOf(i) \in 1..4 /\ i % 8 \in 0..7 /\ (8 * (4 - ByteOf(i))) + (i % 8) = i
    BY BitPlaces
  <2>2. Bit(BytesOf(S)[ByteOf(i)], i % 8) = 1 <=> (8 * (4 - ByteOf(i))) + (i % 8) \in S
    BY <1>1, <2>1, Zenon
  <2> QED BY <2>1, <2>2, InBits
<1>4. Bits(BytesOf(S)) \subseteq 0..31
  BY DEF Bits
<1> QED BY <1>2, <1>3, <1>4

LEMMA MaskBits ==
  ASSUME NEW n \in 0..32
  PROVE  convertSimpleNetmaskToCompact(n) = (32 - n)..31
<1>1. ASSUME NEW b \in (32 - n)..31 PROVE b \in convertSimpleNetmaskToCompact(n)
  <2>1. b - (32 - n) \in 0..(n - 1) /\ b = (b - (32 - n)) + (32 - n)
    OBVIOUS
  <2> QED BY <2>1, Zenon DEF convertSimpleNetmaskToCompact
<1>2. ASSUME NEW b \in convertSimpleNetmaskToCompact(n) PROVE b \in (32 - n)..31
  BY DEF convertSimpleNetmaskToCompact
<1> QED BY <1>1, <1>2

\* What is accepted as a mask has no set bit below the highest clear one.
LEMMA MaskRead ==
  ASSUME NEW S \in SUBSET (0..31), convertCompactNetmaskToSimple(S) # NotAMask
  PROVE  \A i, j \in 0..31 : i < j /\ i \in S => j \in S
<1> DEFINE clear == (0..31) \ S
           threshold == IF clear = {} THEN 0 ELSE Max(clear)
<1>1. S \cap (0..(threshold - 1)) = {}
  BY DEF convertCompactNetmaskToSimple
<1>2. clear # {} => Max(clear) \in clear /\ \A y \in clear : y <= Max(clear)
  BY MaxExists
<1>3. threshold \in 0..31 /\ \A y \in clear : y <= threshold
  BY <1>2
<1> HIDE DEF threshold
<1> SUFFICES ASSUME NEW i \in 0..31, NEW j \in 0..31, i < j, i \in S PROVE j \in S
  OBVIOUS
<1>4. i \notin 0..(threshold - 1)
  BY <1>1
<1>5. j \notin clear
  BY <1>3, <1>4
<1> QED BY <1>5

LEMMA PrefixRead ==
  ASSUME NEW n \in 0..31
  PROVE  convertCompactNetmaskToSimple((32 - n)..31) = n
<1> DEFINE S == (32 - n)..31
           clear == (0..31) \ S
           threshold == IF clear = {} THEN 0 ELSE Max(clear)
<1>1. 31 - n \in clear /\ \A y \in clear : y <= 31 - n
  OBVIOUS
<1>2. Max(clear) \in clear /\ \A y \in clear : y <= Max(clear)
  <2>1. clear # {} /\ clear \in SUBSET (0..31) /\ 31 \in Nat
    BY <1>1
  <2> HIDE DEF clear
  <2> QED BY <2>1, MaxExists
<1>3. threshold = 31 - n
  BY <1>1, <1>2
<1>4. S \cap (0..(threshold - 1)) = {}
  BY <1>3
<1>5. convertCompactNetmaskToSimple(S) = 31 - threshold
  BY <1>4 DEF convertCompactNetmaskToSimple
<1> HIDE DEF threshold
<1> QED BY <1>3, <1>5

\* Four bytes are read as the mask with their bits.
LEMMA FourBytesRead ==
  /\ \A m \in Bytes : setNetmask4(m) = convertCompactNetmaskToSimple(Bits(m))
  /\ \A m \in Seq(Part) : Len(m) = 4 /\ setNetmask4(m) # NotAMask =>
                            setNetmask4(m) = convertCompactNetmaskToSimple(Bits(m))
<1>1. ASSUME NEW m \in Bytes PROVE setNetmask4(m) = convertCompactNetmaskToSimple(Bits(m))
  <2>1. Len(m) = 4 /\ \A i \in 1..4 : m[i] \in Byte
    BY DEF Bytes
  <2> QED BY <2>1 DEF setNetmask4
<1>2. ASSUME NEW m \in Seq(Part), Len(m) = 4, setNetmask4(m) # NotAMask
      PROVE  setNetmask4(m) = convertCompactNetmaskToSimple(Bits(m))
  BY <1>2 DEF setNetmask4
<1> QED BY <1>1, <1>2

LEMMA ExtendedReadsBack ==
  ASSUME NEW ip \in IPv4, ip.netmask < 32
  PROVE  setNetmask4(getNetmaskExtended(ip)) = ip.netmask
<1> DEFINE n == ip.netmask
           S == (32 - n)..31
<1>1. n \in 0..31
  BY DEF IPv4
<1>2. S \in SUBSET (0..31)
  BY <1>1
<1>3. getNetmaskExtended(ip) = BytesOf(S)
  <2>1. n \in 0..32
    BY <1>1
  <2>2. convertSimpleNetmaskToCompact(n) = S
    BY <2>1, MaskBits
  <2> QED BY <2>2 DEF getNetmaskExtended
<1> HIDE DEF S
<1>4. BytesOf(S) \in Bytes /\ Bits(BytesOf(S)) = S
  BY <1>2, BytesOfBits
<1>5. setNetmask4(BytesOf(S)) = convertCompactNetmaskToSimple(S)
  BY <1>4, FourBytesRead
<1>6. convertCompactNetmaskToSimple(S) = n
  BY <1>1, PrefixRead DEF S
<1> QED BY <1>3, <1>5, <1>6

-----------------------------------------------------------------------------
(* The network test, of IPv4 addresses and of what they are mapped to.      *)

\* A number between 0 and 8.
Clip(k) == IF k <= 0 THEN 0 ELSE IF k >= 8 THEN 8 ELSE k

\* Which bits of each byte a mask of n bits leaves out.
LEMMA MaskedBytes ==
  ASSUME NEW x \in Bytes, NEW y \in Bytes, NEW n \in 0..32
  PROVE  Bits(x) \cap ((32 - n)..31) = Bits(y) \cap ((32 - n)..31)
         <=> \A j \in 1..4 : Agree(x[j], y[j], Clip((8 * j) - n))
<1> DEFINE M == (32 - n)..31
           Same(i) == Bit(x[ByteOf(i)], i % 8) = Bit(y[ByteOf(i)], i % 8)
<1>1. \A j \in 1..4 : x[j] \in Byte /\ y[j] \in Byte
  BY DEF Bytes
<1>2. ASSUME NEW i \in 0..31 PROVE (i \in Bits(x) <=> i \in Bits(y)) <=> Same(i)
  <2>1. ByteOf(i) \in 1..4 /\ i % 8 \in 0..7
    BY BitPlaces
  <2>2. x[ByteOf(i)] \in Nat /\ y[ByteOf(i)] \in Nat
    <3>1. x[ByteOf(i)] \in Byte /\ y[ByteOf(i)] \in Byte
      BY <1>1, <2>1, Zenon
    <3>2. Byte \subseteq Nat
      BY DEF Byte
    <3> QED BY <3>1, <3>2, Zenon
  <2>3. Bit(x[ByteOf(i)], i % 8) \in {0, 1} /\ Bit(y[ByteOf(i)], i % 8) \in {0, 1}
    BY <2>1, <2>2, BitIsBit
  <2>4. (i \in Bits(x) <=> Bit(x[ByteOf(i)], i % 8) = 1) /\ (i \in Bits(y) <=> Bit(y[ByteOf(i)], i % 8) = 1)
    BY InBits
  <2> QED BY <2>3, <2>4
<1> HIDE DEF Same
<1>3. Bits(x) \cap M = Bits(y) \cap M <=> \A i \in M : Same(i)
  <2>1. M \subseteq 0..31
    OBVIOUS
  <2> HIDE DEF M
  <2> QED BY <1>2, <2>1
<1>4. ASSUME \A i \in M : Same(i), NEW j \in 1..4, NEW e \in Clip((8 * j) - n)..7
      PROVE  Bit(x[j], e) = Bit(y[j], e)
  <2>1. e \in 0..7 /\ e >= (8 * j) - n
    BY DEF Clip
  <2> DEFINE i == (8 * (4 - j)) + e
  <2>2. i \in 0..31 /\ ByteOf(i) = j /\ i % 8 = e
    BY <2>1, BitPlaces
  <2>3. i \in M
    BY <2>1
  <2> HIDE DEF i
  <2> QED BY <1>4, <2>2, <2>3 DEF Same
<1>5. ASSUME \A j \in 1..4 : Agree(x[j], y[j], Clip((8 * j) - n)), NEW i \in M
      PROVE  Same(i)
  <2> DEFINE j == ByteOf(i)
             e == i % 8
  <2>1. j \in 1..4 /\ e \in 0..7 /\ (8 * (4 - j)) + e = i
    BY BitPlaces
  <2> HIDE DEF j, e
  <2>2. e \in Clip((8 * j) - n)..7
    BY <2>1 DEF Clip
  <2>3. Agree(x[j], y[j], Clip((8 * j) - n))
    BY <1>5, <2>1
  <2>4. Bit(x[j], e) = Bit(y[j], e)
    BY <2>2, <2>3 DEF Agree
  <2> QED BY <2>4 DEF Same, j, e
<1> QED BY <1>3, <1>4, <1>5 DEF Agree
\* The words an IPv4 address is mapped to.
Upper(bytes) == Pair(bytes[1], bytes[2])
Lower(bytes) == Pair(bytes[3], bytes[4])

MappedWords(v, w) == <<0, 0, 0, 0, 65535, 0, v, w>>

\* What of a mapped address counts when the mask has n bits, and when two
\* words are the same as far as m bits count.
Counted(v, w, n)  == leadingBits(MappedWords(v, w), 96 + n)
SameWord(v, z, m) == IF m >= 16 THEN v = z ELSE m <= 0 \/ SameAbove(v, z, 2^(16 - m))

LEMMA LeadingWords ==
  ASSUME NEW v \in Word, NEW w \in Word, NEW z \in Word, NEW y \in Word, NEW n \in 0..32
  PROVE  Counted(v, w, n) = Counted(z, y, n) <=> SameWord(v, z, n) /\ SameWord(w, y, n - 16)
<1> DEFINE F == Counted(v, w, n)
           G == Counted(z, y, n)
<1>1. \A i \in 1..6 : F[i] = G[i]
  BY DEF Counted, leadingBits, MappedWords
<1>2. F[7] = G[7] <=> SameWord(v, z, n)
  BY DEF Counted, leadingBits, MappedWords, SameWord, SameAbove
<1>3. F[8] = G[8] <=> SameWord(w, y, n - 16)
  <2>1. F[8] = G[8] <=> IF n >= 32 THEN w = y ELSE n <= 16 \/ SameAbove(w, y, 2^(32 - n))
    BY DEF Counted, leadingBits, MappedWords, SameAbove
  <2>2. (n >= 32 <=> n - 16 >= 16) /\ (n <= 16 <=> n - 16 <= 0) /\ 32 - n = 16 - (n - 16)
    OBVIOUS
  <2> HIDE DEF F, G
  <2> QED BY <2>1, <2>2, Zenon DEF SameWord
<1>4. F = [i \in 1..8 |-> F[i]] /\ G = [i \in 1..8 |-> G[i]]
  BY DEF Counted, leadingBits
<1> HIDE DEF F, G
<1>5. F = G <=> \A i \in 1..8 : F[i] = G[i]
  BY <1>4
<1>6. F = G <=> F[7] = G[7] /\ F[8] = G[8]
  BY <1>1, <1>5
<1> QED BY <1>2, <1>3, <1>6 DEF F, G

\* One word, of which m bits count, against its two bytes.
LEMMA WordTest ==
  ASSUME NEW a \in Byte, NEW b \in Byte, NEW c \in Byte, NEW d \in Byte, NEW m \in Int
  PROVE  Agree(a, b, Clip(8 - m)) /\ Agree(c, d, Clip(16 - m)) <=> SameWord(Pair(a, c), Pair(b, d), m)
<1> DEFINE v == Pair(a, c)
           w == Pair(b, d)
<1>1. /\ Agree(a, b, 0) <=> a = b
      /\ Agree(c, d, 0) <=> c = d
      /\ Agree(a, b, 8) /\ Agree(c, d, 8)
  BY AgreeAll
<1>2. v = w <=> a = b /\ c = d
  BY DEF Byte, Pair
<1>3. /\ \A k \in 0..8 : SameAbove(v, w, 2^k) <=> a = b /\ Agree(c, d, k)
      /\ \A k \in 0..8 : SameAbove(v, w, 2^(8 + k)) <=> Agree(a, b, k)
  BY WordAgrees, Zenon
<1> HIDE DEF v, w
<1> SUFFICES Agree(a, b, Clip(8 - m)) /\ Agree(c, d, Clip(16 - m)) <=> SameWord(v, w, m)
  BY DEF v, w
<1>4. CASE m >= 16
  <2>1. Clip(8 - m) = 0 /\ Clip(16 - m) = 0
    BY <1>4 DEF Clip
  <2> QED BY <1>1, <1>2, <1>4, <2>1, Zenon DEF SameWord
<1>5. CASE m \in 8..15
  <2>1. Clip(8 - m) = 0 /\ Clip(16 - m) = 16 - m /\ 16 - m \in 0..8 /\ ~(m >= 16) /\ ~(m <= 0)
    BY <1>5 DEF Clip
  <2>2. SameAbove(v, w, 2^(16 - m)) <=> a = b /\ Agree(c, d, 16 - m)
    BY <1>3, <2>1, Zenon
  <2> QED BY <1>1, <2>1, <2>2, Zenon DEF SameWord
<1>6. CASE m \in 1..7
  <2>1. /\ Clip(8 - m) = 8 - m /\ Clip(16 - m) = 8 /\ 8 - m \in 0..8 /\ 8 + (8 - m) = 16 - m
        /\ ~(m >= 16) /\ ~(m <= 0)
    BY <1>6 DEF Clip
  <2>2. SameAbove(v, w, 2^(16 - m)) <=> Agree(a, b, 8 - m)
    <3>1. SameAbove(v, w, 2^(8 + (8 - m))) <=> Agree(a, b, 8 - m)
      BY <1>3, <2>1, Zenon
    <3> QED BY <2>1, <3>1, Zenon
  <2> QED BY <1>1, <2>1, <2>2, Zenon DEF SameWord
<1>7. CASE m <= 0
  <2>1. Clip(8 - m) = 8 /\ Clip(16 - m) = 8 /\ ~(m >= 16)
    BY <1>7 DEF Clip
  <2> QED BY <1>1, <1>7, <2>1, Zenon DEF SameWord
<1> QED BY <1>4, <1>5, <1>6, <1>7

\* The test of the IPv4 addresses and that of the mapped ones.
LEMMA NetworkTest ==
  ASSUME NEW ip \in IPv4, NEW new \in IPv4, ip.containNetmask
  PROVE  available4(ip, new.address) <=> available6(Mapped(ip), Mapped(new).address)
<1> DEFINE n == ip.netmask
           x == new.address
           y == ip.address
           A(j) == Agree(x[j], y[j], Clip((8 * j) - n))
<1>1. n \in 0..32 /\ x \in Bytes /\ y \in Bytes
  BY Zenon DEF IPv4, Bytes
<1>2. \A j \in 1..4 : x[j] \in Byte /\ y[j] \in Byte
  BY <1>1 DEF Bytes
<1>3. available4(ip, x) <=> \A j \in 1..4 : A(j)
  <2>1. Bits(x) \cap ((32 - n)..31) = Bits(y) \cap ((32 - n)..31) <=> \A j \in 1..4 : A(j)
    BY <1>1, MaskedBytes
  <2>2. convertSimpleNetmaskToCompact(n) = (32 - n)..31
    BY <1>1, MaskBits
  <2> QED BY <2>1, <2>2, Zenon DEF available4
<1>4. available6(Mapped(ip), Mapped(new).address)
      <=> Counted(Upper(x), Lower(x), n) = Counted(Upper(y), Lower(y), n)
  <2>1. /\ Mapped(ip).address = MappedWords(Upper(y), Lower(y))
        /\ Mapped(ip).netmask = 96 + n /\ Mapped(ip).containNetmask
        /\ Mapped(new).address = MappedWords(Upper(x), Lower(x))
    BY DEF Mapped, MappedWords, Upper, Lower, Pair
  <2> QED BY <2>1, Zenon DEF available6, Counted
<1> HIDE DEF n, x, y
<1>5. Upper(x) \in Word /\ Lower(x) \in Word /\ Upper(y) \in Word /\ Lower(y) \in Word
  BY <1>2, TwoBytes DEF Upper, Lower, Pair
<1>6. Counted(Upper(x), Lower(x), n) = Counted(Upper(y), Lower(y), n)
      <=> SameWord(Upper(x), Upper(y), n) /\ SameWord(Lower(x), Lower(y), n - 16)
  BY <1>1, <1>5, LeadingWords
<1>7. A(1) /\ A(2) <=> SameWord(Upper(x), Upper(y), n)
  <2>1. n \in Int
    BY <1>1
  <2>2. (8 * 1) - n = 8 - n /\ (8 * 2) - n = 16 - n
    BY <2>1
  <2>3. x[1] \in Byte /\ x[2] \in Byte /\ y[1] \in Byte /\ y[2] \in Byte
    BY <1>2
  <2>4. Agree(x[1], y[1], Clip(8 - n)) /\ Agree(x[2], y[2], Clip(16 - n))
        <=> SameWord(Pair(x[1], x[2]), Pair(y[1], y[2]), n)
    BY <2>1, <2>3, WordTest, Zenon
  <2> QED BY <2>2, <2>4, Zenon DEF Upper
<1>8. A(3) /\ A(4) <=> SameWord(Lower(x), Lower(y), n - 16)
  <2>1. n - 16 \in Int
    BY <1>1
  <2>2. (8 * 3) - n = 8 - (n - 16) /\ (8 * 4) - n = 16 - (n - 16)
    BY <1>1
  <2>3. x[3] \in Byte /\ x[4] \in Byte /\ y[3] \in Byte /\ y[4] \in Byte
    BY <1>2
  <2>4. Agree(x[3], y[3], Clip(8 - (n - 16))) /\ Agree(x[4], y[4], Clip(16 - (n - 16)))
        <=> SameWord(Pair(x[3], x[4]), Pair(y[3], y[4]), n - 16)
    BY <2>1, <2>3, WordTest, Zenon
  <2> QED BY <2>2, <2>4, Zenon DEF Lower
<1>9. (\A j \in 1..4 : A(j)) <=> (A(1) /\ A(2)) /\ (A(3) /\ A(4))
  <2> HIDE DEF A
  <2>1. 1..4 = {1, 2, 3, 4}
    OBVIOUS
  <2> QED BY <2>1
<1> HIDE DEF A
<1> QED BY <1>3, <1>4, <1>6, <1>7, <1>8, <1>9, Zenon DEF x

\* Theorem: a netmask written as four bytes is read as the same prefix, what
\* is read as a mask has no gap in it, and the network test of an IPv4 address
\* agrees with that of the IPv6 address it is mapped to.
THEOREM ValueParamsMaskReadsBack == Spec => []MaskReadsBack
<1>1. V4Ok => MaskReadsBack
  <2> SUFFICES ASSUME val \in IPv4
               PROVE  /\ val.netmask < 32 => setNetmask4(getNetmaskExtended(val)) = val.netmask
                      /\ \A m \in Netmasks : Len(m) = 4 /\ setNetmask4(m) # NotAMask =>
                           \A i, j \in 0..31 : i < j /\ i \in Bits(m) => j \in Bits(m)
                      /\ val.containNetmask =>
                           \A t \in AddressTexts : Reads4(t) =>
                             (available4(val, setAddress4(t))
                              <=> available6(Mapped(val), Mapped(set4(NewIPv4, t)).address))
    BY Zenon DEF V4Ok, MaskReadsBack
  <2>1. ASSUME NEW m \in Netmasks, Len(m) = 4, setNetmask4(m) # NotAMask
        PROVE  \A i, j \in 0..31 : i < j /\ i \in Bits(m) => j \in Bits(m)
    <3>1. setNetmask4(m) = convertCompactNetmaskToSimple(Bits(m))
      BY <2>1, TextsTyped, FourBytesRead
    <3>2. Bits(m) \in SUBSET (0..31)
      BY DEF Bits
    <3> QED BY <2>1, <3>1, <3>2, MaskRead, Zenon
  <2>2. ASSUME val.containNetmask, NEW t \in AddressTexts, Reads4(t)
        PROVE  available4(val, setAddress4(t)) <=> available6(Mapped(val), Mapped(set4(NewIPv4, t)).address)
    <3>1. set4(NewIPv4, t) \in IPv4
      BY NewTypes, TextsTyped, Set4Type
    <3>2. set4(NewIPv4, t).address = setAddress4(t)
      BY <2>2, NewTypes DEF set4, Reads4, IPv4
    <3> HIDE DEF V4Ok
    <3> QED BY <2>2, <3>1, <3>2, NetworkTest, Zenon
  <2> QED BY <2>1, <2>2, ExtendedReadsBack, Zenon
<1> QED BY <1>1, AddressesInit, V4Next, PTL DEF Spec

-----------------------------------------------------------------------------
(* What getAddress() of IPv6Param writes, setAddress() reads.               *)

LEMMA MinExists ==
  ASSUME NEW n \in Nat, NEW S \in SUBSET (0..n), S # {}
  PROVE  Min(S) \in S /\ \A y \in S : Min(S) <= y
<1> DEFINE M == {n - x : x \in S}
<1>1. M \in SUBSET (0..n) /\ M # {}
  <2>1. \A x \in S : n - x \in 0..n
    OBVIOUS
  <2>2. PICK x \in S : TRUE
    OBVIOUS
  <2>3. n - x \in M
    BY <2>2
  <2> QED BY <2>1, <2>3
<1>2. Max(M) \in M /\ \A y \in M : y <= Max(M)
  BY <1>1, MaxExists
<1>3. PICK x \in S : Max(M) = n - x
  BY <1>2
<1>4. \A y \in S : x <= y
  <2> SUFFICES ASSUME NEW y \in S PROVE x <= y
    OBVIOUS
  <2>1. n - y <= n - x
    BY <1>2, <1>3
  <2> QED BY <2>1
<1>5. \E z \in S : \A y \in S : z <= y
  BY <1>4
<1> QED BY <1>5, Zenon DEF Min

\* The ends of the first run of zeros.
Run(words, s, e) ==
  /\ s \in 1..8 /\ e \in s..8
  /\ \A i \in 1..8 : i < s => words[i] # 0
  /\ \A i \in s..e : words[i] = 0
  /\ e = 8 \/ words[e + 1] # 0

\* The text for a run of zeros.
Written(words, s, e) ==
  (IF s = 1 THEN <<Blank>> ELSE SubSeq(words, 1, s - 1)) \o <<Blank>>
  \o (IF e = 8 THEN <<Blank>> ELSE SubSeq(words, e + 1, 8))

LEMMA RunWritten ==
  ASSUME NEW words \in Words, NEW z \in 1..8, words[z] = 0
  PROVE  \E s, e \in 1..8 : Run(words, s, e) /\ getAddress6(words) = Written(words, s, e)
<1> DEFINE I == {i \in 1..Len(words) : words[i] = 0}
           s == SelectInSeq(words, LAMBDA w : w = 0)
           later == {i \in (s + 1)..8 : words[i] # 0}
           e == IF later = {} THEN 8 ELSE Min(later) - 1
<1>1. Len(words) = 8 /\ words \in Seq(Word) /\ 0 \in ToSet(words)
  <2>1. words \in [1..8 -> Word]
    BY DEF Words
  <2>2. DOMAIN words = 1..8 /\ words[z] = 0
    BY <2>1
  <2>3. 0 \in ToSet(words)
    BY <2>2, Zenon DEF ToSet
  <2>4. Len(words) = 8 /\ words \in Seq(Word)
    <3> DEFINE copy == [i \in 1..8 |-> words[i]]
    <3>1. copy \in Seq(Word) /\ Len(copy) = 8
      BY <2>1
    <3>2. words = copy
      BY <2>1
    <3> QED BY <3>1, <3>2, Zenon
  <2> QED BY <2>3, <2>4
<1>2. I \in SUBSET (0..8) /\ z \in I
  BY <1>1
<1>3. s = Min(I)
  BY <1>2 DEF SelectInSeq
<1>4. s \in I /\ \A i \in I : s <= i
  <2>1. I # {} /\ 8 \in Nat
    BY <1>2
  <2> HIDE DEF I, s
  <2> QED BY <1>2, <1>3, <2>1, MinExists
<1>5. s \in 1..8 /\ words[s] = 0 /\ \A i \in 1..8 : i < s => words[i] # 0
  BY <1>1, <1>4
<1>6. getAddress6(words) = Written(words, s, e)
  BY <1>1, Zenon DEF getAddress6, Written
<1> HIDE DEF s
<1>7. later \in SUBSET (0..8)
  BY <1>5
<1>8. CASE later = {}
  <2>1. e = 8 /\ \A i \in s..8 : words[i] = 0
    BY <1>5, <1>8
  <2>2. Run(words, s, e)
    BY <1>5, <2>1 DEF Run
  <2> QED BY <1>5, <1>6, <2>1, <2>2
<1>9. CASE later # {}
  <2> DEFINE m == Min(later)
  <2>1. m \in later /\ \A i \in later : m <= i
    BY <1>7, <1>9, MinExists
  <2> HIDE DEF m
  <2>2. m \in (s + 1)..8 /\ words[m] # 0
    BY <2>1
  <2>3. \A i \in s..(m - 1) : words[i] = 0
    BY <1>5, <2>1, <2>2
  <2>4. e = m - 1
    BY <1>9 DEF m
  <2> HIDE DEF e, later
  <2>5. e \in s..8 /\ e \in 1..8 /\ e + 1 = m /\ \A i \in s..e : words[i] = 0
    BY <1>5, <2>2, <2>3, <2>4
  <2>6. Run(words, s, e)
    BY <1>5, <2>2, <2>5 DEF Run
  <2> QED BY <1>5, <1>6, <2>5, <2>6
<1> QED BY <1>8, <1>9

\* A sequence of b - 1 parts, a blank one, and n - b more.
LEMMA PartsAround ==
  ASSUME NEW A \in Seq(Part), NEW C \in Seq(Part)
  PROVE  /\ A \o <<Blank>> \o C \in Seq(Part)
         /\ Len(A \o <<Blank>> \o C) = Len(A) + 1 + Len(C)
         /\ \A i \in 1..(Len(A) + 1 + Len(C)) :
              (A \o <<Blank>> \o C)[i] = IF i <= Len(A) THEN A[i] ELSE IF i = Len(A) + 1 THEN Blank
                                         ELSE C[i - (Len(A) + 1)]
<1> DEFINE B == A \o <<Blank>>
<1>1. Blank \in Part
  BY DEF Part
<1> HIDE DEF Part
<1>2. <<Blank>> \in Seq(Part) /\ Len(<<Blank>>) = 1 /\ <<Blank>>[1] = Blank
  BY <1>1
<1>3. /\ B \in Seq(Part) /\ Len(B) = Len(A) + 1
      /\ \A i \in 1..(Len(A) + 1) : B[i] = IF i <= Len(A) THEN A[i] ELSE Blank
  <2>1. /\ B \in Seq(Part) /\ Len(B) = Len(A) + Len(<<Blank>>)
        /\ \A i \in 1..(Len(A) + Len(<<Blank>>)) : B[i] = IF i <= Len(A) THEN A[i] ELSE <<Blank>>[i - Len(A)]
    BY <1>2, ConcatProperties
  <2> HIDE DEF B
  <2>2. ASSUME NEW i \in 1..(Len(A) + 1) PROVE B[i] = IF i <= Len(A) THEN A[i] ELSE Blank
    <3>1. CASE i <= Len(A)
      BY <1>2, <2>1, <3>1
    <3>2. CASE i = Len(A) + 1
      BY <1>2, <2>1, <3>2
    <3>3. i <= Len(A) \/ i = Len(A) + 1
      OBVIOUS
    <3> QED BY <3>1, <3>2, <3>3
  <2> QED BY <1>2, <2>1, <2>2
<1> HIDE DEF B
<1>4. /\ B \o C \in Seq(Part) /\ Len(B \o C) = Len(B) + Len(C)
      /\ \A i \in 1..(Len(B) + Len(C)) : (B \o C)[i] = IF i <= Len(B) THEN B[i] ELSE C[i - Len(B)]
  BY <1>3, ConcatProperties
<1> DEFINE D == B \o C
<1> HIDE DEF D
<1>5. /\ D \in Seq(Part) /\ Len(D) = Len(A) + 1 + Len(C)
      /\ \A i \in 1..(Len(A) + 1 + Len(C)) :
              D[i] = IF i <= Len(A) THEN A[i] ELSE IF i = Len(A) + 1 THEN Blank ELSE C[i - (Len(A) + 1)]
  BY <1>3, <1>4 DEF D
<1> QED BY <1>5 DEF D, B

LEMMA WordsArePart == Word \subseteq Part /\ Blank \notin Word /\ Blank \in Part
<1>1. \A w \in Word : w \in Int
  BY SMT DEF Word
<1> QED BY <1>1, BlankAssumption, Zenon DEF Part

\* The parts before and behind the blank one are the words at the two ends of
\* the address, but for zeros that are blank there.
Ends(words, A, b, C, c) ==
  /\ A \in Seq(Part) /\ Len(A) = b - 1 /\ C \in Seq(Part) /\ Len(C) = c
  /\ \A i \in 1..(b - 1) : A[i] = words[i] \/ (A[i] = Blank /\ i = 1 /\ words[i] = 0)
  /\ \A i \in 1..c : C[i] = words[i + (8 - c)] \/ (C[i] = Blank /\ i = c /\ words[8] = 0)

\* Read again, every word outside the run is where it was; the b-th part of
\* b + c is blank.
ReadsAs(t, words, b, c) ==
  /\ Len(t.parts) = b + c /\ PartsOf(t) \in Seq(Part) /\ Len(PartsOf(t)) = b + c
  /\ \A i \in 1..(b - 1) : PartsOf(t)[i] = words[i]
  /\ PartsOf(t)[b] = Blank
  /\ \A i \in (b + 1)..(b + c) : PartsOf(t)[i] = words[i + (8 - (b + c))]

LEMMA PartsRead ==
  ASSUME NEW words \in Words, NEW b \in 2..8, NEW c \in 1..7, NEW A, NEW C, Ends(words, A, b, C, c),
         NEW t, t.parts = A \o <<Blank>> \o C
  PROVE  ReadsAs(t, words, b, c)
<1> DEFINE W == t.parts
           P == PartsOf(t)
           n == b + c
<1>0. \A i \in 1..8 : words[i] \in Word /\ words[i] # Blank
  BY WordsArePart DEF Words
<1>1. /\ W \in Seq(Part) /\ Len(W) = n
      /\ \A i \in 1..n : W[i] = IF i < b THEN A[i] ELSE IF i = b THEN Blank ELSE C[i - b]
  <2>1. /\ W \in Seq(Part) /\ Len(W) = Len(A) + 1 + Len(C)
        /\ \A i \in 1..(Len(A) + 1 + Len(C)) : W[i] = IF i <= Len(A) THEN A[i] ELSE IF i = Len(A) + 1 THEN Blank
                                                     ELSE C[i - (Len(A) + 1)]
    BY PartsAround DEF Ends
  <2>2. Len(A) + 1 + Len(C) = n /\ Len(A) + 1 = b /\ \A i \in 1..n : i <= Len(A) <=> i < b
    BY DEF Ends
  <2> HIDE DEF W, n
  <2> QED BY <2>1, <2>2
<1>2. P = [i \in 1..n |-> IF i \in {1, n} /\ W[i] = Blank THEN 0 ELSE W[i]]
  BY <1>1 DEF PartsOf
<1> HIDE DEF W, P
<1>3. ASSUME NEW i \in 1..(b - 1) PROVE P[i] = words[i]
  <2>1. W[i] = A[i] /\ i \in 1..n /\ i \in 1..8 /\ P[i] = IF i \in {1, n} /\ W[i] = Blank THEN 0 ELSE W[i]
    BY <1>1, <1>2
  <2> QED BY <1>0, <2>1 DEF Ends
<1>4. P[b] = Blank
  <2>1. b \in 1..n /\ b \notin {1, n}
    OBVIOUS
  <2> QED BY <1>1, <1>2, <2>1
<1>5. ASSUME NEW i \in (b + 1)..n PROVE P[i] = words[i + (8 - n)]
  <2>1. /\ i - b \in 1..c /\ i \in 1..n /\ ~(i < b) /\ i # b /\ i # 1 /\ (i = n <=> i - b = c)
        /\ (i - b) + (8 - c) = i + (8 - n) /\ i + (8 - n) \in 1..8 /\ (i = n => i + (8 - n) = 8)
    OBVIOUS
  <2>2. W[i] = C[i - b]
    BY <1>1, <2>1
  <2>3. P[i] = IF i = n /\ W[i] = Blank THEN 0 ELSE W[i]
    BY <1>2, <2>1
  <2>4. C[i - b] = words[i + (8 - n)] \/ (C[i - b] = Blank /\ i = n /\ words[8] = 0)
    BY <2>1 DEF Ends
  <2> QED BY <1>0, <2>1, <2>2, <2>3, <2>4
<1>6. P \in Seq(Part) /\ Len(P) = n
  <2>1. \A i \in 1..n : W[i] \in Part
    BY <1>1
  <2>2. 0 \in Part /\ n \in Nat
    BY DEF Part
  <2> DEFINE read(i) == IF i \in {1, n} /\ W[i] = Blank THEN 0 ELSE W[i]
  <2>3. \A i \in 1..n : read(i) \in Part
    BY <2>1, <2>2, Zenon
  <2>4. P = [i \in 1..n |-> read(i)]
    BY <1>2
  <2> HIDE DEF Part, n, read
  <2> QED BY <2>2, <2>3, <2>4
<1> QED BY <1>1, <1>3, <1>4, <1>5, <1>6 DEF P, W, ReadsAs

LEMMA ReadAgain ==
  ASSUME NEW words \in Words, NEW s \in 1..8, NEW e \in 1..8, Run(words, s, e),
         NEW b \in 2..8, b = (IF s = 1 THEN 2 ELSE s), NEW c \in 1..7, c = (IF e = 8 THEN 1 ELSE 8 - e),
         NEW t, t.parts = Written(words, s, e)
  PROVE  ReadsAs(t, words, b, c)
<1> DEFINE A == IF s = 1 THEN <<Blank>> ELSE SubSeq(words, 1, s - 1)
           C == IF e = 8 THEN <<Blank>> ELSE SubSeq(words, e + 1, 8)
<1>0. \A i \in 1..8 : words[i] \in Part
  BY WordsArePart DEF Words
<1>1. /\ A \in Seq(Part) /\ Len(A) = b - 1
      /\ \A i \in 1..(b - 1) : A[i] = words[i] \/ (A[i] = Blank /\ i = 1 /\ words[i] = 0)
  <2>1. CASE s = 1
    <3>1. A = <<Blank>> /\ b = 2 /\ words[1] = 0
      BY <2>1 DEF Run
    <3> HIDE DEF A, Part
    <3> QED BY <3>1, WordsArePart
  <2>2. CASE s # 1
    <3>1. \A i \in 1..(s - 1) : words[i] \in Part
      BY <1>0
    <3>2. /\ SubSeq(words, 1, s - 1) \in Seq(Part)
          /\ Len(SubSeq(words, 1, s - 1)) = (IF 1 <= s - 1 THEN (s - 1) - 1 + 1 ELSE 0)
          /\ \A i \in 1..((s - 1) - 1 + 1) : SubSeq(words, 1, s - 1)[i] = words[1 + i - 1]
      BY <3>1, SubSeqProperties
    <3>3. A = SubSeq(words, 1, s - 1) /\ b = s
      BY <2>2
    <3> HIDE DEF A, Part
    <3> QED BY <2>2, <3>2, <3>3
  <2> QED BY <2>1, <2>2
<1>2. /\ C \in Seq(Part) /\ Len(C) = c
      /\ \A i \in 1..c : C[i] = words[i + (8 - c)] \/ (C[i] = Blank /\ i = c /\ words[8] = 0)
  <2>1. CASE e = 8
    <3>1. C = <<Blank>> /\ c = 1 /\ words[8] = 0
      BY <2>1 DEF Run
    <3> HIDE DEF C, Part
    <3> QED BY <3>1, WordsArePart
  <2>2. CASE e # 8
    <3>1. \A i \in (e + 1)..8 : words[i] \in Part
      BY <1>0
    <3>2. /\ SubSeq(words, e + 1, 8) \in Seq(Part)
          /\ Len(SubSeq(words, e + 1, 8)) = (IF e + 1 <= 8 THEN 8 - (e + 1) + 1 ELSE 0)
          /\ \A i \in 1..(8 - (e + 1) + 1) : SubSeq(words, e + 1, 8)[i] = words[(e + 1) + i - 1]
      BY <3>1, SubSeqProperties
    <3>3. C = SubSeq(words, e + 1, 8) /\ c = 8 - e
      BY <2>2
    <3> HIDE DEF C, Part
    <3>4. Len(C) = c
      BY <2>2, <3>2, <3>3
    <3>5. ASSUME NEW i \in 1..c PROVE C[i] = words[i + (8 - c)]
      <4>1. i \in 1..(8 - (e + 1) + 1) /\ (e + 1) + i - 1 = i + (8 - c)
        BY <3>3
      <4> QED BY <3>2, <3>3, <4>1
    <3> QED BY <3>2, <3>3, <3>4, <3>5
  <2> QED BY <2>1, <2>2
<1>3. t.parts = A \o <<Blank>> \o C
  BY DEF Written
<1> HIDE DEF A, C
<1>4. Ends(words, A, b, C, c)
  BY <1>1, <1>2, Zenon DEF Ends
<1> QED BY <1>3, <1>4, PartsRead, Zenon

LEMMA WrittenReadsBack ==
  ASSUME NEW words \in Words, NEW s \in 1..8, NEW e \in 1..8, Run(words, s, e),
         NEW t, t.parts = Written(words, s, e), t.sep = ":"
  PROVE  setAddress6(t) = IF LoneEdgeZero(words) THEN Rejected ELSE words
<1> DEFINE b == IF s = 1 THEN 2 ELSE s
           c == IF e = 8 THEN 1 ELSE 8 - e
           n == Len(t.parts)
           P == PartsOf(t)
           empty == {i \in 1..n : P[i] = Blank}
<1>1. /\ b \in 2..8 /\ c \in 1..7 /\ b + c \in 3..9
      /\ b + c = 9 <=> (s = 1 /\ e = 1) \/ (s = 8 /\ e = 8)
  BY DEF Run
<1>2. /\ b >= s /\ 8 - c <= e
  BY <1>1
<1>3. ReadsAs(t, words, b, c)
  <2>1. b = (IF s = 1 THEN 2 ELSE s) /\ c = (IF e = 8 THEN 1 ELSE 8 - e)
    OBVIOUS
  <2> HIDE DEF b, c
  <2> QED BY <1>1, <2>1, ReadAgain, Zenon
<1> HIDE DEF b, c
<1>4. LoneEdgeZero(words) <=> b + c = 9
  <2>1. ASSUME s = 1 /\ e = 1 PROVE LoneEdgeZero(words)
    BY <2>1 DEF Run, LoneEdgeZero
  <2>2. ASSUME s = 8 /\ e = 8 PROVE LoneEdgeZero(words)
    BY <2>2 DEF Run, LoneEdgeZero
  <2>3. ASSUME words[1] = 0 /\ words[2] # 0 PROVE s = 1 /\ e = 1
    BY <2>3 DEF Run
  <2>4. ASSUME words[8] = 0 /\ \A i \in 1..7 : words[i] # 0 PROVE s = 8 /\ e = 8
    BY <2>4 DEF Run
  <2> QED BY <1>1, <2>1, <2>2, <2>3, <2>4, Zenon DEF LoneEdgeZero
<1>5. n = b + c
  BY <1>3 DEF ReadsAs
<1>6. CASE b + c = 9
  <2>1. n \notin 3..8
    BY <1>5, <1>6
  <2>2. Refuses(t)
    BY <2>1, Zenon DEF Refuses
  <2> QED BY <1>4, <1>6, <2>2, setAddress6Cases, Zenon
<1>7. CASE b + c # 9
  <2>0. \A i \in 1..8 : words[i] \in Word /\ words[i] # Blank
    BY WordsArePart DEF Words
  <2>1. n \in 3..8 /\ b \in 1..n
    BY <1>1, <1>5, <1>7
  <2>2. \A i \in 1..n : i # b => P[i] \in Word /\ P[i] # Blank
    <3> SUFFICES ASSUME NEW i \in 1..n, i # b PROVE P[i] \in Word /\ P[i] # Blank
      OBVIOUS
    <3>1. CASE i < b
      <4>1. i \in 1..(b - 1) /\ i \in 1..8
        BY <1>1, <3>1
      <4> QED BY <1>3, <2>0, <4>1 DEF ReadsAs
    <3>2. CASE i > b
      <4>1. i \in (b + 1)..(b + c) /\ i + (8 - (b + c)) \in 1..8
        BY <1>1, <1>5, <2>1, <3>2
      <4> QED BY <1>3, <2>0, <4>1 DEF ReadsAs
    <3> QED BY <1>1, <3>1, <3>2
  <2>3. P[b] = Blank
    BY <1>3 DEF ReadsAs
  <2>4. empty = {b}
    BY <2>1, <2>2, <2>3, Zenon
  <2>5. ~Refuses(t)
    <3>1. ~(n \notin 3..8) /\ t.sep # "."
      BY <2>1
    <3>2. ~(\E i, j \in empty : i # j) /\ ~(empty = {} /\ n < 8)
      BY <2>4, Zenon
    <3>3. ~(\E i \in (1..n) \ empty : P[i] \notin Word)
      BY <2>2, <2>4, Zenon
    <3> QED BY <3>1, <3>2, <3>3, Zenon DEF Refuses
  <2>6. \E i \in empty : setAddress6(t) = FilledUp(P, n, i)
    BY <2>4, <2>5, setAddress6Cases, Zenon
  <2>7. setAddress6(t) = FilledUp(P, n, b)
    BY <2>4, <2>6, Zenon
  <2> DEFINE F == FilledUp(P, n, b)
  <2>8. /\ F \in Words
        /\ \A i \in 1..8 : F[i] = IF i < b THEN P[i] ELSE IF i <= b + 8 - n THEN 0 ELSE P[i - (8 - n)]
    <3>1. P \in Seq(Part) /\ Len(P) = n
      BY <1>3, <1>5 DEF ReadsAs
    <3>2. \A i \in (1..n) \ {b} : P[i] \in Word
      BY <2>2, Zenon
    <3> HIDE DEF P, n
    <3> QED BY <2>1, <3>1, <3>2, Filled
  <2> HIDE DEF F, P, n
  <2>9. ASSUME NEW i \in 1..8 PROVE F[i] = words[i]
    <3>1. CASE i < b
      <4>1. i \in 1..(b - 1) /\ F[i] = P[i]
        BY <1>1, <2>8, <3>1
      <4> QED BY <1>3, <4>1 DEF ReadsAs, P
    <3>2. CASE i >= b /\ i <= b + 8 - n
      <4>1. i \in s..e /\ F[i] = 0
        BY <1>1, <1>2, <1>5, <2>8, <3>2
      <4> QED BY <4>1 DEF Run
    <3>3. CASE i > b + 8 - n
      <4>1. /\ i - (8 - n) \in (b + 1)..(b + c) /\ (i - (8 - n)) + (8 - (b + c)) = i
            /\ F[i] = P[i - (8 - n)]
        BY <1>1, <1>5, <2>1, <2>8, <3>3
      <4>2. P[i - (8 - n)] = words[(i - (8 - n)) + (8 - (b + c))]
        BY <1>3, <4>1 DEF ReadsAs, P
      <4> QED BY <4>1, <4>2
    <3> QED BY <1>1, <2>1, <3>1, <3>2, <3>3
  <2>10. F = words
    BY <2>8, <2>9 DEF Words
  <2> QED BY <1>4, <1>7, <2>7, <2>10 DEF F, P, n
<1> QED BY <1>6, <1>7

LEMMA AddressReadBack ==
  ASSUME NEW words \in Words
  PROVE  setAddress6([sep |-> ":", parts |-> getAddress6(words), mask |-> NoMask])
           = IF LoneEdgeZero(words) THEN Rejected ELSE words
<1> DEFINE t == [sep |-> ":", parts |-> getAddress6(words), mask |-> NoMask]
<1>1. t.parts = getAddress6(words) /\ t.sep = ":"
  OBVIOUS
<1> HIDE DEF t
<1>2. CASE \E z \in 1..8 : words[z] = 0
  <2>1. \E s, e \in 1..8 : Run(words, s, e) /\ getAddress6(words) = Written(words, s, e)
    BY <1>2, RunWritten
  <2> QED BY <1>1, <2>1, WrittenReadsBack, Zenon DEF t
<1>3. CASE \A z \in 1..8 : words[z] # 0
  <2>1. words \in [1..8 -> Word] /\ Len(words) = 8
    <3>1. words \in [1..8 -> Word]
      BY DEF Words
    <3>2. words = [i \in 1..8 |-> words[i]]
      BY <3>1
    <3>3. Len(words) = 8
      BY <3>2
    <3> QED BY <3>1, <3>3
  <2>2. 0 \notin ToSet(words)
    BY <1>3, <2>1 DEF ToSet
  <2>3. t.parts = words
    BY <1>1, <2>2, Zenon DEF getAddress6
  <2>4. \A i \in 1..8 : words[i] \in Word /\ words[i] # Blank
    BY <2>1, WordsArePart
  <2>5. PartsOf(t) = words
    <3>1. PartsOf(t) = [i \in 1..8 |-> words[i]]
      BY <2>1, <2>3, <2>4 DEF PartsOf
    <3> QED BY <2>1, <3>1
  <2>6. ~Refuses(t) /\ {i \in 1..Len(t.parts) : PartsOf(t)[i] = Blank} = {}
    <3>1. {i \in 1..Len(t.parts) : PartsOf(t)[i] = Blank} = {}
      BY <2>1, <2>3, <2>4, <2>5, Zenon
    <3>2. Len(t.parts) \in 3..8 /\ ~(Len(t.parts) < 8) /\ t.sep # "."
      <4>1. Len(t.parts) = 8
        BY <2>1, <2>3, Zenon
      <4> QED BY <1>1, <4>1
    <3>3. \A i \in 1..Len(t.parts) : PartsOf(t)[i] \in Word
      BY <2>1, <2>3, <2>4, <2>5, Zenon
    <3> QED BY <3>1, <3>2, <3>3, Zenon DEF Refuses
  <2>7. setAddress6(t) = words
    BY <2>5, <2>6, setAddress6Cases, Zenon
  <2>8. ~LoneEdgeZero(words)
    BY <1>3 DEF LoneEdgeZero
  <2> QED BY <2>7, <2>8 DEF t
<1> QED BY <1>2, <1>3

\* IPv6Param::setAddress reads what getAddress wrote as the same address, but
\* for an address whose first run of zeros is its first or its last word
\* alone, whose text it refuses.
THEOREM ValueParamsAddressReadsBack == Spec => []AddressReadsBack
<1>1. V6Ok => AddressReadsBack
  <2> SUFFICES ASSUME V6Ok, kind = "v6" PROVE AddressReadsBack
    BY DEF AddressReadsBack
  <2>1. val.address \in Words
    BY DEF V6Ok, IPv6, Words
  <2> QED BY <2>1, AddressReadBack, Zenon DEF AddressReadsBack
<1>2. Init => V6Ok
  BY AddressesInit
<1> QED BY <1>1, <1>2, V6Next, PTL DEF Spec

-----------------------------------------------------------------------------
(* The automaton of PortParam, and what the documented grammar denotes.     *)

Character == Digit \union {Bang, Colon, Other}

Reader == [state : 0..4, notSign : BOOLEAN, from : Int, to : Int, setZero : BOOLEAN]

LEMMA Characters ==
  /\ Bang \notin Digit /\ Colon \notin Digit /\ Bang # Colon
  /\ \A c \in Digit : c \in Nat /\ c <= MAX_PORT /\ c # Bang /\ c # Colon
<1>1. Bang \notin Digit /\ Colon \notin Digit /\ Bang # Colon
  BY CharactersAssumption, Zenon
<1>2. \A c \in Digit : c \in Nat /\ c <= MAX_PORT
  BY SMT DEF Digit, MAX_PORT
<1> QED BY <1>1, <1>2, Zenon

At(state, notSign, from, to, setZero) ==
  [state |-> state, notSign |-> notSign, from |-> from, to |-> to, setZero |-> setZero]

LEMMA ReaderForms ==
  ASSUME NEW s \in Reader, NEW v \in 0..4, NEW n \in Int, NEW b \in BOOLEAN
  PROVE  /\ [s EXCEPT !.state = v] = At(v, s.notSign, s.from, s.to, s.setZero)
         /\ [s EXCEPT !.state = v, !.notSign = b] = At(v, b, s.from, s.to, s.setZero)
         /\ [s EXCEPT !.state = v, !.from = n] = At(v, s.notSign, n, s.to, s.setZero)
         /\ [s EXCEPT !.state = v, !.to = n] = At(v, s.notSign, s.from, n, s.setZero)
         /\ [s EXCEPT !.to = n, !.setZero = b] = At(s.state, s.notSign, s.from, n, b)
<1>1. s = At(s.state, s.notSign, s.from, s.to, s.setZero)
  BY DEF Reader, At
<1> DEFINE t == [s EXCEPT !.state = v]
           u == [s EXCEPT !.to = n]
<1>2. t = At(v, s.notSign, s.from, s.to, s.setZero) /\ u = At(s.state, s.notSign, s.from, n, s.setZero)
  BY <1>1 DEF At
<1> HIDE DEF t, u
<1>3. /\ [t EXCEPT !.notSign = b] = At(v, b, s.from, s.to, s.setZero)
      /\ [t EXCEPT !.from = n] = At(v, s.notSign, n, s.to, s.setZero)
      /\ [t EXCEPT !.to = n] = At(v, s.notSign, s.from, n, s.setZero)
      /\ [u EXCEPT !.setZero = b] = At(s.state, s.notSign, s.from, n, b)
  BY <1>2 DEF At
<1> QED BY <1>2, <1>3, Zenon DEF t, u

LEMMA AppendsDigit ==
  ASSUME NEW n \in Int, NEW d \in Digit
  PROVE  (n * 10) + d \in Int
BY SMT DEF Digit

\* What a character does in each state.
LEMMA ReadCases ==
  ASSUME NEW s \in Reader, NEW c \in Character
  PROVE  /\ s.state = 0 /\ c = Bang => Read(s, c) = At(1, TRUE, s.from, s.to, s.setZero)
         /\ s.state \in 0..1 /\ c = Colon => Read(s, c) = At(3, s.notSign, s.from, s.to, s.setZero)
         /\ s.state \in 0..2 /\ c \in Digit => Read(s, c) = At(2, s.notSign, (s.from * 10) + c, s.to, s.setZero)
         /\ s.state = 2 /\ c = Colon => Read(s, c) = At(3, s.notSign, s.from, MAX_PORT, s.setZero)
         /\ s.state = 3 /\ c \in Digit =>
              Read(s, c) = At(3, s.notSign, s.from, ((IF s.setZero THEN MIN_PORT ELSE s.to) * 10) + c, FALSE)
         /\ \/ s.state = 4 \/ (c \notin Digit /\ s.state = 3)
            \/ c \notin Digit /\ c # Colon /\ (c # Bang \/ s.state # 0)
            => Read(s, c) = At(4, s.notSign, s.from, s.to, s.setZero)
<1> DEFINE a1 == s.state = 0 /\ c = Bang
           a2 == s.state \in 0..1 /\ c = Colon
           a3 == s.state \in 0..2 /\ c \in Digit
           a4 == s.state = 2 /\ c = Colon
           a5 == s.state = 3 /\ c \in Digit
           to == (IF s.setZero THEN MIN_PORT ELSE s.to) * 10 + c
<1>0. Read(s, c) = CASE a1 -> [s EXCEPT !.state = 1, !.notSign = TRUE]
                     [] a2 -> [s EXCEPT !.state = 3]
                     [] a3 -> AddFrom(s, c)
                     [] a4 -> [s EXCEPT !.state = 3, !.to = MAX_PORT]
                     [] a5 -> [s EXCEPT !.to = (IF s.setZero THEN MIN_PORT ELSE @) * 10 + c, !.setZero = FALSE]
                     [] OTHER -> Fail(s)
  BY Zenon DEF Read
<1>1. /\ a1 => ~a2 /\ ~a3 /\ ~a4 /\ ~a5
      /\ a2 => ~a1 /\ ~a3 /\ ~a4 /\ ~a5
      /\ a3 => ~a1 /\ ~a2 /\ ~a4 /\ ~a5
      /\ a4 => ~a1 /\ ~a2 /\ ~a3 /\ ~a5
      /\ a5 => ~a1 /\ ~a2 /\ ~a3 /\ ~a4
  BY Characters
<1>2. \/ s.state = 4 \/ (c \notin Digit /\ s.state = 3)
      \/ c \notin Digit /\ c # Colon /\ (c # Bang \/ s.state # 0)
      => ~a1 /\ ~a2 /\ ~a3 /\ ~a4 /\ ~a5
  BY Characters
<1>3. /\ s.from \in Int /\ (IF s.setZero THEN MIN_PORT ELSE s.to) \in Int /\ MAX_PORT \in Int
      /\ s.state = 3 \/ ~a5
  BY DEF Reader, MIN_PORT, MAX_PORT
<1>4. /\ [s EXCEPT !.state = 1, !.notSign = TRUE] = At(1, TRUE, s.from, s.to, s.setZero)
      /\ [s EXCEPT !.state = 3] = At(3, s.notSign, s.from, s.to, s.setZero)
      /\ [s EXCEPT !.state = 3, !.to = MAX_PORT] = At(3, s.notSign, s.from, MAX_PORT, s.setZero)
      /\ Fail(s) = At(4, s.notSign, s.from, s.to, s.setZero)
  <2>1. 1 \in 0..4 /\ 3 \in 0..4 /\ 4 \in 0..4 /\ TRUE \in BOOLEAN
    OBVIOUS
  <2> QED BY <1>3, <2>1, ReaderForms, Zenon DEF Fail
<1>5. c \in Digit => AddFrom(s, c) = At(2, s.notSign, (s.from * 10) + c, s.to, s.setZero)
  <2>1. 2 \in 0..4
    OBVIOUS
  <2>2. c \in Digit => (s.from * 10) + c \in Int
    BY <1>3, AppendsDigit
  <2> QED BY <2>1, <2>2, ReaderForms, ZenonT(30) DEF AddFrom
<1>6. s.state = 3 /\ c \in Digit => [s EXCEPT !.to = to, !.setZero = FALSE] = At(3, s.notSign, s.from, to, FALSE)
  <2>1. c \in Digit => to \in Int
    BY <1>3, AppendsDigit, Zenon
  <2>2. FALSE \in BOOLEAN
    OBVIOUS
  <2> HIDE DEF to
  <2>3. c \in Digit => [s EXCEPT !.to = to, !.setZero = FALSE] = At(s.state, s.notSign, s.from, to, FALSE)
    <3>1. 0 \in 0..4
      OBVIOUS
    <3>2. \A m \in Int : [s EXCEPT !.to = m, !.setZero = FALSE] = At(s.state, s.notSign, s.from, m, FALSE)
      BY <2>2, <3>1, ReaderForms, Zenon
    <3> QED BY <2>1, <3>2, Zenon
  <2> QED BY <2>3, Zenon
<1> DEFINE next == Read(s, c)
<1>7. /\ a1 => next = [s EXCEPT !.state = 1, !.notSign = TRUE]
      /\ a2 => next = [s EXCEPT !.state = 3]
      /\ a3 => next = AddFrom(s, c)
      /\ a4 => next = [s EXCEPT !.state = 3, !.to = MAX_PORT]
      /\ a5 => next = [s EXCEPT !.to = to, !.setZero = FALSE]
      /\ ~a1 /\ ~a2 /\ ~a3 /\ ~a4 /\ ~a5 => next = Fail(s)
  <2> HIDE DEF a1, a2, a3, a4, a5, next
  <2> QED BY <1>0, <1>1 DEF next
<1> HIDE DEF next
<1> QED BY <1>2, <1>4, <1>5, <1>6, <1>7, Zenon DEF next

LEMMA AtTypes ==
  ASSUME NEW v \in 0..4, NEW b \in BOOLEAN, NEW m \in Int, NEW n \in Int, NEW z \in BOOLEAN
  PROVE  At(v, b, m, n, z) \in Reader
BY DEF At, Reader

LEMMA ReadKeeps ==
  ASSUME NEW s \in Reader, NEW c \in Character
  PROVE  Read(s, c) \in Reader
<1>1. /\ s.state \in 0..4 /\ s.notSign \in BOOLEAN /\ s.from \in Int /\ s.to \in Int /\ s.setZero \in BOOLEAN
      /\ (IF s.setZero THEN MIN_PORT ELSE s.to) \in Int /\ MAX_PORT \in Int
  BY DEF Reader, MIN_PORT, MAX_PORT
<1>2. c \in Digit => /\ (s.from * 10) + c \in Int
                     /\ ((IF s.setZero THEN MIN_PORT ELSE s.to) * 10) + c \in Int
  BY <1>1, AppendsDigit, Zenon
<1>3. 1 \in 0..4 /\ 2 \in 0..4 /\ 3 \in 0..4 /\ 4 \in 0..4 /\ TRUE \in BOOLEAN /\ FALSE \in BOOLEAN
  OBVIOUS
<1>4. \/ s.state = 0 /\ c = Bang
      \/ s.state \in 0..1 /\ c = Colon
      \/ s.state \in 0..2 /\ c \in Digit
      \/ s.state = 2 /\ c = Colon
      \/ s.state = 3 /\ c \in Digit
      \/ s.state = 4 \/ (c \notin Digit /\ s.state = 3)
      \/ c \notin Digit /\ c # Colon /\ (c # Bang \/ s.state # 0)
  BY <1>1
<1>5. CASE s.state = 0 /\ c = Bang
  <2>1. Read(s, c) = At(1, TRUE, s.from, s.to, s.setZero)
    BY <1>5, ReadCases, Zenon
  <2> QED BY <1>1, <1>3, <2>1, AtTypes, ZenonT(30)
<1>6. CASE s.state \in 0..1 /\ c = Colon
  <2>1. Read(s, c) = At(3, s.notSign, s.from, s.to, s.setZero)
    BY <1>6, ReadCases, Zenon
  <2> QED BY <1>1, <1>2, <1>3, <1>6, <2>1, AtTypes
<1>7. CASE s.state \in 0..2 /\ c \in Digit
  <2>1. Read(s, c) = At(2, s.notSign, (s.from * 10) + c, s.to, s.setZero)
    BY <1>7, ReadCases, Zenon
  <2> QED BY <1>1, <1>2, <1>3, <1>7, <2>1, AtTypes
<1>8. CASE s.state = 2 /\ c = Colon
  <2>1. Read(s, c) = At(3, s.notSign, s.from, MAX_PORT, s.setZero)
    BY <1>8, ReadCases, Zenon
  <2> QED BY <1>1, <1>2, <1>3, <1>8, <2>1, AtTypes
<1>9. CASE s.state = 3 /\ c \in Digit
  <2>1. Read(s, c) = At(3, s.notSign, s.from, ((IF s.setZero THEN MIN_PORT ELSE s.to) * 10) + c, FALSE)
    BY <1>9, ReadCases, Zenon
  <2>2. ((IF s.setZero THEN MIN_PORT ELSE s.to) * 10) + c \in Int
    BY <1>2, <1>9, Zenon
  <2> DEFINE to == ((IF s.setZero THEN MIN_PORT ELSE s.to) * 10) + c
  <2>3. Read(s, c) = At(3, s.notSign, s.from, to, FALSE) /\ to \in Int
    BY <2>1, <2>2, Zenon
  <2> HIDE DEF to
  <2> QED BY <1>1, <1>3, <2>3, AtTypes, ZenonT(30)
<1>10. CASE \/ s.state = 4 \/ (c \notin Digit /\ s.state = 3)
            \/ c \notin Digit /\ c # Colon /\ (c # Bang \/ s.state # 0)
  <2>1. Read(s, c) = At(4, s.notSign, s.from, s.to, s.setZero)
    BY <1>10, ReadCases, Zenon
  <2> QED BY <1>1, <1>2, <1>3, <1>10, <2>1, AtTypes
<1> QED BY <1>4, <1>5, <1>6, <1>7, <1>8, <1>9, <1>10, Zenon

\* The automaton after each of the characters.
IsRead(text, n, f) ==
  f \in [0..n -> Reader] /\ f[0] = Start /\ \A k \in 1..n : f[k] = Read(f[k - 1], text[k])

LEMMA ReadExists ==
  ASSUME NEW n \in Nat, NEW text, \A k \in 1..n : text[k] \in Character
  PROVE  \E f : IsRead(text, n, f)
<1> DEFINE step == [k \in 1..n |-> [s \in Reader |-> Read(s, text[k])]]
<1>1. step \in [1..n -> [Reader -> Reader]]
  BY ReadKeeps
<1>a. Start \in Reader
  BY DEF Start, Reader, MIN_PORT, INVALID_PORT
<1> HIDE DEF step
<1>2. PICK f : Iterates(f, Reader, Start, n, step)
  BY <1>1, <1>a, RecursionExists, Zenon
<1>3. ASSUME NEW k \in 1..n PROVE f[k] = Read(f[k - 1], text[k])
  <2>1. f[k - 1] \in Reader
    BY <1>2 DEF Iterates
  <2> QED BY <1>2, <2>1 DEF step, Iterates
<1> QED BY <1>2, <1>3 DEF Iterates, IsRead

\* The numbers that end with each of the characters.
IsNumber(text, i, n, f) ==
  /\ f \in [0..n -> Nat] /\ f[0] = 0
  /\ \A k \in 1..n : f[k] = IF k < i \/ text[k] \notin Digit THEN 0 ELSE (10 * f[k - 1]) + text[k]

LEMMA NumberExists ==
  ASSUME NEW n \in Nat, NEW text, NEW i \in Nat
  PROVE  \E f : IsNumber(text, i, n, f)
<1> DEFINE step == [k \in 1..n |-> [m \in Nat |-> IF k < i \/ text[k] \notin Digit THEN 0 ELSE (10 * m) + text[k]]]
<1>1. step \in [1..n -> [Nat -> Nat]]
  BY DEF Digit
<1>a. 0 \in Nat
  OBVIOUS
<1> HIDE DEF step
<1>2. PICK f : Iterates(f, Nat, 0, n, step)
  BY <1>1, <1>a, RecursionExists, Zenon
<1>3. ASSUME NEW k \in 1..n PROVE f[k] = IF k < i \/ text[k] \notin Digit THEN 0 ELSE (10 * f[k - 1]) + text[k]
  <2>1. f[k - 1] \in Nat
    BY <1>2 DEF Iterates
  <2> QED BY <1>2, <2>1 DEF step, Iterates
<1> QED BY <1>2, <1>3 DEF Iterates, IsNumber

LEMMA ReadingUnfolds ==
  ASSUME NEW text \in Seq(Character)
  PROVE  \E f : IsRead(text, Len(text), f) /\ Reading(text) = f[Len(text)]
<1> DEFINE n == Len(text)
           Def(f) == f = [k \in 0..Len(text) |-> IF k = 0 THEN Start ELSE Read(f[k - 1], text[k])]
           f == CHOOSE f : Def(f)
<1>1. n \in Nat /\ \A k \in 1..n : text[k] \in Character
  OBVIOUS
<1>2. Start \in Reader
  BY DEF Start, Reader, MIN_PORT, INVALID_PORT
<1>3. \E g : IsRead(text, Len(text), g)
  BY <1>1, ReadExists, Zenon
<1>4. PICK g : IsRead(text, Len(text), g)
  BY <1>3
<1>5. Def(g)
  <2>1. \A k \in 0..n : g[k] = IF k = 0 THEN Start ELSE Read(g[k - 1], text[k])
    BY <1>1, <1>4 DEF IsRead
  <2> QED BY <1>4, <2>1 DEF IsRead
<1>6. f = CHOOSE h : Def(h)
  OBVIOUS
<1>7. Reading(text) = f[n]
  BY Zenon DEF Reading
<1> HIDE DEF f
<1>8. Def(f)
  <2> HIDE DEF Def
  <2> QED BY <1>5, <1>6
<1>9. f[0] = Start /\ \A k \in 1..n : f[k] = Read(f[k - 1], text[k])
  BY <1>1, <1>8
<1>10. \A k \in 0..n : f[k] \in Reader
  <2> DEFINE T == {k \in Nat : k <= n => f[k] \in Reader}
  <2>1. 0 \in T
    BY <1>2, <1>9
  <2>2. ASSUME NEW k \in Nat, k \in T PROVE k + 1 \in T
    <3> SUFFICES ASSUME k + 1 <= n PROVE f[k + 1] \in Reader
      OBVIOUS
    <3>1. k + 1 \in 1..n /\ (k + 1) - 1 = k /\ f[k] \in Reader
      BY <1>1, <2>2
    <3>2. f[k + 1] = Read(f[k], text[k + 1])
      BY <1>9, <3>1
    <3> QED BY <1>1, <3>1, <3>2, ReadKeeps
  <2> HIDE DEF T
  <2>3. Nat \subseteq T
    BY <2>1, <2>2, NaturalsFrom0
  <2> QED BY <1>1, <2>3 DEF T
<1>11. IsRead(text, Len(text), f)
  BY <1>8, <1>9, <1>10 DEF IsRead
<1> QED BY <1>7, <1>11

\* The number the digits from the i-th character on write.
LEMMA NumberUnfolds ==
  ASSUME NEW text \in Seq(Character), NEW i \in Nat, i >= 1
  PROVE  /\ \A j \in 0..Len(text) : Number(text, i, j) \in Nat
         /\ \A j \in 0..Len(text) : j < i => Number(text, i, j) = 0
         /\ \A j \in 1..Len(text) : j >= i /\ text[j] \in Digit =>
              Number(text, i, j) = (10 * Number(text, i, j - 1)) + text[j]
<1> DEFINE n == Len(text)
           Def(f) == f = [k \in 0..Len(text) |-> IF k < i \/ text[k] \notin Digit THEN 0 ELSE (10 * f[k - 1]) + text[k]]
           f == CHOOSE f : Def(f)
<1>1. n \in Nat
  OBVIOUS
<1>2. ASSUME NEW m \in Nat, NEW d \in Digit PROVE (10 * m) + d \in Nat
  BY DEF Digit
<1>3. \E g : Def(g)
  <2>1. PICK g : IsNumber(text, i, n, g)
    BY <1>1, NumberExists, Zenon
  <2>2. \A k \in 0..n : g[k] = IF k < i \/ text[k] \notin Digit THEN 0 ELSE (10 * g[k - 1]) + text[k]
    BY <1>1, <2>1 DEF IsNumber
  <2>3. Def(g)
    BY <2>1, <2>2 DEF IsNumber
  <2> HIDE DEF Def
  <2> QED BY <2>3
<1>4. \A j : Number(text, i, j) = f[j]
  BY Zenon DEF Number
<1>5. f = CHOOSE h : Def(h)
  OBVIOUS
<1> HIDE DEF f
<1>6. Def(f)
  <2> HIDE DEF Def
  <2> QED BY <1>3, <1>5
<1>7. \A k \in 0..n : f[k] = IF k < i \/ text[k] \notin Digit THEN 0 ELSE (10 * f[k - 1]) + text[k]
  BY <1>6
<1>8. \A k \in 0..n : f[k] \in Nat
  <2> DEFINE T == {k \in Nat : k <= n => f[k] \in Nat}
  <2>1. 0 \in T
    BY <1>1, <1>7
  <2>2. ASSUME NEW k \in Nat, k \in T PROVE k + 1 \in T
    <3> SUFFICES ASSUME k + 1 <= n PROVE f[k + 1] \in Nat
      OBVIOUS
    <3>1. k + 1 \in 0..n /\ (k + 1) - 1 = k /\ f[k] \in Nat
      BY <1>1, <2>2
    <3> QED BY <1>2, <1>7, <3>1
  <2> HIDE DEF T
  <2>3. Nat \subseteq T
    BY <2>1, <2>2, NaturalsFrom0
  <2> QED BY <1>1, <2>3 DEF T
<1>9. \A j \in 1..n : j \in 0..n
  BY <1>1
<1>10. \A j \in 1..n : j >= i /\ text[j] \in Digit => f[j] = (10 * f[j - 1]) + text[j]
  BY <1>1, <1>7
<1>11. \A j \in 0..n : j < i => f[j] = 0
  BY <1>7
<1>12. \A j \in 0..n : Number(text, i, j) \in Nat
  BY <1>4, <1>8, Zenon
<1>13. \A j \in 0..n : j < i => Number(text, i, j) = 0
  BY <1>4, <1>11, Zenon
<1>14. \A j \in 1..n : j >= i /\ text[j] \in Digit => Number(text, i, j) = (10 * Number(text, i, j - 1)) + text[j]
  BY <1>4, <1>10, Zenon
<1> QED BY <1>12, <1>13, <1>14, Zenon

-----------------------------------------------------------------------------
(* The automaton reads the documented grammar.                              *)

\* Where the numbers begin, behind the "!".
Begin(text) == IF text # <<>> /\ Head(text) = Bang THEN 2 ELSE 1

\* A colon between digits, or beside none.
Split(text, c, k) == text[c] = Colon /\ Digits(text, Begin(text), c - 1) /\ Digits(text, c + 1, k)

\* What the automaton knows of the first k characters.
Scanned(text, k, s) ==
  /\ s \in Reader
  /\ s.notSign <=> k >= 1 /\ text[1] = Bang
  /\ \/ s.state = 0 /\ k = 0
     \/ s.state = 1 /\ k = 1 /\ text[1] = Bang
     \/ s.state = 2 /\ k >= Begin(text) /\ Digits(text, Begin(text), k)
     \/ s.state = 3 /\ \E c \in Begin(text)..k : Split(text, c, k)
     \/ s.state = 4 /\ k >= Begin(text) /\ ~Digits(text, Begin(text), k)
                    /\ \A c \in Begin(text)..k : ~Split(text, c, k)
  /\ s.state \in 0..2 => s.setZero /\ s.to = INVALID_PORT /\ s.from = Number(text, Begin(text), k)
  /\ s.state = 3 =>
       \A c \in Begin(text)..k : Split(text, c, k) =>
         /\ s.from = Number(text, Begin(text), c - 1)
         /\ c = k => s.setZero /\ s.to = IF c = Begin(text) THEN INVALID_PORT ELSE MAX_PORT
         /\ c < k => ~s.setZero /\ s.to = Number(text, c + 1, k)

LEMMA BeginIs ==
  ASSUME NEW text \in Seq(Character)
  PROVE  /\ Begin(text) \in 1..2
         /\ Len(text) >= 1 => (Begin(text) = 2 <=> text[1] = Bang)
         /\ Len(text) = 0 => Begin(text) = 1
<1>1. Len(text) \in Nat /\ (text # <<>> <=> Len(text) >= 1)
  <2>1. Len(text) \in Nat
    OBVIOUS
  <2>2. text = <<>> <=> Len(text) = 0
    BY EmptySeq
  <2> QED BY <2>1, <2>2
<1>2. Len(text) >= 1 => Head(text) = text[1]
  BY <1>1
<1> QED BY <1>1, <1>2 DEF Begin

\* One character more.
LEMMA DigitsNext ==
  ASSUME NEW text, NEW b \in Nat, NEW k \in Nat, k + 1 >= b
  PROVE  Digits(text, b, k + 1) <=> Digits(text, b, k) /\ text[k + 1] \in Digit
<1>1. b..(k + 1) = (b..k) \union {k + 1}
  OBVIOUS
<1> QED BY <1>1, Zenon DEF Digits

LEMMA SplitNext ==
  ASSUME NEW text, NEW k \in Nat
  PROVE  /\ \A c \in 1..k : Split(text, c, k + 1) <=> Split(text, c, k) /\ text[k + 1] \in Digit
         /\ Split(text, k + 1, k + 1) <=> text[k + 1] = Colon /\ Digits(text, Begin(text), k)
<1>1. ASSUME NEW c \in 1..k
      PROVE  Digits(text, c + 1, k + 1) <=> Digits(text, c + 1, k) /\ text[k + 1] \in Digit
  <2>1. c + 1 \in Nat /\ k + 1 >= c + 1
    OBVIOUS
  <2> QED BY <2>1, DigitsNext
<1>2. Digits(text, (k + 1) + 1, k + 1)
  BY DEF Digits
<1>3. (k + 1) - 1 = k
  OBVIOUS
<1> QED BY <1>1, <1>2, <1>3, Zenon DEF Split

LEMMA SplitOnce ==
  ASSUME NEW text, NEW k \in Nat, NEW c \in 1..k, NEW d \in 1..k,
         Begin(text) \in 1..2, c >= Begin(text), Split(text, c, k)
  PROVE  /\ Split(text, d, k) => c = d
         /\ text[d] = Colon /\ d >= Begin(text) => c = d
         /\ ~Digits(text, Begin(text), k)
<1>1. \A i \in Begin(text)..k : i # c => text[i] \in Digit
  BY DEF Split, Digits
<1>2. text[c] = Colon /\ Colon \notin Digit
  BY Characters DEF Split
<1>3. text[d] = Colon /\ d >= Begin(text) => c = d
  BY <1>1, <1>2
<1>4. Split(text, d, k) => c = d
  <2> SUFFICES ASSUME Split(text, d, k), c # d PROVE FALSE
    OBVIOUS
  <2>1. text[d] = Colon /\ Digits(text, d + 1, k)
    BY DEF Split
  <2>2. CASE d < c
    <3>1. c \in (d + 1)..k
      BY <2>2
    <3> QED BY <1>2, <2>1, <3>1 DEF Digits
  <2>3. CASE d > c
    <3>1. d >= Begin(text)
      BY <2>3
    <3> QED BY <1>3, <2>1, <3>1
  <2> QED BY <2>2, <2>3
<1>5. ~Digits(text, Begin(text), k)
  <2>1. c \in Begin(text)..k
    OBVIOUS
  <2> QED BY <1>2, <2>1 DEF Digits
<1> QED BY <1>3, <1>4, <1>5

\* The automaton fails where no text of the grammar goes on.
LEMMA ScanFails ==
  ASSUME NEW text \in Seq(Character), NEW k \in 0..(Len(text) - 1), NEW s \in Reader, NEW r \in Reader,
         r.state = 4, r.notSign = s.notSign, s.notSign <=> k >= 1 /\ text[1] = Bang,
         k >= 1 \/ text[1] # Bang, k + 1 >= Begin(text),
         ~Digits(text, Begin(text), k + 1), \A c \in Begin(text)..(k + 1) : ~Split(text, c, k + 1)
  PROVE  Scanned(text, k + 1, r)
<1>1. r.notSign <=> k + 1 >= 1 /\ text[1] = Bang
  OBVIOUS
<1> QED BY <1>1 DEF Scanned

\* Before any number: nothing, or the "!".
LEMMA ScanFirst ==
  ASSUME NEW text \in Seq(Character), NEW k \in 0..(Len(text) - 1), NEW s, Scanned(text, k, s),
         s.state \in 0..1
  PROVE  Scanned(text, k + 1, Read(s, text[k + 1]))
<1> DEFINE b == Begin(text)
           d == text[k + 1]
           r == Read(s, d)
<1>1. s \in Reader /\ d \in Character /\ r \in Reader
  <2>1. s \in Reader /\ d \in Character
    BY DEF Scanned
  <2> QED BY <2>1, ReadKeeps
<1>2. /\ k \in Nat /\ k + 1 \in Nat /\ b \in 1..2 /\ (b = 2 <=> text[1] = Bang) /\ k + 1 \in 1..Len(text)
      /\ k = 0 \/ (k = 1 /\ text[1] = Bang)
      /\ s.state = 0 <=> k = 0
  BY BeginIs DEF Scanned
<1>3. s.setZero /\ s.to = INVALID_PORT /\ s.from = Number(text, b, k) /\ (s.notSign <=> k >= 1 /\ text[1] = Bang)
  BY DEF Scanned
<1> HIDE DEF b, d, r
<1>4. CASE s.state = 0 /\ d = Bang
  <2>1. r = At(1, TRUE, s.from, s.to, s.setZero)
    BY <1>1, <1>4, ReadCases, Zenon DEF r
  <2>2. r.state = 1 /\ r.notSign /\ r.from = s.from /\ r.to = s.to /\ r.setZero
    BY <1>3, <2>1 DEF At
  <2>3. k = 0 /\ text[1] = Bang /\ b = 2
    BY <1>2, <1>4 DEF d
  <2>4. Number(text, b, 0) = 0 /\ Number(text, b, 1) = 0
    BY <1>2, <2>3, NumberUnfolds
  <2> QED BY <1>1, <1>3, <2>2, <2>3, <2>4 DEF Scanned, b, d, r
<1>5. CASE ~(s.state = 0 /\ d = Bang)
  <2>1. k + 1 = b /\ (k >= 1 \/ text[1] # Bang)
    BY <1>2, <1>5 DEF d
  <2>2. Number(text, b, k) = 0
    BY <1>2, <2>1, NumberUnfolds
  <2>3. Digits(text, b, k)
    BY <2>1 DEF Digits
  <2>4. Digits(text, b, k + 1) <=> d \in Digit
    <3>1. k \in Nat /\ b \in Nat /\ k + 1 >= b
      BY <1>2, <2>1
    <3> QED BY <2>3, <3>1, DigitsNext, Zenon DEF d
  <2>5. Split(text, b, k + 1) <=> d = Colon
    BY <1>2, <2>1, <2>3, SplitNext DEF b, d
  <2>6. r.notSign = s.notSign => (r.notSign <=> k + 1 >= 1 /\ text[1] = Bang)
    BY <1>2, <1>3, <2>1
  <2>7. \A c \in b..(k + 1) : c = b
    BY <1>2, <2>1
  <2>8. CASE d \in Digit
    <3>1. r = At(2, s.notSign, (s.from * 10) + d, s.to, s.setZero)
      <4>1. s.state \in 0..2
        OBVIOUS
      <4> QED BY <1>1, <2>8, <4>1, ReadCases, Zenon DEF r
    <3>2. r.state = 2 /\ r.notSign = s.notSign /\ r.from = (s.from * 10) + d /\ r.to = s.to /\ r.setZero
      BY <1>3, <3>1 DEF At
    <3>3. Number(text, b, k + 1) = (10 * Number(text, b, k)) + d
      <4>1. k + 1 \in 1..Len(text) /\ k + 1 >= b /\ (k + 1) - 1 = k /\ b \in Nat /\ b >= 1
        BY <1>2, <2>1
      <4> QED BY <2>8, <4>1, NumberUnfolds DEF d
    <3>4. r.from = Number(text, b, k + 1)
      BY <1>3, <2>2, <2>8, <3>2, <3>3 DEF Digit
    <3> QED BY <1>1, <1>3, <2>1, <2>4, <2>6, <2>8, <3>2, <3>4 DEF Scanned, b, d, r
  <2>9. CASE d = Colon
    <3>1. r = At(3, s.notSign, s.from, s.to, s.setZero)
      BY <1>1, <2>9, ReadCases, Zenon DEF r
    <3>2. r.state = 3 /\ r.notSign = s.notSign /\ r.from = s.from /\ r.to = s.to /\ r.setZero
      BY <1>3, <3>1 DEF At
    <3>3. r.from = Number(text, b, b - 1)
      BY <1>2, <1>3, <2>1, <3>2
    <3> QED BY <1>1, <1>2, <1>3, <2>1, <2>5, <2>6, <2>7, <2>9, <3>2, <3>3 DEF Scanned, b, d, r
  <2>10. CASE d \notin Digit /\ d # Colon
    <3>1. r = At(4, s.notSign, s.from, s.to, s.setZero)
      BY <1>1, <1>5, <2>10, ReadCases, Zenon DEF r
    <3>2. r.state = 4 /\ r.notSign = s.notSign
      BY <3>1 DEF At
    <3>3. ~Digits(text, b, k + 1) /\ \A c \in b..(k + 1) : ~Split(text, c, k + 1)
      BY <2>4, <2>5, <2>7, <2>10
    <3> QED BY <1>1, <1>2, <1>3, <2>1, <3>2, <3>3, ScanFails DEF b, d, r
  <2> QED BY <2>8, <2>9, <2>10
<1> QED BY <1>4, <1>5

\* Within the first number.
LEMMA ScanNumber ==
  ASSUME NEW text \in Seq(Character), NEW k \in 0..(Len(text) - 1), NEW s, Scanned(text, k, s),
         s.state = 2
  PROVE  Scanned(text, k + 1, Read(s, text[k + 1]))
<1> DEFINE b == Begin(text)
           d == text[k + 1]
           r == Read(s, d)
<1>1. s \in Reader /\ d \in Character /\ r \in Reader
  <2>1. s \in Reader /\ d \in Character
    BY DEF Scanned
  <2> QED BY <2>1, ReadKeeps
<1>2. k \in Nat /\ b \in 1..2 /\ k >= b /\ Digits(text, b, k) /\ k + 1 \in 1..Len(text) /\ b \in Nat
  BY BeginIs DEF Scanned
<1>3. s.setZero /\ s.to = INVALID_PORT /\ s.from = Number(text, b, k) /\ (s.notSign <=> k >= 1 /\ text[1] = Bang)
  BY DEF Scanned
<1>4. Number(text, b, k) \in Nat
  BY <1>2, NumberUnfolds
<1> HIDE DEF b, d, r
<1>5. Digits(text, b, k + 1) <=> d \in Digit
  <2>1. k \in Nat /\ b \in Nat /\ k + 1 >= b
    BY <1>2
  <2> QED BY <1>2, <2>1, DigitsNext, Zenon DEF d
<1>6. \A c \in b..(k + 1) : Split(text, c, k + 1) <=> c = k + 1 /\ d = Colon
  <2>1. ASSUME NEW c \in b..k PROVE ~Split(text, c, k + 1)
    <3>1. text[c] \in Digit
      BY <1>2 DEF Digits
    <3> QED BY <3>1, Characters DEF Split
  <2>2. Split(text, k + 1, k + 1) <=> d = Colon
    BY <1>2, SplitNext DEF b, d
  <2>3. \A c \in b..(k + 1) : c \in b..k \/ c = k + 1
    BY <1>2
  <2>4. \A c \in b..k : c # k + 1
    BY <1>2
  <2> QED BY <2>1, <2>2, <2>3, <2>4, Zenon
<1>7. r.notSign = s.notSign => (r.notSign <=> k + 1 >= 1 /\ text[1] = Bang)
  BY <1>2, <1>3
<1>8. CASE d \in Digit
  <2>1. r = At(2, s.notSign, (s.from * 10) + d, s.to, s.setZero)
    <3>1. s.state \in 0..2
      OBVIOUS
    <3> QED BY <1>1, <1>8, <3>1, ReadCases, Zenon DEF r
  <2>2. r.state = 2 /\ r.notSign = s.notSign /\ r.from = (s.from * 10) + d /\ r.to = s.to /\ r.setZero
    BY <1>3, <2>1 DEF At
  <2>3. Number(text, b, k + 1) = (10 * Number(text, b, k)) + d
    <3>1. k + 1 >= b /\ (k + 1) - 1 = k /\ b >= 1
      BY <1>2
    <3> QED BY <1>2, <1>8, <3>1, NumberUnfolds DEF d
  <2>4. r.from = Number(text, b, k + 1)
    BY <1>3, <1>4, <1>8, <2>2, <2>3 DEF Digit
  <2> QED BY <1>1, <1>2, <1>3, <1>5, <1>7, <1>8, <2>2, <2>4 DEF Scanned, b, d, r
<1>9. CASE d = Colon
  <2>1. r = At(3, s.notSign, s.from, MAX_PORT, s.setZero)
    BY <1>1, <1>9, ReadCases, Zenon DEF r
  <2>2. r.state = 3 /\ r.notSign = s.notSign /\ r.from = s.from /\ r.to = MAX_PORT /\ r.setZero
    BY <1>3, <2>1 DEF At
  <2>3. k + 1 \in b..(k + 1) /\ (k + 1) - 1 = k /\ k + 1 # b
    BY <1>2
  <2>4. Split(text, k + 1, k + 1)
    BY <1>6, <1>9, <2>3
  <2> QED BY <1>1, <1>3, <1>6, <1>7, <2>2, <2>3, <2>4 DEF Scanned, b, d, r
<1>10. CASE d \notin Digit /\ d # Colon
  <2>1. r = At(4, s.notSign, s.from, s.to, s.setZero)
    <3>1. s.state # 0
      OBVIOUS
    <3> QED BY <1>1, <1>10, <3>1, ReadCases, Zenon DEF r
  <2>2. r.state = 4 /\ r.notSign = s.notSign
    BY <2>1 DEF At
  <2>3. ~Digits(text, b, k + 1) /\ \A c \in b..(k + 1) : ~Split(text, c, k + 1)
    BY <1>5, <1>6, <1>10
  <2> QED BY <1>1, <1>2, <1>3, <2>2, <2>3, ScanFails DEF b, d, r
<1> QED BY <1>8, <1>9, <1>10

\* Behind the colon.
LEMMA ScanLast ==
  ASSUME NEW text \in Seq(Character), NEW k \in 0..(Len(text) - 1), NEW s, Scanned(text, k, s),
         s.state = 3
  PROVE  Scanned(text, k + 1, Read(s, text[k + 1]))
<1> DEFINE b == Begin(text)
           d == text[k + 1]
           r == Read(s, d)
<1>1. s \in Reader /\ d \in Character /\ r \in Reader
  <2>1. s \in Reader /\ d \in Character
    BY DEF Scanned
  <2> QED BY <2>1, ReadKeeps
<1>2. PICK c \in b..k : Split(text, c, k)
  BY DEF Scanned
<1>3. k \in Nat /\ b \in 1..2 /\ k >= b /\ k + 1 \in 1..Len(text) /\ c \in 1..k /\ c >= b /\ k >= 1
  BY <1>2, BeginIs
<1>4. /\ s.notSign <=> k >= 1 /\ text[1] = Bang
      /\ s.from = Number(text, b, c - 1)
      /\ c = k => s.setZero /\ s.to = IF c = b THEN INVALID_PORT ELSE MAX_PORT
      /\ c < k => ~s.setZero /\ s.to = Number(text, c + 1, k)
  BY <1>2 DEF Scanned
<1>5. \A e \in b..(k + 1) : Split(text, e, k + 1) <=> e = c /\ d \in Digit
  <2>1. ASSUME NEW e \in b..k PROVE Split(text, e, k + 1) <=> e = c /\ d \in Digit
    <3>1. e \in 1..k
      BY <1>3
    <3>2. Split(text, e, k + 1) <=> Split(text, e, k) /\ d \in Digit
      BY <1>3, <3>1, SplitNext
    <3>3. Split(text, e, k) => c = e
      BY <1>2, <1>3, <3>1, SplitOnce
    <3> QED BY <1>2, <3>2, <3>3
  <2>2. ~Split(text, k + 1, k + 1)
    <3>1. ~Digits(text, b, k)
      BY <1>2, <1>3, SplitOnce
    <3> QED BY <1>3, <3>1, SplitNext
  <2>3. \A e \in b..(k + 1) : e \in b..k \/ e = k + 1
    BY <1>3
  <2>4. c # k + 1
    BY <1>3
  <2> HIDE DEF b, d
  <2> QED BY <2>1, <2>2, <2>3, <2>4, Zenon
<1> HIDE DEF b, d, r
<1>6. r.notSign = s.notSign => (r.notSign <=> k + 1 >= 1 /\ text[1] = Bang)
  BY <1>3, <1>4
<1>7. CASE d \in Digit
  <2> DEFINE to == ((IF s.setZero THEN MIN_PORT ELSE s.to) * 10) + d
  <2>1. r = At(3, s.notSign, s.from, to, FALSE)
    BY <1>1, <1>7, ReadCases, Zenon DEF r
  <2>2. r.state = 3 /\ r.notSign = s.notSign /\ r.from = s.from /\ r.to = to /\ r.setZero = FALSE
    <3> HIDE DEF to
    <3> QED BY <2>1 DEF At
  <2>3. to = Number(text, c + 1, k + 1)
    <3>1. c + 1 \in Nat /\ c + 1 >= 1 /\ k + 1 >= c + 1 /\ (k + 1) - 1 = k /\ k \in 0..Len(text)
      BY <1>3
    <3>2. Number(text, c + 1, k + 1) = (10 * Number(text, c + 1, k)) + d
      BY <1>3, <1>7, <3>1, NumberUnfolds DEF d
    <3>3. Number(text, c + 1, k) \in Nat /\ (c = k => Number(text, c + 1, k) = 0)
      <4>1. c = k => k < c + 1
        BY <1>3
      <4> QED BY <3>1, <4>1, NumberUnfolds
    <3>4. (IF s.setZero THEN MIN_PORT ELSE s.to) = Number(text, c + 1, k)
      BY <1>3, <1>4, <3>3 DEF MIN_PORT
    <3>5. d \in Nat
      BY <1>7 DEF Digit
    <3> HIDE DEF Number
    <3> QED BY <3>2, <3>3, <3>4, <3>5
  <2> HIDE DEF to
  <2>4. c \in b..(k + 1) /\ c < k + 1 /\ c # k + 1 /\ Split(text, c, k + 1)
    BY <1>3, <1>5, <1>7
  <2> QED BY <1>1, <1>4, <1>5, <1>6, <2>2, <2>3, <2>4 DEF Scanned, b, d, r
<1>8. CASE d \notin Digit
  <2>1. r = At(4, s.notSign, s.from, s.to, s.setZero)
    BY <1>1, <1>8, ReadCases, Zenon DEF r
  <2>2. r.state = 4 /\ r.notSign = s.notSign
    BY <2>1 DEF At
  <2>3. \A e \in b..(k + 1) : ~Split(text, e, k + 1)
    BY <1>5, <1>8
  <2>4. ~Digits(text, b, k + 1)
    <3>1. k + 1 \in b..(k + 1)
      BY <1>3
    <3> QED BY <1>8, <3>1 DEF Digits, d
  <2> QED BY <1>1, <1>3, <1>4, <2>2, <2>3, <2>4, ScanFails DEF b, d, r
<1> QED BY <1>7, <1>8

LEMMA ScanFailed ==
  ASSUME NEW text \in Seq(Character), NEW k \in 0..(Len(text) - 1), NEW s, Scanned(text, k, s),
         s.state = 4
  PROVE  Scanned(text, k + 1, Read(s, text[k + 1]))
<1> DEFINE b == Begin(text)
           d == text[k + 1]
           r == Read(s, d)
<1>1. s \in Reader /\ d \in Character /\ r \in Reader
  <2>1. s \in Reader /\ d \in Character
    BY DEF Scanned
  <2> QED BY <2>1, ReadKeeps
<1>2. /\ k \in Nat /\ b \in 1..2 /\ k >= b /\ ~Digits(text, b, k) /\ b \in Nat
      /\ \A c \in b..k : ~Split(text, c, k)
      /\ s.notSign <=> k >= 1 /\ text[1] = Bang
  BY BeginIs DEF Scanned
<1> HIDE DEF r
<1>3. r = At(4, s.notSign, s.from, s.to, s.setZero)
  BY <1>1, ReadCases, Zenon DEF r
<1>4. r.state = 4 /\ r.notSign = s.notSign
  BY <1>3 DEF At
<1>5. ~Digits(text, b, k + 1)
  BY <1>2, DigitsNext
<1>6. ASSUME NEW c \in b..(k + 1) PROVE ~Split(text, c, k + 1)
  <2>1. CASE c = k + 1
    BY <1>2, <2>1, SplitNext
  <2>2. CASE c \in b..k
    <3>1. c \in 1..k
      BY <1>2, <2>2
    <3> QED BY <1>2, <2>2, <3>1, SplitNext
  <2> QED BY <1>2, <2>1, <2>2
<1> HIDE DEF b, d
<1> QED BY <1>1, <1>2, <1>4, <1>5, <1>6, ScanFails DEF b, d, r

LEMMA ScanStep ==
  ASSUME NEW text \in Seq(Character), NEW k \in 0..(Len(text) - 1), NEW s, Scanned(text, k, s)
  PROVE  Scanned(text, k + 1, Read(s, text[k + 1]))
<1>1. s.state \in 0..1 \/ s.state = 2 \/ s.state = 3 \/ s.state = 4
  BY DEF Scanned
<1> QED BY <1>1, ScanFirst, ScanNumber, ScanLast, ScanFailed, Zenon

LEMMA ScanStart ==
  ASSUME NEW text \in Seq(Character)
  PROVE  Scanned(text, 0, Start)
<1>1. Start \in Reader
  BY DEF Start, Reader, MIN_PORT, INVALID_PORT
<1>2. /\ Start.state = 0 /\ ~Start.notSign /\ Start.setZero /\ Start.to = INVALID_PORT /\ Start.from = 0
  BY DEF Start, MIN_PORT
<1>3. Number(text, Begin(text), 0) = 0
  <2>1. 0 \in 0..Len(text) /\ Begin(text) \in Nat /\ Begin(text) >= 1 /\ 0 < Begin(text)
    BY BeginIs
  <2> QED BY <2>1, NumberUnfolds
<1> HIDE DEF Start
<1> QED BY <1>1, <1>2, <1>3 DEF Scanned

LEMMA ReadingScanned ==
  ASSUME NEW text \in Seq(Character)
  PROVE  Scanned(text, Len(text), Reading(text))
<1>1. PICK f : IsRead(text, Len(text), f) /\ Reading(text) = f[Len(text)]
  BY ReadingUnfolds
<1> DEFINE T == {k \in Nat : k <= Len(text) => Scanned(text, k, f[k])}
<1>2. 0 \in T
  BY <1>1, ScanStart DEF IsRead
<1>3. ASSUME NEW k \in Nat, k \in T PROVE k + 1 \in T
  <2> SUFFICES ASSUME k + 1 <= Len(text) PROVE Scanned(text, k + 1, f[k + 1])
    OBVIOUS
  <2>1. k \in 0..(Len(text) - 1) /\ Scanned(text, k, f[k]) /\ k + 1 \in 1..Len(text) /\ (k + 1) - 1 = k
    BY <1>3
  <2>2. f[k + 1] = Read(f[k], text[k + 1])
    BY <1>1, <2>1 DEF IsRead
  <2> QED BY <2>1, <2>2, ScanStep, Zenon
<1> HIDE DEF T
<1>4. Nat \subseteq T
  BY <1>2, <1>3, NaturalsFrom0
<1>5. Len(text) \in T /\ Len(text) <= Len(text)
  BY <1>4
<1> QED BY <1>1, <1>5 DEF T

\* The cases of Denotes().
ColonsOf(text) == {k \in Begin(text)..Len(text) : text[k] = Colon}

LEMMA DenotesNumber ==
  ASSUME NEW text, ColonsOf(text) = {}
  PROVE  Denotes(text) = IF /\ Begin(text) <= Len(text) /\ Digits(text, Begin(text), Len(text))
                            /\ Number(text, Begin(text), Len(text)) <= MAX_PORT
                         THEN {Number(text, Begin(text), Len(text))} ELSE {}
BY Zenon DEF Denotes, ColonsOf, Begin

LEMMA DenotesRange ==
  ASSUME NEW text, NEW c, ColonsOf(text) = {c}
  PROVE  Denotes(text) =
           LET first == Number(text, Begin(text), c - 1)
               last  == IF c = Len(text) THEN MAX_PORT ELSE Number(text, c + 1, Len(text))
           IN IF /\ Begin(text) < Len(text) /\ Digits(text, Begin(text), c - 1) /\ Digits(text, c + 1, Len(text))
                 /\ last <= MAX_PORT /\ first < last
              THEN first..last ELSE {}
<1>1. (CHOOSE k \in ColonsOf(text) : TRUE) = c
  BY Zenon
<1>2. ColonsOf(text) # {}
  BY Zenon
<1> QED BY <1>1, <1>2, Zenon DEF Denotes, ColonsOf, Begin

LEMMA DenotesNothing ==
  ASSUME NEW text, ColonsOf(text) # {}, \A c \in Begin(text)..Len(text) : ~Split(text, c, Len(text))
  PROVE  Denotes(text) = {}
<1> DEFINE c == CHOOSE k \in ColonsOf(text) : TRUE
<1>1. c \in ColonsOf(text)
  BY Zenon
<1>2. ~(Digits(text, Begin(text), c - 1) /\ Digits(text, c + 1, Len(text)))
  BY <1>1, Zenon DEF Split, ColonsOf
<1> QED BY <1>2, Zenon DEF Denotes, ColonsOf, Begin

\* The bounds of a port.
LEMMA PortBounds ==
  /\ MAX_PORT \in Nat /\ \A n \in Nat : n \in MIN_PORT..MAX_PORT <=> n <= MAX_PORT
  /\ INVALID_PORT \in INVALID_PORT..MAX_PORT /\ INVALID_PORT \notin MIN_PORT..MAX_PORT /\ INVALID_PORT \notin Nat
  /\ \A n \in MIN_PORT..MAX_PORT : n \in INVALID_PORT..MAX_PORT /\ n \in Nat
<1>1. MIN_PORT = 0 /\ MAX_PORT \in Nat /\ INVALID_PORT = -1
  BY DEF MIN_PORT, MAX_PORT, INVALID_PORT
<1> QED BY <1>1

\* What PortParam reads from a text, and what it denotes.
Denoted(text, s) == Denotes(text) = IF s.to = INVALID_PORT THEN {s.from} ELSE s.from..s.to

LEMMA ReadsDenoted ==
  ASSUME NEW text \in Seq(Character)
  PROVE  LET s == Reading(text) IN
         /\ Accepted(text) <=> Denotes(text) # {}
         /\ Accepted(text) => /\ Denoted(text, s) /\ text # <<>> /\ (s.notSign <=> Head(text) = Bang)
                              /\ s.notSign \in BOOLEAN /\ s.from \in MIN_PORT..MAX_PORT
                              /\ s.to \in INVALID_PORT..MAX_PORT
<1> DEFINE s == Reading(text)
           b == Begin(text)
           end == Len(text)
<1>1. Scanned(text, end, s)
  BY ReadingScanned
<1> HIDE DEF s
<1>2. end \in Nat /\ b \in 1..2 /\ b \in Nat /\ b >= 1 /\ (end = 0 => b = 1)
  BY BeginIs
<1>3. s \in Reader /\ (s.notSign <=> end >= 1 /\ text[1] = Bang) /\ s.notSign \in BOOLEAN
  BY <1>1 DEF Scanned, Reader
<1>4. Accepted(text) <=> /\ s.state \in {2, 3} /\ s.from \in MIN_PORT..MAX_PORT
                         /\ s.state = 3 => s.to \in MIN_PORT..MAX_PORT /\ s.to > s.from
  BY Zenon DEF Accepted, s
<1>5. end >= 1 => text # <<>> /\ Head(text) = text[1]
  <2>1. text # <<>> <=> end # 0
    BY EmptySeq
  <2> QED BY <1>2, <2>1
<1>6. CASE s.state \in 0..1
  <2>1. ~(b <= end)
    <3>1. end = 0 \/ (end = 1 /\ text[1] = Bang)
      BY <1>1, <1>2, <1>6, SMT DEF Scanned
    <3> QED BY <1>2, <3>1, BeginIs
  <2>0. ColonsOf(text) = {}
    BY <1>2, <2>1 DEF ColonsOf
  <2>2. Denotes(text) = {}
    BY <2>1, <2>0, DenotesNumber, Zenon
  <2>3. ~Accepted(text)
    BY <1>4, <1>6
  <2> QED BY <2>2, <2>3
<1>7. CASE s.state = 2
  <2>1. end >= b /\ Digits(text, b, end) /\ s.to = INVALID_PORT /\ s.from = Number(text, b, end)
    BY <1>1, <1>7 DEF Scanned
  <2>2. ColonsOf(text) = {}
    BY <2>1, Characters DEF ColonsOf, Digits
  <2>3. s.from \in Nat
    BY <1>2, <2>1, NumberUnfolds
  <2>4. Accepted(text) <=> s.from <= MAX_PORT
    BY <1>4, <1>7, <2>3, PortBounds
  <2>5. Denotes(text) = IF s.from <= MAX_PORT THEN {s.from} ELSE {}
    BY <2>1, <2>2, DenotesNumber, Zenon
  <2>6. Accepted(text) <=> Denotes(text) # {}
    BY <2>4, <2>5, Zenon
  <2>7. Accepted(text) => Denoted(text, s) /\ s.from \in MIN_PORT..MAX_PORT /\ s.to \in INVALID_PORT..MAX_PORT
    <3>1. INVALID_PORT \in INVALID_PORT..MAX_PORT
      BY PortBounds, Zenon
    <3> QED BY <1>4, <2>1, <2>4, <2>5, <3>1, Zenon DEF Denoted
  <2>8. end >= 1
    BY <1>2, <2>1
  <2> QED BY <1>3, <1>5, <2>6, <2>7, <2>8, Zenon DEF s
<1>8. CASE s.state = 3
  <2>1. PICK c \in b..end : Split(text, c, end)
    BY <1>1, <1>8 DEF Scanned
  <2>2. /\ s.from = Number(text, b, c - 1)
        /\ c = end => s.setZero /\ s.to = IF c = b THEN INVALID_PORT ELSE MAX_PORT
        /\ c < end => ~s.setZero /\ s.to = Number(text, c + 1, end)
    BY <1>1, <1>8, <2>1 DEF Scanned
  <2>3. c \in 1..end /\ c >= b /\ end >= 1 /\ c - 1 \in 0..end /\ c + 1 \in Nat /\ c + 1 >= 1
    BY <1>2
  <2>4. ColonsOf(text) = {c}
    <3>1. \A e \in b..end : text[e] = Colon => e = c
      <4> SUFFICES ASSUME NEW e \in b..end, text[e] = Colon PROVE e = c
        OBVIOUS
      <4>1. e \in 1..end /\ e >= b
        BY <1>2
      <4> QED BY <1>2, <2>1, <2>3, <4>1, SplitOnce
    <3> QED BY <2>1, <3>1, Zenon DEF ColonsOf, Split
  <2> DEFINE first == Number(text, b, c - 1)
             last == IF c = end THEN MAX_PORT ELSE Number(text, c + 1, end)
  <2>5. first \in Nat /\ last \in Nat
    <3>1. MAX_PORT \in Nat
      BY PortBounds, Zenon
    <3>2. end \in 0..end
      BY <1>2
    <3> QED BY <1>2, <2>3, <3>1, <3>2, NumberUnfolds
  <2>6. Denotes(text) = IF b < end /\ last <= MAX_PORT /\ first < last THEN first..last ELSE {}
    <3>1. Digits(text, b, c - 1) /\ Digits(text, c + 1, end)
      BY <2>1 DEF Split
    <3> QED BY <2>4, <3>1, DenotesRange, Zenon
  <2>7. s.from = first /\ (b < end => s.to = last) /\ (~(b < end) => s.to = INVALID_PORT)
    <3>1. b < end \/ (c = end /\ c = b)
      BY <1>2, <2>3
    <3>2. c = end \/ c < end
      BY <1>2
    <3> HIDE DEF b, end
    <3>3. c = end /\ c = b => ~(b < end)
      BY <1>2
    <3> QED BY <2>2, <3>1, <3>2, <3>3, Zenon
  <2> HIDE DEF first, last, b
  <2>8. Accepted(text) <=> b < end /\ last <= MAX_PORT /\ first < last
    <3>1. CASE b < end
      <4>1. Accepted(text) <=> first \in MIN_PORT..MAX_PORT /\ last \in MIN_PORT..MAX_PORT /\ last > first
        BY <1>4, <1>8, <2>7, <3>1
      <4>2. first < last /\ last <= MAX_PORT => first <= MAX_PORT
        BY <2>5, PortBounds
      <4>3. last > first <=> first < last
        BY <2>5
      <4> QED BY <2>5, <3>1, <4>1, <4>2, <4>3, PortBounds, Zenon
    <3>2. CASE ~(b < end)
      <4>1. s.to \notin MIN_PORT..MAX_PORT
        BY <2>7, <3>2, PortBounds, Zenon
      <4> QED BY <1>4, <1>8, <3>2, <4>1
    <3> QED BY <3>1, <3>2
  <2>9. first < last => first..last # {}
    <3>1. first < last => first \in first..last
      BY <2>5
    <3> QED BY <3>1
  <2>10. Accepted(text) <=> Denotes(text) # {}
    BY <2>6, <2>8, <2>9, Zenon
  <2>11. Accepted(text) => /\ Denoted(text, s) /\ s.from \in MIN_PORT..MAX_PORT
                           /\ s.to \in INVALID_PORT..MAX_PORT
    <3> SUFFICES ASSUME Accepted(text) PROVE /\ Denoted(text, s) /\ s.from \in MIN_PORT..MAX_PORT
                                             /\ s.to \in INVALID_PORT..MAX_PORT
      OBVIOUS
    <3>1. s.to = last /\ s.from = first /\ s.to # INVALID_PORT /\ Denotes(text) = first..last
      <4>1. last # INVALID_PORT
        BY <2>5, PortBounds, Zenon
      <4> QED BY <2>6, <2>7, <2>8, <4>1, Zenon
    <3>2. s.from \in MIN_PORT..MAX_PORT /\ s.to \in MIN_PORT..MAX_PORT
      BY <1>4, <1>8
    <3>3. s.to \in INVALID_PORT..MAX_PORT
      BY <3>2, PortBounds, Zenon
    <3> QED BY <3>1, <3>2, <3>3, Zenon DEF Denoted
  <2> QED BY <1>3, <1>5, <2>3, <2>10, <2>11, Zenon DEF s
<1>9. CASE s.state = 4
  <2>1. end >= b /\ ~Digits(text, b, end) /\ \A c \in b..end : ~Split(text, c, end)
    BY <1>1, <1>9 DEF Scanned
  <2>2. Denotes(text) = {}
    BY <2>1, DenotesNumber, DenotesNothing, Zenon
  <2>3. ~Accepted(text)
    BY <1>4, <1>9
  <2> QED BY <2>2, <2>3
<1>10. s.state \in 0..1 \/ s.state = 2 \/ s.state = 3 \/ s.state = 4
  BY <1>3 DEF Reader
<1> QED BY <1>6, <1>7, <1>8, <1>9, <1>10

(* A port stands for what its text denotes.                                 *)
PortRead(q) ==
  /\ q \in Port
  /\ q.portString # <<>> => Denoted(q.portString, q) /\ (q.notSign <=> Head(q.portString) = Bang)

PortOk == kind = "port" => PortRead(val)

LEMMA NewPortRead == PortRead(NewPort)
<1>1. NewPort.portString = <<>>
  BY DEF NewPort
<1>2. NewPort \in Port
  BY PortBounds DEF NewPort, Port
<1> QED BY <1>1, <1>2 DEF PortRead

\* The texts that a client makes of the characters.
LEMMA PortText ==
  ASSUME NEW n \in Nat, NEW text \in [1..n -> Chars]
  PROVE  text \in Seq(Character)
<1>1. \A i \in 1..n : text[i] \in Character
  BY CharsAssumption DEF Character
<1>2. text \in [1..n -> Character]
  BY <1>1
<1> QED BY <1>2

LEMMA SetPortRead ==
  ASSUME NEW p, PortRead(p), NEW text \in Seq(Character)
  PROVE  PortRead(setPort(p, text))
<1> DEFINE s == Reading(text)
           q == [notSign |-> s.notSign, from |-> s.from, to |-> s.to, portString |-> text,
                 portRange |-> s.to # INVALID_PORT]
<1>1. CASE ~Accepted(text)
  BY <1>1, Zenon DEF setPort
<1>2. CASE Accepted(text)
  <2>1. setPort(p, text) = q
    BY <1>2, Zenon DEF setPort
  <2>2. /\ Denoted(text, s) /\ (s.notSign <=> Head(text) = Bang)
        /\ s.notSign \in BOOLEAN /\ s.from \in MIN_PORT..MAX_PORT /\ s.to \in INVALID_PORT..MAX_PORT
    BY <1>2, ReadsDenoted, Zenon
  <2>3. s.from \in INVALID_PORT..MAX_PORT
    BY <2>2, PortBounds, Zenon
  <2> HIDE DEF s
  <2>4. q.portString = text /\ q.notSign = s.notSign /\ q.from = s.from /\ q.to = s.to
    OBVIOUS
  <2>5. q \in Port
    BY <2>2, <2>3 DEF Port, Character
  <2>6. PortRead(q)
    <3> HIDE DEF q
    <3> QED BY <2>2, <2>4, <2>5 DEF PortRead, Denoted
  <2> QED BY <2>1, <2>6, Zenon
<1> QED BY <1>1, <1>2

\* A digit is the text of itself.
LEMMA DigitDenotes ==
  ASSUME NEW n \in Digit
  PROVE  <<n>> \in Seq(Character) /\ Denotes(<<n>>) = {n} /\ Head(<<n>>) # Bang /\ <<n>> # <<>>
<1> DEFINE text == <<n>>
<1>1. text \in Seq(Character)
  BY DEF Character
<1>2. Len(text) = 1 /\ text[1] = n /\ Head(text) = n /\ text # <<>>
  OBVIOUS
<1>3. n # Bang /\ n # Colon /\ n \in Nat /\ n <= MAX_PORT
  BY Characters
<1> HIDE DEF text
<1>4. Begin(text) = 1
  BY <1>2, <1>3 DEF Begin
<1>5. Number(text, 1, 1) = n
  <2>1. Number(text, 1, 0) = 0
    BY <1>1, <1>2, NumberUnfolds
  <2>2. Number(text, 1, 1) = (10 * Number(text, 1, 0)) + text[1]
    BY <1>1, <1>2, NumberUnfolds
  <2> QED BY <1>2, <1>3, <2>1, <2>2
<1>6. ColonsOf(text) = {}
  BY <1>2, <1>3, <1>4 DEF ColonsOf
<1>7. Digits(text, 1, 1)
  BY <1>2 DEF Digits
<1>8. Denotes(text) = {n}
  <2>1. /\ Begin(text) <= Len(text) /\ Digits(text, Begin(text), Len(text))
        /\ Number(text, Begin(text), Len(text)) = n
    BY <1>2, <1>4, <1>5, <1>7
  <2> QED BY <1>3, <1>6, <2>1, DenotesNumber, Zenon
<1> QED BY <1>1, <1>2, <1>3, <1>8 DEF text

LEMMA SetNumberRead ==
  ASSUME NEW p, PortRead(p), NEW n \in Digit
  PROVE  PortRead(setPortNumber(p, n, <<n>>))
<1> DEFINE q == [notSign |-> FALSE, from |-> n, to |-> INVALID_PORT, portString |-> <<n>>, portRange |-> FALSE]
<1>1. n \in Nat /\ n <= MAX_PORT
  BY Characters
<1>2. ~(n > MAX_PORT)
  BY <1>1, PortBounds
<1>3. setPortNumber(p, n, <<n>>) = q
  BY <1>2, Zenon DEF setPortNumber
<1>4. n \in INVALID_PORT..MAX_PORT /\ INVALID_PORT \in INVALID_PORT..MAX_PORT
  BY <1>1, PortBounds
<1>5. q \in Port
  BY <1>4, DigitDenotes DEF Port, Character
<1>6. q.portString = <<n>> /\ ~q.notSign /\ q.from = n /\ q.to = INVALID_PORT
  OBVIOUS
<1> HIDE DEF q
<1>7. PortRead(q)
  BY <1>5, <1>6, DigitDenotes, Zenon DEF PortRead, Denoted
<1> QED BY <1>3, <1>7, Zenon

\* A copy differs in portRange at most.
LEMMA CopyRead ==
  ASSUME NEW q, PortRead(q), NEW b \in BOOLEAN
  PROVE  PortRead([q EXCEPT !.portRange = b])
<1> DEFINE c == [q EXCEPT !.portRange = b]
<1>1. q \in Port
  BY DEF PortRead
<1>2. c \in Port /\ c.portString = q.portString /\ c.notSign = q.notSign /\ c.from = q.from /\ c.to = q.to
  BY <1>1 DEF Port
<1> HIDE DEF c
<1>3. PortRead(c)
  BY <1>2, Zenon DEF PortRead, Denoted
<1> QED BY <1>3 DEF c

LEMMA PortInit == Init => PortOk
<1>1. Init /\ kind = "port" => val = NewPort
  BY DEF Init
<1> QED BY <1>1, NewPortRead, Zenon DEF PortOk

LEMMA PortNext == PortOk /\ [Next]_vars => PortOk'
<1> SUFFICES ASSUME PortOk, [Next]_vars, kind' = "port" PROVE PortRead(val')
  BY DEF PortOk
<1>1. kind = "port" /\ (val' = val \/ MovesPort)
  BY Moves
<1>2. PortRead(val)
  BY <1>1 DEF PortOk
<1>3. ASSUME NEW n \in 0..MaxChars, AssignPort(n) PROVE PortRead(val')
  <2>1. PICK text \in [1..n -> Chars] : val' = setPort(val, text)
    BY <1>3, Zenon DEF AssignPort, Change
  <2>2. n \in Nat
    BY CharsAssumption
  <2> QED BY <1>2, <2>1, <2>2, PortText, SetPortRead
<1>4. ASSUME NEW n \in Chars \cap Digit, AssignNumber(n) PROVE PortRead(val')
  BY <1>2, <1>4, SetNumberRead, Zenon DEF AssignNumber, Change
<1>5. ASSUME NEW n \in 0..2, AssignPortParam(n) PROVE PortRead(val')
  <2>1. PICK text \in [1..n -> Chars] : val' = copyPort(val, setPort(NewPort, text))
    BY <1>5, Zenon DEF AssignPortParam, Change
  <2>2. PortRead(setPort(NewPort, text))
    BY NewPortRead, PortText, SetPortRead
  <2>3. val.portRange \in BOOLEAN
    BY <1>2 DEF PortRead, Port
  <2> QED BY <2>1, <2>2, <2>3, CopyRead, Zenon DEF copyPort
<1>6. ASSUME CopyPort PROVE PortRead(val')
  BY <1>2, <1>6, CopyRead, Zenon DEF CopyPort, Copies, Change
<1> QED BY <1>1, <1>2, <1>3, <1>4, <1>5, <1>6 DEF MovesPort

\* PortParam accepts exactly the texts of the grammar that its comment gives,
\* src/include/sparam.hpp, and holds the ports that the text denotes, whatever
\* was assigned, copied or rejected before: operator=, src/sparam.cpp:1953-2023.
THEOREM ValueParamsPortDenotes == Spec => []PortDenotes
<1>1. PortOk => PortDenotes
  <2> SUFFICES ASSUME PortOk, kind = "port", val.portString # <<>> PROVE
        /\ Denotes(val.portString) = IF val.to = INVALID_PORT THEN {val.from} ELSE val.from..val.to
        /\ val.notSign <=> Head(val.portString) = Bang
        /\ \A n \in 0..2 : \A text \in [1..n -> Chars] : Accepted(text) <=> Denotes(text) # {}
    BY Zenon DEF PortDenotes
  <2>1. ASSUME NEW n \in 0..2, NEW text \in [1..n -> Chars] PROVE Accepted(text) <=> Denotes(text) # {}
    BY PortText, ReadsDenoted
  <2>2. Denoted(val.portString, val) /\ (val.notSign <=> Head(val.portString) = Bang)
    BY Zenon DEF PortOk, PortRead
  <2> QED BY <2>1, <2>2, Zenon DEF Denoted
<1> QED BY <1>1, PortInit, PortNext, PTL DEF Spec

-----------------------------------------------------------------------------
(* The ranges of the fields, for every kind of parameter.                   *)

\* Every assignment, conversion and addition leaves bytes, words, prefixes,
\* ports and a date and time on the calendar, accepted or not: the setters of
\* DateTime, IPv4Param, IPv6Param, IPxRangeParam, PortParam and ConvertSID,
\* src/sparam.cpp; of the calendar, as long as no year is one whose February
\* differs from that of the year mktime() is given.
THEOREM ValueParamsTypes ==
  ASSUME NoFalseLeapDay
  PROVE  Spec => []TypeOK
<1> DEFINE IInv == ClockInv /\ ClockValid /\ V4Ok /\ V6Ok /\ RangeOk /\ SIDOk /\ PortOk /\ kind \in Kinds
<1>1. IInv => TypeOK
  <2> SUFFICES ASSUME IInv PROVE TypeOK
    OBVIOUS
  <2>1. CASE kind = "clock"
    <3>1. val = [date |-> val.date, time |-> val.time] /\ val.time \in Time /\ isValidTime(val.time)
      BY <2>1 DEF ClockInv
    <3>2. val.date \in Date /\ isValidDate(val.date)
      BY <2>1 DEF ClockValid
    <3>3. Values(kind) = [date : Date, time : Time]
      BY <2>1 DEF Values
    <3> QED BY <3>1, <3>2, <3>3 DEF TypeOK, isValidDateTime
  <2>2. CASE kind = "v4"
    BY <2>2 DEF Values, TypeOK, V4Ok
  <2>3. CASE kind = "v6"
    BY <2>3 DEF Values, TypeOK, V6Ok
  <2>4. CASE kind = "range"
    BY <2>4 DEF Values, TypeOK, RangeOk, RangeType
  <2>5. CASE kind = "port"
    BY <2>5 DEF Values, TypeOK, PortOk, PortRead
  <2>6. CASE kind = "sid"
    BY <2>6 DEF Values, TypeOK, SIDOk
  <2> QED BY <2>1, <2>2, <2>3, <2>4, <2>5, <2>6 DEF Kinds
<1>2. Init => IInv
  BY ClockInit, ClockValidInit, AddressesInit, RangeInit, SIDInit, PortInit DEF Init
<1>3. IInv /\ [Next]_vars => IInv'
  <2> SUFFICES ASSUME IInv, [Next]_vars PROVE IInv'
    OBVIOUS
  <2>1. kind' \in Kinds
    BY Moves
  <2> QED BY <2>1, ClockNext, ClockValidNext, V4Next, V6Next, RangeNext, SIDNext, PortNext
<1> HIDE DEF IInv
<1> QED BY <1>1, <1>2, <1>3, PTL DEF Spec
=============================================================================
