--------------------------- MODULE DateTimeParam ---------------------------
(***************************************************************************)
(* pparam::DateParam, TimeParam and DateTime (src/sparam.cpp): calendar    *)
(* and clock arithmetic on the fields of a date and of a time of day.      *)
(* The fields are unsigned shorts, the seconds an unsigned int; inputs     *)
(* stay far below their widths, so that only the carry of add() into an    *)
(* unsigned char is written modulo its width.                              *)
(***************************************************************************)
EXTENDS Integers

Date == [year : Nat, month : Nat, day : Nat]
Time == [hour : Nat, minute : Nat, second : Nat]

\* The fields in which < looks for the first difference.
DateFields(d) == <<d.year, d.month, d.day>>
TimeFields(t) == <<t.hour, t.minute, t.second>>

Before(s, u) == \E i \in 1..3 : s[i] < u[i] /\ \A j \in 1..(i - 1) : s[j] = u[j]

-----------------------------------------------------------------------------
(* Dates.                                                                   *)

isLeapYear(y) == (y % 4 = 0 /\ y % 100 # 0) \/ y % 400 = 0

daysOfMonth(y, m) == CASE m \in {1, 3, 5, 7, 8, 10, 12} -> 31
                       [] m \in {4, 6, 9, 11} -> 30
                       [] OTHER -> IF isLeapYear(y) THEN 29 ELSE 28

isValidDate(d) == /\ d.year >= 1900
                  /\ d.month \in 1..12
                  /\ d.day \in 1..daysOfMonth(d.year, d.month)

DateLess(d, e) == Before(DateFields(d), DateFields(e))

DaysBeforeMonth(y, m) ==
  LET days[k \in 1..12] == IF k = 1 THEN 0 ELSE days[k - 1] + daysOfMonth(y, k - 1)
  IN days[m]

\* Years of 365 days, a leap day every four years, and one more when the year
\* before was a leap year.
daysOfDate(d) == LET y == IF d.year = 0 THEN 0 ELSE d.year - 1 IN
  (y * 365) + (y \div 4) + (IF isLeapYear(d.year - 1) THEN 1 ELSE 0)
    + DaysBeforeMonth(d.year, d.month) + d.day

\* operator-.
DateMinus(d, e) == daysOfDate(d) - daysOfDate(e)

\* mktime() carries the days beyond the end of a month into the next one.
NextMonth(d) ==
  LET days == daysOfMonth(d.year, d.month) IN
  IF d.day <= days THEN d
  ELSE IF d.month < 12 THEN [year |-> d.year, month |-> d.month + 1, day |-> d.day - days]
  ELSE [year |-> d.year + 1, month |-> 1, day |-> d.day - days]

\* Mutant of addDay: tm_mon is not counted from zero.
addDayNoMonthShift(d, n) ==
  LET later[k \in 0..(n + 1)] ==
        IF k = 0 THEN [year |-> d.year + 1900, month |-> d.month + 1, day |-> d.day + n] ELSE NextMonth(later[k - 1])
      last == later[n + 1]
  IN [last EXCEPT !.year = @ - 1900, !.month = IF @ = 1 THEN 12 ELSE @ - 1]

\* addDay: tm_year counts from 1900, and the year is handed over as it is, so
\* that mktime() works in the calendar of year + 1900.
addDay(d, n) ==
  LET later[k \in 0..(n + 1)] ==
        IF k = 0 THEN [year |-> d.year + 1900, month |-> d.month, day |-> d.day + n] ELSE NextMonth(later[k - 1])
      last == later[n + 1]
  IN [last EXCEPT !.year = @ - 1900]

-----------------------------------------------------------------------------
(* Times of day.                                                            *)

isValidTime(t) == t.hour <= 23 /\ t.minute <= 59 /\ t.second <= 59

TimeLess(t, u) == Before(TimeFields(t), TimeFields(u))

secondsOfTime(t) == (t.hour * 3600) + (t.minute * 60) + t.second

\* Mutant of TimeSum: the carry of the seconds is forgotten.
TimeSumNoCarry(t, u) ==
  LET minutes == t.minute + u.minute
  IN [hour   |-> t.hour + u.hour + (minutes \div 60),
      minute |-> minutes % 60,
      second |-> (t.second + u.second) % 60]

\* The fields of a sum, hours not yet taken modulo a day.
TimeSum(t, u) ==
  LET seconds == t.second + u.second
      minutes == t.minute + u.minute + (seconds \div 60)
  IN [hour   |-> t.hour + u.hour + (minutes \div 60),
      minute |-> minutes % 60,
      second |-> seconds % 60]

\* operator+, and add() with the days carried, an unsigned char.
TimePlus(t, u) == [TimeSum(t, u) EXCEPT !.hour = @ % 24]
TimeAddDays(t, u) == (TimeSum(t, u).hour \div 24) % 256

\* operator-: the seconds from t to u, over midnight when t is the later one.
TimeMinus(t, u) == ((IF TimeLess(u, t) THEN 86400 ELSE 0) - secondsOfTime(t)) + secondsOfTime(u)

addMinuteToTime(t, n) ==
  [t EXCEPT !.minute = (@ + n) % 60, !.hour = (@ + ((t.minute + n) \div 60)) % 24]
addMinuteDays(t, n) == (t.hour + ((t.minute + n) \div 60)) \div 24

-----------------------------------------------------------------------------
(* Date and time together.                                                  *)

DateTimeLess(a, b) == DateLess(a.date, b.date) \/ (a.date = b.date /\ TimeLess(a.time, b.time))

isValidDateTime(a) == isValidDate(a.date) /\ isValidTime(a.time)

addMinute(a, n) == [date |-> addDay(a.date, addMinuteDays(a.time, n)),
                    time |-> addMinuteToTime(a.time, n)]

-----------------------------------------------------------------------------
(* The calendar itself, to compare with: days since 1900/1/1.               *)

TrueDays(d) == LET y == d.year - 1900 IN
  (y * 365) + ((d.year - 1) \div 4) + ((d.year - 1) \div 400)
    - (((d.year - 1) \div 100) + 460) + DaysBeforeMonth(d.year, d.month) + d.day - 1

TrueMinutes(a) == (TrueDays(a.date) * 1440) + (a.time.hour * 60) + a.time.minute
=============================================================================
