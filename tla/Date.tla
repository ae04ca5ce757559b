-------------------------------- MODULE Date --------------------------------
(***************************************************************************)
(* qingyi::Date (src/qingyi/util/date_.h, date_.cc): days numbered as      *)
(* Julian days, against the calendar, which goes from one day to the next. *)
(* All quotients are of natural numbers, where C++ and \div agree.         *)
(***************************************************************************)
EXTENDS Integers

CONSTANTS
  FirstTm,    \* the day the calendar starts with, as a struct tm
  LastYear    \* bound: the calendar ends with this year

(* The Gregorian calendar. *)
IsLeap(year) == year % 4 = 0 /\ (year % 100 = 0 => year % 400 = 0)

DaysOf(mon, year) ==
  IF mon = 1 THEN IF IsLeap(year) THEN 29 ELSE 28
  ELSE IF mon \in {3, 5, 8, 10} THEN 30 ELSE 31

CalendarDays ==
  {t \in [year : Nat, mon : 0 .. 11, mday : 1 .. 31, wday : 0 .. 6] :
     t.mday <= DaysOf(t.mon, t.year + 1900)}

ASSUME DateAssumption == FirstTm \in CalendarDays /\ LastYear \in Nat

VARIABLES
  tm,         \* the day as the C library has it: years from 1900, months from 0
  date        \* julian_day_number_ of the Date made from tm

calendarVars == <<tm, date>>
-----------------------------------------------------------------------------
(* A faulty variant: the century rule of the Julian calendar. *)
GetJuliandaynumberOldStyle(year, month, day) ==
  LET a == (14 - month) \div 12
      y == year + 4800 - a
      m == month + 12 * a - 3
  IN  day + (153 * m + 2) \div 5 + y * 365 + y \div 4 - 32083

GetJuliandaynumber(year, month, day) ==
  LET a == (14 - month) \div 12
      y == year + 4800 - a
      m == month + 12 * a - 3
  IN  day + (153 * m + 2) \div 5 + y * 365 + y \div 4 - y \div 100 + y \div 400 - 32045

(* A faulty variant: the remainder of the century is taken one day off. *)
GetYearMonthDayRounded(julian) ==
  LET a == julian + 32044
      b == (4 * a) \div 146097
      c == a - (b * 146097) \div 4
      d == (4 * c + 3) \div 1461
      e == c - (1461 * d) \div 4
      m == (5 * e + 2) \div 153
  IN  [day |-> e - (153 * m + 2) \div 5 + 1,
       month |-> m + 3 - 12 * (m \div 10),
       year |-> b * 100 + d - 4800 + m \div 10]

GetYearMonthDay(julian) ==
  LET a == julian + 32044
      b == (4 * a + 3) \div 146097
      c == a - (b * 146097) \div 4
      d == (4 * c + 3) \div 1461
      e == c - (1461 * d) \div 4
      m == (5 * e + 2) \div 153
  IN  [day |-> e - (153 * m + 2) \div 5 + 1,
       month |-> m + 3 - 12 * (m \div 10),
       year |-> b * 100 + d - 4800 + m \div 10]

DateOfTm(t) == GetJuliandaynumber(t.year + 1900, t.mon + 1, t.mday)

kDaysPerWeek == 7
WeekDay(julian) == (julian + 1) % kDaysPerWeek
-----------------------------------------------------------------------------
Following(t) ==
  [year |-> IF t.mon = 11 /\ t.mday = 31 THEN t.year + 1 ELSE t.year,
   mon |-> IF t.mday = DaysOf(t.mon, t.year + 1900) THEN (t.mon + 1) % 12 ELSE t.mon,
   mday |-> IF t.mday = DaysOf(t.mon, t.year + 1900) THEN 1 ELSE t.mday + 1,
   wday |-> (t.wday + 1) % 7]

FirstDay == tm = FirstTm /\ date = DateOfTm(tm)

NextDay ==
  /\ Following(tm).year + 1900 <= LastYear
  /\ tm' = Following(tm)
  /\ date' = DateOfTm(tm')

CalendarSpec == FirstDay /\ [][NextDay]_calendarVars
-----------------------------------------------------------------------------
(* A Date gives back the year, month and day it was made from, and the     *)
(* weekday that the calendar has counted from its first day on.            *)
DateIsTm ==
  /\ GetYearMonthDay(date) = [day |-> tm.mday, month |-> tm.mon + 1, year |-> tm.year + 1900]
  /\ WeekDay(date) = tm.wday

(* One day after the other has one number after the other: over the ends   *)
(* of months and years, leap years and centuries, dates compare as days do *)
(* and differ by the days between them.                                    *)
ConsecutiveDays == [][date' = date + 1]_calendarVars
=============================================================================
