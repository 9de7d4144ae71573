------------------------------ MODULE CivilDates ------------------------------
(***************************************************************************)
(* The calendar dates of src/src/lib/dates.ts. A date is the number of     *)
(* days since 1 January of FirstYear: the code's UTC-midnight Date, which  *)
(* it only ever shifts by whole days. FirstYear..LastYear is the model's   *)
(* horizon; every date the calendar of a bounded today reaches is in it.   *)
(***************************************************************************)
EXTENDS Integers

FirstYear == 2010
LastYear  == 2036

(* What Date.UTC knows of the Gregorian calendar. *)
IsLeap(y) == (y % 400 = 0) \/ (y % 4 = 0 /\ y % 100 # 0)
LeapsBefore(y) == (y - 1) \div 4 - (y - 1) \div 100 + (y - 1) \div 400
YearStart(y) == 365 * (y - FirstYear) + LeapsBefore(y) - LeapsBefore(FirstYear)

daysInMonth(y, m) ==
  IF m = 2 THEN IF IsLeap(y) THEN 29 ELSE 28
  ELSE IF m \in {4, 6, 9, 11} THEN 30 ELSE 31

DaysBeforeMonth == <<0, 31, 59, 90, 120, 151, 181, 212, 243, 273, 304, 334>>

utcDate(y, m, d) ==
  YearStart(y) + DaysBeforeMonth[m] + d - (IF m > 2 /\ IsLeap(y) THEN 0 ELSE 1)

(* The year, month and day of a date, tabulated once. *)
CivilMonth(y, m, n) == [year |-> y, month |-> m, day |-> n - utcDate(y, m, 1) + 1]
CivilYear(y, n) ==
  CivilMonth(y, CHOOSE m \in 1..12 : n - utcDate(y, m, 1) \in 0..(daysInMonth(y, m) - 1), n)
Civil ==
  [n \in 0..(YearStart(LastYear + 1) - 1) |->
     CivilYear(CHOOSE y \in FirstYear..LastYear : YearStart(y) <= n /\ n < YearStart(y + 1), n)]
YearOf(n)  == Civil[n].year
MonthOf(n) == Civil[n].month
DayOf(n)   == Civil[n].day

Earlier(a, b) == IF a < b THEN a ELSE b

(* Date.UTC with the day clamped to the month: month m may run past a year.  *)
ClampedDate(monthIndex, day) ==
  LET y == monthIndex \div 12
      m == (monthIndex % 12) + 1
  IN  utcDate(y, m, Earlier(day, daysInMonth(y, m)))

addMonths(d, k) == ClampedDate(12 * YearOf(d) + MonthOf(d) - 1 + k, DayOf(d))
endOfMonth(y, m) == utcDate(y, m, daysInMonth(y, m))

(* setUTCFullYear(year - k): 29 February rolls over into 1 March.            *)
YearsEarlier(d, k) ==
  IF MonthOf(d) = 2 /\ DayOf(d) = 29 /\ ~IsLeap(YearOf(d) - k)
  THEN utcDate(YearOf(d) - k, 3, 1)
  ELSE utcDate(YearOf(d) - k, MonthOf(d), DayOf(d))

-------------------------------------------------------------------------------
(* A financial year is named by the year it starts in: 1 April to 31 March.  *)
financialYearOf(d) == IF MonthOf(d) >= 4 THEN YearOf(d) ELSE YearOf(d) - 1
FyStart(fy) == utcDate(fy, 4, 1)
FyEnd(fy)   == utcDate(fy + 1, 3, 31)
financialYearsBetween(from, to) == financialYearOf(from)..financialYearOf(to)

(* A period's key: what it is a part of, and which part.                     *)
FyKey(fy)         == [kind |-> "FY", year |-> fy, part |-> 0]
QuarterKey(fy, q) == [kind |-> "Q", year |-> fy, part |-> q]
HalfKey(fy, h)    == [kind |-> "H", year |-> fy, part |-> h]
MonthKey(y, m)    == [kind |-> "M", year |-> y, part |-> m]

(* The equal parts of each financial year, len months long; tabulated once.  *)
FinancialYears == (FirstYear + 1)..(LastYear - 2)
PartOf(key, fy, i, len) ==
  [key |-> key,
   start |-> ClampedDate(12 * fy + 3 + (i - 1) * len, 1),
   end   |-> ClampedDate(12 * fy + 3 + i * len - 1, 31)]
fyQuarters == [fy \in FinancialYears |-> [q \in 1..4 |-> PartOf(QuarterKey(fy, q), fy, q, 3)]]
fyHalves   == [fy \in FinancialYears |-> [h \in 1..2 |-> PartOf(HalfKey(fy, h), fy, h, 6)]]
fyMonths   ==
  LET key(fy, i) == IF i <= 9 THEN MonthKey(fy, i + 3) ELSE MonthKey(fy + 1, i - 9)
  IN  [fy \in FinancialYears |-> [i \in 1..12 |-> PartOf(key(fy, i), fy, i, 1)]]

(* s.2(41): a company born in January to March closes its first accounts on  *)
(* 31 March of the following year.                                           *)
firstFinancialYearEnd_NoMarch(incorporatedOn) ==
  LET fy == financialYearOf(incorporatedOn)
  IN  IF MonthOf(incorporatedOn) < 3 THEN utcDate(fy + 2, 3, 31) ELSE FyEnd(fy)
firstFinancialYearEnd(incorporatedOn) ==
  LET fy == financialYearOf(incorporatedOn)
  IN  IF MonthOf(incorporatedOn) <= 3 THEN utcDate(fy + 2, 3, 31) ELSE FyEnd(fy)
===============================================================================
