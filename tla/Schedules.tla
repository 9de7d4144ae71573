------------------------------ MODULE Schedules -------------------------------
(***************************************************************************)
(* The schedule builders of src/src/engine/schedule.ts. A builder, given a *)
(* financial year fy and, where the code reads it, the company c, yields   *)
(* the set of occurrences of that year: the key of the period, the day the *)
(* period ends and the day the filing is due. Labels, titles, metadata and *)
(* the period's first day, which nothing decides by, are left out.         *)
(***************************************************************************)
EXTENDS CivilDates

NoDate == -1

Occurrence(key, end, due) == [gstin |-> "", key |-> key, end |-> end, due |-> due]

dateInFy(fy, month, day) ==
  ClampedDate(12 * (IF month >= 4 THEN fy ELSE fy + 1) + month - 1, day)
dateAfterFy(fy, month, day) ==
  ClampedDate(12 * (IF month >= 4 THEN fy + 1 ELSE fy + 2) + month - 1, day)
shiftMonths(d, k, day) == ClampedDate(12 * YearOf(d) + MonthOf(d) - 1 + k, day)

OncePerFy(fy, due) == {Occurrence(FyKey(fy), FyEnd(fy), due)}
annual(month, day, fy)       == OncePerFy(fy, dateAfterFy(fy, month, day))
annualWithin(month, day, fy) == OncePerFy(fy, dateInFy(fy, month, day))

IsFirstFy(fy, c) == FyEnd(fy) = firstFinancialYearEnd(c.incorporated)

(* Counted from the AGM when one on record can be this year's; otherwise the *)
(* outer limit, nine months and the offset for the first year.               *)
annualFromAgm(offset, month, day, fy, c) ==
  LET usable == /\ c.agm # NoDate
                /\ c.agm > FyEnd(fy)
                /\ c.agm <= addMonths(FyEnd(fy), 12)
      outerLimit == IF c.incorporated # NoDate /\ IsFirstFy(fy, c)
                    THEN addMonths(FyEnd(fy), 9) + offset
                    ELSE dateAfterFy(fy, month, day)
  IN  OncePerFy(fy, IF usable THEN c.agm + offset ELSE outerLimit)

(* One occurrence for each period, due on due[i] for the i-th.               *)
Parts(periods, due) ==
  {Occurrence(periods[i].key, periods[i].end, due[i]) : i \in DOMAIN periods}
monthly(day, fy) ==
  Parts(fyMonths[fy], [i \in 1..12 |-> shiftMonths(fyMonths[fy][i].start, 1, day)])
quarterly(due, fy)  == Parts(fyQuarters[fy], due)
halfYearly(due, fy) == Parts(fyHalves[fy], due)

(* Entries are <<month, day>> inside the year, each an instalment of its own. *)
fixedDatesInFy(entries, fy) ==
  {Occurrence([kind |-> "AT", year |-> fy, part |-> i], FyEnd(fy),
              dateInFy(fy, entries[i][1], entries[i][2])) : i \in DOMAIN entries}

(* Once in a lifetime, in the financial year its deadline falls in.          *)
oneTimeFromIncorporation(withinDays, fy, c) ==
  LET due == c.incorporated + withinDays
  IN  IF c.incorporated = NoDate \/ due < FyStart(fy) \/ due > FyEnd(fy) THEN {}
      ELSE {Occurrence([kind |-> "ONCE", year |-> 0, part |-> 0], due, due)}

(* The inner schedule once for each active registration, under its own key.  *)
perGstin(inner, c) ==
  UNION {{[o EXCEPT !.gstin = reg.gstin] : o \in inner[reg]} :
           reg \in {g \in c.gst : g.isActive}}
===============================================================================
