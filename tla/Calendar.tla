------------------------------- MODULE Calendar -------------------------------
(***************************************************************************)
(* Which obligations a company's calendar holds: generateCalendar over the *)
(* catalogue, and the company's life around it. The profile is edited, the *)
(* days pass, events are logged, and now and then a sync regenerates the   *)
(* calendar as of that day. What a sync does to the rows it finds, with    *)
(* their tasks and evidence, is Obligations; here a sync's outcome is what *)
(* the engine generates.                                                   *)
(***************************************************************************)
EXTENDS Catalog, FiniteSets

CONSTANTS
  Profiles,      (* the states of a company's profile *)
  Days,          (* the days on which something happens *)
  EventTypes,    (* what is logged, of the types the endpoint accepts *)
  MaxEvents      (* bound on the events logged *)

(* The types logComplianceEvent lets through.                                *)
validEventTypes == {"DIR-12", "PAS-3", "CHG-1", "MGT-14"}

ASSUME CalendarAssumption ==
  /\ Days \subseteq Nat
  /\ EventTypes \subseteq validEventTypes
  /\ MaxEvents \in Nat

LOOKBACK_DAYS  == 400
LOOKAHEAD_DAYS == 550
windowStart(now) == now - LOOKBACK_DAYS
windowEnd(now)   == now + LOOKAHEAD_DAYS

VARIABLES
  today,      (* the day it is *)
  company,    (* the stored profile *)
  logged,     (* the rows of CompanyEvent *)
  calendar,   (* the items of the last sync: rule, period and due date *)
  basis       (* the day and the profile the last sync worked from *)

vars == <<today, company, logged, calendar, basis>>

-------------------------------------------------------------------------------
(* The context holds the profile. The events regenerate attaches to the      *)
(* company are read into a local and left out of it: the rules find none.    *)
buildContext(c, events) == [events |-> {}] @@ c

(* Two financial years before the window's start to the year of its end.     *)
yearsSearched_WindowOnly(from, to) == financialYearsBetween(from, to)
yearsSearched(from, to) == financialYearsBetween(YearsEarlier(from, 2), to)

inWindow(o, from, to) == o.due >= from /\ o.due <= to

(* The occurrences of one year that a calendar keeps, of the rules named.    *)
keptFrom(occs, codes, ctx, from, to) ==
  LET firstFyEnd == firstFinancialYearEnd(ctx.incorporated)
      keeps(code, o) ==
        /\ inWindow(o, from, to)
        /\ o.end >= ctx.incorporated /\ o.due >= ctx.incorporated
        /\ code \in basedOnAnnualAccounts => o.end >= firstFyEnd
      row(code, o) == [code |-> code, gstin |-> o.gstin, key |-> o.key, due |-> o.due]
  IN  UNION {{row(code, o) : o \in {o \in occs[code] : keeps(code, o)}} : code \in codes}
keptOf(ctx, fy, from, to) ==
  keptFrom(occurrences(fy, ctx), applicableRules(ctx), ctx, from, to)

SameKey(r, s) == r.code = s.code /\ r.gstin = s.gstin /\ r.key = s.key

(* A key that an earlier year has given is not given again.                  *)
unseen(found) ==
  {f[2] : f \in {f \in found : ~\E g \in found : g[1] < f[1] /\ SameKey(f[2], g[2])}}

(* No date of incorporation, no calendar.                                    *)
generateCalendar(ctx, from, to) ==
  IF ctx.incorporated = NoDate THEN {}
  ELSE unseen(UNION {{<<fy, r>> : r \in keptOf(ctx, fy, from, to)} :
                       fy \in yearsSearched(from, to)})

-------------------------------------------------------------------------------
Init ==
  /\ today \in {d \in Days : \A e \in Days : d <= e}
  /\ company \in Profiles
  /\ logged = {}
  /\ calendar = {}
  /\ basis = [day |-> NoDate, company |-> company]

(* Any edit of the profile, of its registrations and people.                 *)
UpdateCompany ==
  /\ company' \in Profiles \ {company}
  /\ UNCHANGED <<today, logged, calendar, basis>>

LogComplianceEvent ==
  /\ Cardinality(logged) < MaxEvents
  /\ \E type \in EventTypes :
       logged' = logged \cup {[eventType |-> type, eventDate |-> today]}
  /\ UNCHANGED <<today, company, calendar, basis>>

(* Every route that edits syncs next, in a call of its own that may fail;    *)
(* a sync can be asked for on its own, and nothing does it by the clock.     *)
SyncCompany ==
  /\ calendar' = generateCalendar(buildContext(company, logged),
                                  windowStart(today), windowEnd(today))
  /\ basis' = [day |-> today, company |-> company]
  /\ UNCHANGED <<today, company, logged>>

NextDay ==
  /\ \E d \in Days : /\ d > today
                     /\ \A e \in Days : e > today => d <= e
                     /\ today' = d
  /\ UNCHANGED <<company, logged, calendar, basis>>

Next == UpdateCompany \/ LogComplianceEvent \/ SyncCompany \/ NextDay

Spec == Init /\ [][Next]_vars

-------------------------------------------------------------------------------
(* The law's dates, read off the day: what falls due on day d, for the rules  *)
(* below, which between them use every kind of schedule. Nothing here walks   *)
(* through financial years, as the code does.                                 *)
firstAccounts(c) == utcDate(YearOf(c.incorporated) + 1, 3, 31)

agmDay(fy, c) ==
  IF c.agm # NoDate /\ financialYearOf(c.agm) = fy + 1 THEN c.agm
  ELSE IF FyEnd(fy) = firstAccounts(c) THEN utcDate(fy + 1, 12, 31)
  ELSE utcDate(fy + 1, 9, 30)

lastDayOf(key, due) ==
  CASE key.kind \in {"FY", "AT"} -> utcDate(key.year + 1, 3, 31)
    [] key.kind = "Q" /\ key.part < 4 -> endOfMonth(key.year, 3 * key.part + 3)
    [] key.kind = "H" /\ key.part < 2 -> utcDate(key.year, 9, 30)
    [] key.kind \in {"Q", "H"}       -> utcDate(key.year + 1, 3, 31)
    [] key.kind = "M"                -> endOfMonth(key.year, key.part)
    [] OTHER                         -> due

StatutoryDues(d, c) ==
  LET y  == YearOf(d)
      m  == MonthOf(d)
      fy == financialYearOf(d)
      on(month, day) == m = month /\ DayOf(d) = day
      only(key, cond) == IF cond THEN {[gstin |-> "", key |-> key]} ELSE {}
      agmPlus(n) == {[gstin |-> "", key |-> FyKey(g)] :
                       g \in {g \in (fy - 2)..fy : agmDay(g, c) + n = d}}
      monthBefore   == IF m = 1 THEN MonthKey(y - 1, 12) ELSE MonthKey(y, m - 1)
      quarterBefore == IF m <= 4 THEN QuarterKey(y - 1, IF m = 1 THEN 3 ELSE 4)
                       ELSE QuarterKey(y, IF m = 7 THEN 1 ELSE 2)
      quarterEnded  == m \in {1, 4, 7, 10}
      perReg(freq, key, Cond(_)) ==
        {[gstin |-> g.gstin, key |-> key] :
           g \in {g \in c.gst : g.isActive /\ g.filingFrequency = freq /\ Cond(g)}}
  IN [ MCA_AOC4       |-> agmPlus(30),
       MCA_AGM        |-> only(FyKey(fy - 1),
                               d = (IF FyEnd(fy - 1) = firstAccounts(c)
                                    THEN utcDate(fy, 12, 31) ELSE utcDate(fy, 9, 30))),
       MCA_MSME1      |-> only(HalfKey(fy, 1), on(10, 31))
                            \cup only(HalfKey(fy - 1, 2), on(4, 30)),
       MCA_MBP1       |-> only(FyKey(fy), on(4, 30)),
       MCA_BOARD_MEETING |-> UNION {only(QuarterKey(fy, q), d = lastDayOf(QuarterKey(fy, q), d)) :
                                      q \in 1..4},
       MCA_INC20A     |-> only([kind |-> "ONCE", year |-> 0, part |-> 0],
                               d = c.incorporated + 180),
       LLP_FORM8      |-> only(FyKey(fy - 1), on(10, 30)),
       GST_GSTR3B_MONTHLY |-> perReg("MONTHLY", monthBefore, LAMBDA g : DayOf(d) = 20),
       GST_GSTR3B_QRMP    |-> perReg("QRMP", quarterBefore, LAMBDA g :
                                quarterEnded /\ DayOf(d) = qrmpGstr3bDueDay(g.stateCode)),
       GST_PMT06      |-> perReg("QRMP", monthBefore, LAMBDA g : ~quarterEnded /\ DayOf(d) = 25),
       GST_GSTR9      |-> only(FyKey(fy - 1), on(12, 31)),
       IT_ADVANCE_TAX |-> UNION {only([kind |-> "AT", year |-> fy, part |-> i],
                                      on(<<6, 9, 12, 3>>[i], 15)) : i \in 1..4},
       IT_TDS_PAYMENT |-> only(monthBefore, (DayOf(d) = 7 /\ m # 4) \/ on(4, 30)),
       IT_TDS_RETURN  |-> only(QuarterKey(fy, 1), on(7, 31)) \cup only(QuarterKey(fy, 2), on(10, 31))
                            \cup only(QuarterKey(fy, 3), on(1, 31))
                            \cup only(QuarterKey(fy - 1, 4), on(5, 31)),
       IT_ITR_AUDITED |-> only(FyKey(fy - 1), on(10, 31)) ]

owed(c, from, to) ==
  LET rules == applicableRules(c) IN
  UNION {LET dues == StatutoryDues(d, c)
         IN  UNION {{[code |-> code, gstin |-> o.gstin, key |-> o.key, due |-> d] :
                       o \in {o \in dues[code] :
                               /\ lastDayOf(o.key, d) >= c.incorporated
                               /\ code \in basedOnAnnualAccounts =>
                                    lastDayOf(o.key, d) >= firstAccounts(c)}} :
                      code \in DOMAIN dues \cap rules} :
           d \in (IF from < c.incorporated THEN c.incorporated ELSE from)..to}

-------------------------------------------------------------------------------
Fresh == basis.day = today /\ basis.company = company

(* generator.ts:38-44, 91-93: a filing of one financial year falls due in     *)
(* another, and years may be absorbed by the first. A fresh calendar holds    *)
(* what is owed in its window - month ends, leap days, year ends and young    *)
(* companies included - and of these rules nothing else.                      *)
OwedIsThere ==
  LET rules == DOMAIN StatutoryDues(today, company)
  IN  Fresh =>
        IF company.incorporated = NoDate THEN calendar = {}
        ELSE {r \in calendar : r.code \in rules} =
               owed(company, windowStart(today), windowEnd(today))

(* Rules that stand in for one another by entity, size, audit or scheme: of   *)
(* each family a company owes exactly one filing for a period, whatever its   *)
(* profile - none is missed between two rules and none is owed twice.         *)
OneReturnAPeriod ==
  LET exactlyOne(family, Covers(_)) ==
        Cardinality({r \in calendar : r.code \in family /\ Covers(r)}) = 1
      years == {fy \in FirstYear..LastYear :
                  /\ FyEnd(fy) >= windowStart(today)
                  /\ FyEnd(fy) <= windowEnd(today) - 430
                  /\ FyEnd(fy) >= firstAccounts(company)}
      months == {k \in {MonthKey(y, m) : y \in FirstYear..LastYear, m \in 1..12} :
                   /\ utcDate(k.year, k.part, 1) >= windowStart(today)
                   /\ utcDate(k.year, k.part, 1) >= company.incorporated
                   /\ utcDate(k.year, k.part, 1) <= windowEnd(today) - 185}
      inPeriod(key, k) ==
        LET fy == financialYearOf(utcDate(k.year, k.part, 1))
        IN  \/ key = k
            \/ key.kind = "Q" /\ key.year = fy /\ key.part = (((k.part + 8) % 12) \div 3) + 1
            \/ key.kind = "H" /\ key.year = fy /\ key.part = (((k.part + 8) % 12) \div 6) + 1
  IN  (Fresh /\ company.incorporated # NoDate) =>
        /\ \A fy \in years :
             LET ofYear(r) == r.key = FyKey(fy)
             IN  /\ exactlyOne({"IT_ITR_AUDITED", "IT_ITR_TP", "IT_ITR_NON_AUDITED"}, ofYear)
                 /\ company.entity \in CompaniesAct =>
                      /\ exactlyOne({"MCA_AOC4", "MCA_AOC4_OPC"}, ofYear)
                      /\ exactlyOne({"MCA_MGT7", "MCA_MGT7A"}, ofYear)
        /\ \A k \in months :
             /\ company.entity \in CompaniesAct =>
                  exactlyOne({"MCA_BOARD_MEETING", "MCA_BOARD_MEETING_SMALL"},
                             LAMBDA r : inPeriod(r.key, k))
             /\ \A g \in activeGst(company) :
                  exactlyOne({"GST_GSTR3B_MONTHLY", "GST_GSTR3B_QRMP", "GST_CMP08"},
                             LAMBDA r : r.gstin = g.gstin /\ inPeriod(r.key, k))

(* What the law owes is in the calendar, once: the two readings of a fresh    *)
(* calendar, filing by filing and family by family, hold together.            *)
CalendarIsStatutory == OwedIsThere /\ OneReturnAPeriod

(* compliance.service.ts:303-316 withdraws what the engine no longer yields.  *)
(* When only time has passed between two syncs, the engine must not drop,     *)
(* invent or move anything that is due in both windows.                       *)
WindowSlides ==
  [][(basis' # basis /\ basis.day # NoDate /\ basis'.company = basis.company) =>
       {r \in calendar  : r.due >= windowStart(basis'.day)} =
       {r \in calendar' : r.due <= windowEnd(basis.day)}]_vars
===============================================================================
