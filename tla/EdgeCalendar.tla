----------------------------- MODULE EdgeCalendar -----------------------------
(***************************************************************************)
(* The second implementation of the calendar: supabase/functions keeps a   *)
(* copy of the engine and runs it on a company's row with a window of its  *)
(* own. Compared line by line, the copy's dates, schedules, conditions and *)
(* catalogue are those of Schedules and Catalog; its generator, the rules  *)
(* it reads and the context it is given are written out here.              *)
(***************************************************************************)
EXTENDS Calendar

EDGE_LOOKBACK_DAYS  == 365
EDGE_LOOKAHEAD_DAYS == 365

(* A part of the catalogue: the occurrences of those of its rules that apply. *)
edgeEvaluated(when, occs) == [code \in {r \in DOMAIN when : when[r]} |-> occs[code]]

edgeCompanyFilings(fy, c) == edgeEvaluated(companyFilingsWhen(c), companyFilings(fy, c))
edgeEventFilings(c)       == edgeEvaluated(eventFilingsWhen(c), eventFilings(c))
edgeMeetings(fy, c)       == edgeEvaluated(meetingsWhen(c), meetings(fy, c))
edgeLlpFilings(fy, c)     == edgeEvaluated(llpWhen(c), llpFilings(fy))
edgeGstReturns(fy, c)     == edgeEvaluated(gstReturnsWhen(c), gstReturns(fy, c))
edgeGstOthers(fy, c)      == edgeEvaluated(gstOthersWhen(c), gstOthers(fy, c))
edgeTaxPayments(fy, c)    == edgeEvaluated(taxPaymentsWhen(c), taxPayments(fy))
edgeTaxReturns(fy, c)     == edgeEvaluated(taxReturnsWhen(c), taxReturns(fy))
edgeMsmeRules(fy, c)      == edgeEvaluated(msmeWhen(c), msmeOccurrences(fy))
edgeLabourRules(fy, c)    == edgeEvaluated(labourWhen(c), labourOccurrences(fy))

(* No overlay is read: the edge catalogue is the committed one.              *)
edgeAllRules(fy, c) ==
  edgeCompanyFilings(fy, c) @@ edgeEventFilings(c) @@ edgeMeetings(fy, c)
    @@ edgeLlpFilings(fy, c) @@ edgeGstReturns(fy, c) @@ edgeGstOthers(fy, c)
    @@ edgeTaxPayments(fy, c) @@ edgeTaxReturns(fy, c)
    @@ edgeMsmeRules(fy, c) @@ edgeLabourRules(fy, c)

(* Unlike buildContext, the events of the company reach the rules.           *)
buildContextFromRow_NoAgm(c, events) == [events |-> events, agm |-> NoDate] @@ c
buildContextFromRow(c, events) == [events |-> events] @@ c

edgeSpanStart(from) == YearsEarlier(from, 2)

edgeKeeps(code, o, ctx, from, to) ==
  /\ o.due >= from /\ o.due <= to
  /\ o.end >= ctx.incorporated /\ o.due >= ctx.incorporated
  /\ code \in basedOnAnnualAccounts => o.end >= firstFinancialYearEnd(ctx.incorporated)

edgeItemsOf(occs, ctx, from, to) ==
  UNION {{[code |-> code, gstin |-> o.gstin, key |-> o.key, due |-> o.due] :
            o \in {o \in occs[code] : edgeKeeps(code, o, ctx, from, to)}} :
           code \in DOMAIN occs}

edgeGenerateCalendar(ctx, from, to) ==
  IF ctx.incorporated = NoDate THEN {}
  ELSE unseen(UNION {{<<fy, r>> : r \in edgeItemsOf(edgeAllRules(fy, ctx), ctx, from, to)} :
                       fy \in financialYearsBetween(edgeSpanStart(from), to)})

(* What syncCompanyCalendar upserts into the rows that are there: a row keeps *)
(* its place and takes the new day, none is ever withdrawn.                  *)
edgeUpserted(rows, generated) ==
  generated \cup {r \in rows : ~\E g \in generated : SameKey(g, r)}

syncCompanyCalendar(rows, c, events, now) ==
  edgeUpserted(rows, edgeGenerateCalendar(buildContextFromRow(c, events),
                                          now - EDGE_LOOKBACK_DAYS,
                                          now + EDGE_LOOKAHEAD_DAYS))

(* GET explain and GET applicability put together a context of their own, in  *)
(* which no event is loaded, and answer from it, not from the rows.           *)
edgeViewContext(c) == [events |-> {}] @@ c
edgeApplicability(c) == applicableRules(edgeViewContext(c))

-------------------------------------------------------------------------------
(* sync.ts:5-15: both runtimes rebuild the same calendar. Run by the edge on  *)
(* a calendar that the service has just made, a sync moves no deadline, drops *)
(* nothing and invents nothing; the one thing it adds is the answer to each   *)
(* logged event, which the service owes but leaves out.  And every row that   *)
(* is then on the calendar is of a rule that the edge, asked, says applies.   *)
TwinsAgree ==
  LET after == syncCompanyCalendar(calendar, company, logged, today)
      answers == {[code |-> code, gstin |-> "",
                   key |-> [kind |-> e.eventType, year |-> 0, part |-> e.eventDate],
                   due |-> e.eventDate + 30] :
                    code \in DOMAIN eventRules, e \in logged}
      answered == {r \in answers : /\ eventRules[r.code] = r.key.kind
                                   /\ company.entity \in CompaniesAct
                                   /\ r.due >= company.incorporated
                                   /\ r.due >= today - EDGE_LOOKBACK_DAYS
                                   /\ r.due <= today + EDGE_LOOKAHEAD_DAYS}
  IN  (Fresh /\ company.incorporated # NoDate) =>
        /\ after = calendar \cup answered
        /\ {r.code : r \in after} \subseteq edgeApplicability(company)
===============================================================================
