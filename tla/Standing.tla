------------------------------- MODULE Standing -------------------------------
(***************************************************************************)
(* What the dashboard makes of a company: which registrations it holds or  *)
(* lacks, whether its directors' DINs still stand, and its score. All of   *)
(* it is read off the profile and the calendar, by the service and, from   *)
(* copies of the same engine files, by the edge.                           *)
(*                                                                         *)
(* A profile's facts also name the numbers it records: cin, llpin, pan,    *)
(* dpiit, fssai, tradeLicense, and the two words its business is known by, *)
(* food and premises.                                                      *)
(***************************************************************************)
EXTENDS EdgeCalendar, FiniteSetsExt

(* An item of the calendar as the dashboard selects it.                      *)
Item(r, status, completedAt) ==
  [code |-> r.code, gstin |-> r.gstin, key |-> r.key, due |-> r.due,
   status |-> status, completedAt |-> completedAt]

-------------------------------------------------------------------------------
(* The DIR-3 KYC record: the newest filing that has fallen due decides.      *)
landedOf_Newest(filings, now) == filings
landedOf(filings, now) == {f \in filings : f.due <= now}
newest(filings) == CHOOSE f \in filings : \A g \in filings : g.due <= f.due

Done == {"COMPLETED", "WAIVED"}

deriveDinStatus(director, kycFilings, asOf) ==
  LET elapsed == landedOf(kycFilings, asOf)
  IN  CASE ~director.din -> "UNKNOWN"
        [] director.resignedOn # NoDate /\ director.resignedOn <= asOf -> "UNKNOWN"
        [] elapsed # {} -> IF newest(elapsed).status \in Done THEN "ACTIVE" ELSE "DEACTIVATED"
        [] OTHER -> IF \E f \in kycFilings : f.due > asOf THEN "DUE" ELSE "UNKNOWN"
edgeDeriveDinStatus(director, kycFilings, asOf) == deriveDinStatus(director, kycFilings, asOf)

(* The card beside the chips: the dashboard's own reading of the same rows.  *)
mcaKyc(kycItems, now) ==
  LET landed == {i \in kycItems : i.due <= now /\ \A j \in kycItems : j.due <= now => j.due <= i.due}
  IN  CASE kycItems = {} -> "NOT_APPLICABLE"
        [] landed = {}   -> "NOT_DUE"
        [] OTHER         -> IF \E i \in landed : i.status \in Done THEN "MET" ELSE "NOT_MET"

-------------------------------------------------------------------------------
(* The number people quote for the entity, where there is one.               *)
registrationNumber(c) ==
  IF c.entity = "LLP" THEN c.facts \cap {"llpin"}
  ELSE IF "cin" \in c.facts THEN {"cin"} ELSE c.facts \cap {"pan"}

ProfileNumbers == {"udyam", "dpiit", "epfo", "esic", "shops", "fssai",
                   "professionalTax", "tradeLicense"}

companyProfile(c, kycItems, now) ==
  [entityType |-> c.entity, annualTurnover |-> c.turnover, employeeCount |-> c.employees,
   stateCode |-> c.state, gstins |-> c.gst, words |-> c.facts \cap {"food", "premises"},
   registrationNumber |-> registrationNumber(c),
   numbers |-> c.facts \cap ProfileNumbers,
   dinStatus |-> deriveDinStatus([din |-> "din" \in c.facts, resignedOn |-> NoDate], kycItems, now),
   mcaKyc |-> mcaKyc(kycItems, now)]

(* The edge takes any of the three numbers, reads the food licence from a    *)
(* column that is not there, and never looks whether a KYC has been met.     *)
edgeCompanyProfile(c, kycItems, now) ==
  [companyProfile(c, kycItems, now) EXCEPT
     !.registrationNumber = c.facts \cap {"llpin", "cin", "pan"},
     !.numbers = @ \ {"fssai"},
     !.mcaKyc = "NOT_DUE",
     !.dinStatus = edgeDeriveDinStatus([din |-> "din" \in c.facts, resignedOn |-> NoDate],
                                       kycItems, now)]

-------------------------------------------------------------------------------
Verdict(id, held, required) ==
  [id |-> id, status |-> IF held THEN "REGISTERED"
                         ELSE IF required THEN "MANDATORY" ELSE "ELIGIBLE"]
Eligible(condition, verdict) == IF condition THEN {verdict} ELSE {}

incorporationVerdicts(p) ==
  LET held == p.registrationNumber # {}
  IN  Eligible(p.entityType \in CompaniesAct, Verdict("mca_cin", held, TRUE))
        \cup Eligible(p.entityType = "LLP", Verdict("mca_llpin", held, TRUE))

gstVerdict(p)  == Verdict("gst", \E g \in p.gstins : g.isActive, p.annualTurnover >= 20)
msmeVerdict(p) == Verdict("msme", "udyam" \in p.numbers, FALSE)
pfVerdict(p)   == Verdict("pf", "epfo" \in p.numbers, p.employeeCount >= 20)

esiVerdict_OneThreshold(p) == Verdict("esi", "esic" \in p.numbers, p.employeeCount >= 10)
esiVerdict(p) ==
  Verdict("esi", "esic" \in p.numbers,
          p.employeeCount >= (IF p.stateCode \in {"MH", "CH"} THEN 20 ELSE 10))

dpiitVerdict(p) ==
  Eligible(p.entityType \in {"PRIVATE_LIMITED", "LLP", "PARTNERSHIP"},
           Verdict("dpiit", "dpiit" \in p.numbers, FALSE))

(* What a shop or a kitchen needs.                                           *)
premisesVerdicts(p) ==
  UNION {Eligible(n \in p.numbers \/ p.words # {}, Verdict(id, n \in p.numbers, TRUE)) :
           <<id, n>> \in {<<"shop_est", "shops">>, <<"trade_license", "tradeLicense">>}}
fssaiVerdict(p) ==
  Eligible("fssai" \in p.numbers \/ "food" \in p.words,
           Verdict("fssai", "fssai" \in p.numbers, TRUE))

(* Not the list the calendar's rule goes by.                                 *)
REGISTRATION_PT_STATES ==
  {"AP", "AS", "BR", "CG", "GJ", "JH", "KA", "KL", "MP", "MH", "MN", "ML", "MZ",
   "NL", "PY", "SK", "TN", "TG", "TR", "WB"}
ptVerdict(p) ==
  Eligible("professionalTax" \in p.numbers \/ p.stateCode \in REGISTRATION_PT_STATES,
           Verdict("pt", "professionalTax" \in p.numbers, TRUE))

evaluateRegistrations(p) ==
  incorporationVerdicts(p) \cup {gstVerdict(p), msmeVerdict(p), pfVerdict(p), esiVerdict(p)}
    \cup dpiitVerdict(p) \cup premisesVerdicts(p) \cup fssaiVerdict(p) \cup ptVerdict(p)

edgeTaxAndPayrollVerdicts(p) ==
  incorporationVerdicts(p) \cup {gstVerdict(p), msmeVerdict(p), pfVerdict(p), esiVerdict(p)}
edgeOtherVerdicts(p) ==
  dpiitVerdict(p) \cup premisesVerdicts(p) \cup fssaiVerdict(p) \cup ptVerdict(p)
edgeEvaluateRegistrations(p) == edgeTaxAndPayrollVerdicts(p) \cup edgeOtherVerdicts(p)

-------------------------------------------------------------------------------
(* What each obligation is worth. The severities are the catalogue's.        *)
critical ==
  {"MCA_AOC4", "MCA_AOC4_OPC", "MCA_MGT7", "MCA_MGT7A", "MCA_DIR3KYC", "MCA_DIR12", "MCA_CHG1",
   "MCA_CHG4", "MCA_AGM", "MCA_INC20A", "LLP_FORM11", "LLP_FORM8", "GST_GSTR3B_MONTHLY",
   "GST_GSTR3B_QRMP", "IT_TDS_PAYMENT", "IT_TAX_AUDIT", "IT_FORM3CEB", "IT_ITR_AUDITED",
   "IT_ITR_TP", "IT_ITR_NON_AUDITED", "LABOUR_EPF_ECR", "LABOUR_ESI_CONTRIBUTION"}
medium ==
  {"MCA_BOARD_MEETING", "MCA_BOARD_MEETING_SMALL", "MCA_MBP1", "GST_ITC_RECON", "IT_FORM16A",
   "IT_SFT", "LABOUR_BONUS_FORM_D", "LABOUR_PROFESSIONAL_TAX", "LABOUR_SHOPS_ESTABLISHMENT",
   "MSME_SUPPLIER_DECLARATIONS", "MSME_UDYAM_UPDATE"}
SEVERITY_WEIGHT(code) ==
  CASE code \in critical -> 10 [] code \in medium -> 3 [] code = "GST_IFF" -> 1 [] OTHER -> 6

rulesByAuthority(c) ==
  [GST        |-> DOMAIN gstReturnsWhen(c) \cup DOMAIN gstOthersWhen(c),
   INCOME_TAX |-> DOMAIN taxPaymentsWhen(c) \cup DOMAIN taxReturnsWhen(c),
   LABOUR     |-> DOMAIN labourWhen(c),
   MSME       |-> DOMAIN msmeWhen(c)]
authorityOf(code, codes) ==
  IF \E a \in DOMAIN codes : code \in codes[a]
  THEN CHOOSE a \in DOMAIN codes : code \in codes[a] ELSE "MCA"

scored(i, asOf) == i.status # "WAIVED" /\ i.due <= asOf /\ i.due >= asOf - 365

(* Credit in halves: two when filed by the day after, one when filed late.   *)
credit(i) ==
  IF i.completedAt = NoDate THEN 0 ELSE IF i.completedAt <= i.due + 1 THEN 2 ELSE 1

(* Math.round of the share earned: half goes up.                             *)
percent(halves, possible) ==
  IF possible = 0 THEN 100 ELSE (100 * halves + possible) \div (2 * possible)

scoreOf(items) ==
  percent(MapThenSumSet(LAMBDA i : SEVERITY_WEIGHT(i.code) * credit(i), items),
          MapThenSumSet(LAMBDA i : SEVERITY_WEIGHT(i.code), items))

computeComplianceScore(items, c, asOf) ==
  LET counted == {i \in items : scored(i, asOf)}
      codes   == rulesByAuthority(c)
      of(a)   == {i \in counted : authorityOf(i.code, codes) = a}
  IN [score      |-> scoreOf(counted),
      byAuthority |-> [a \in {"MCA", "GST", "INCOME_TAX", "LABOUR", "MSME"} |-> scoreOf(of(a))],
      late       |-> Cardinality({i \in counted : credit(i) = 1}),
      overdueNow |-> Cardinality({i \in counted : credit(i) = 0}),
      upcoming   |-> Cardinality({i \in items : i.status # "WAIVED" /\ i.due > asOf})]
edgeComputeComplianceScore(items, c, asOf) == computeComplianceScore(items, c, asOf)

(* The lists beside it, before they are cut to what fits the page.           *)
getOverview(items, now) ==
  [overdue |-> {i \in items : i.status = "OVERDUE"},
   dueSoon |-> {i \in items : i.status \in {"UPCOMING", "DUE"} /\ i.due >= now /\ i.due <= now + 30}]

(* The edge goes by the dates: what was waived is late with the rest.        *)
edgeOverview(items, now) ==
  LET notFiled == {i \in items : i.status # "COMPLETED"}
  IN [overdue |-> {i \in notFiled : i.due < now},
      dueSoon |-> {i \in notFiled : i.due >= now /\ i.due <= now + 14}]

-------------------------------------------------------------------------------
(* registrations.ts:24-247 and the catalogue's conditions are written apart. *)
(* Wherever a fresh calendar is shown beside the verdicts they agree: the    *)
(* returns are in the calendar exactly when the registration is held and     *)
(* would else be called for; what is MANDATORY brings its returns once it is *)
(* recorded; what is only ELIGIBLE for its size brings none. Professional    *)
(* tax is left out in Chhattisgarh and without employees. The edge differs   *)
(* on the food licence, and on an LLP whose LLPIN is missing.                *)
RegistrationsMatchCalendar ==
  LET statusIn(verdicts, id) == {v.status : v \in {v \in verdicts : v.id = id}}
      ofCompany(c) == evaluateRegistrations(companyProfile(c, {}, today))
      with(n)    == [company EXCEPT !.facts = @ \cup {n}]
      without(n) == [company EXCEPT !.facts = @ \ {n}]
      held(n)    == n \in company.facts
      inCalendar(code) == \E r \in calendar : r.code = code
      bySize == {<<"pf", "epfo", "LABOUR_EPF_ECR">>, <<"esi", "esic", "LABOUR_ESI_CONTRIBUTION">>}
      levied == {<<"pt", "professionalTax", "LABOUR_PROFESSIONAL_TAX">>}
      edges  == edgeEvaluateRegistrations(edgeCompanyProfile(company, {}, today))
      told(id, status) == [id |-> id, status |-> status]
  IN  (Fresh /\ company.incorporated # NoDate) =>
        /\ \A <<id, n, code>> \in bySize \cup
             (IF company.employees >= 1 /\ company.state # "CG" THEN levied ELSE {}) :
             /\ inCalendar(code) <=>
                  held(n) /\ "MANDATORY" \in statusIn(ofCompany(without(n)), id)
             /\ "MANDATORY" \in statusIn(ofCompany(company), id) => code \in applicableRules(with(n))
             /\ "ELIGIBLE" \in statusIn(ofCompany(company), id) => code \notin applicableRules(with(n))
        /\ inCalendar("GST_ITC_RECON") <=> "REGISTERED" \in statusIn(ofCompany(company), "gst")
        /\ inCalendar("MSME_UDYAM_UPDATE") <=> "REGISTERED" \in statusIn(ofCompany(company), "msme")
        /\ company.employees >= 1 =>
             (inCalendar("LABOUR_SHOPS_ESTABLISHMENT")
                <=> "REGISTERED" \in statusIn(ofCompany(company), "shop_est"))
        /\ inCalendar("MCA_MBP1") <=> statusIn(ofCompany(company), "mca_cin") # {}
        /\ (ofCompany(company) \ edges) \cup (edges \ ofCompany(company)) \subseteq
             [id : {"fssai"}, status : {"REGISTERED", "MANDATORY"}] \cup
             (IF held("llpin") THEN {}
              ELSE {told("mca_llpin", "REGISTERED"), told("mca_llpin", "MANDATORY")})

(* The days a history of filings is varied on: those around today.           *)
NearDays == 31

deriveStatusValue(due, asOf) ==
  IF due < asOf THEN "OVERDUE" ELSE IF due - asOf <= 7 THEN "DUE" ELSE "UPCOMING"

(* Rule 12A, dinStatus.ts:8-11: a DIN stands when the KYC due on the last 30 *)
(* September, of a company that existed on the 31 March before it, was done. *)
(* In every history of DIR-3 KYC filings chips and card say so, and agree.   *)
DinFollowsKyc ==
  LET septembers == {utcDate(y, 9, 30) : y \in FirstYear..LastYear}
      held(d) == utcDate(YearOf(d), 3, 31) >= company.incorporated
      last == {d \in septembers : d <= today /\ today < utcDate(YearOf(d) + 1, 9, 30) /\ held(d)}
      kyc == {r \in calendar : r.code = "MCA_DIR3KYC"}
  IN  (Fresh /\ company.incorporated # NoDate /\ "din" \in company.facts) =>
        \A done \in SUBSET kyc :
          LET filings == {IF r \in done THEN Item(r, "COMPLETED", today)
                          ELSE Item(r, deriveStatusValue(r.due, today), NoDate) : r \in kyc}
              p == companyProfile(company, filings, today)
          IN  /\ p.dinStatus = IF last = {} THEN "DUE"
                               ELSE IF \E r \in done : r.due \in last THEN "ACTIVE"
                               ELSE "DEACTIVATED"
              /\ p.mcaKyc = (CASE p.dinStatus = "DUE" -> "NOT_DUE"
                               [] p.dinStatus = "ACTIVE" -> "MET"
                               [] OTHER -> "NOT_MET")
              /\ edgeCompanyProfile(company, filings, today).dinStatus = p.dinStatus

(* score.ts:70-84. Whatever else was filed, closing one more obligation that *)
(* has fallen due - in time, late or by waiving it - lowers no score, and    *)
(* one not yet due moves none. What counts as missed is what is listed as    *)
(* overdue within the year, and what falls due today. The edge scores alike  *)
(* and lists as overdue what was waived.                                     *)
ScoreIsEarned ==
  LET closed(r, how) ==
        CASE how = "inTime" -> Item(r, "COMPLETED", IF r.due <= today THEN r.due ELSE today)
          [] how = "late"   -> Item(r, "COMPLETED", IF r.due <= today THEN today ELSE r.due)
          [] how = "waived" -> Item(r, "WAIVED", NoDate)
          [] OTHER          -> Item(r, deriveStatusValue(r.due, today), NoDate)
      history(x, how, rest) ==
        {IF r = x THEN closed(r, how)
         ELSE closed(r, IF r.due <= today THEN rest ELSE "open") : r \in calendar}
      near == {r \in calendar : /\ r.code \in {"MCA_DIR3KYC", "IT_TDS_PAYMENT", "GST_PMT06"}
                                /\ r.due >= today - NearDays /\ r.due <= today + NearDays}
      score(items) == computeComplianceScore(items, company, today)
  IN  Fresh =>
        \A x \in near, rest \in {"inTime", "open"} :
          LET before == score(history(x, "open", rest)) IN
          \A how \in {"inTime", "late", "waived"} :
            LET items  == history(x, how, rest)
                after  == score(items)
                shown  == getOverview(items, today)
                edge   == edgeOverview(items, today)
            IN  /\ after.score >= before.score
                /\ \A a \in DOMAIN after.byAuthority :
                     after.byAuthority[a] >= before.byAuthority[a]
                /\ x.due > today => /\ after.score = before.score
                                    /\ after.overdueNow = before.overdueNow
                /\ after.overdueNow =
                     Cardinality({i \in shown.overdue : i.due >= today - 365})
                       + Cardinality({i \in items : i.due = today /\ i.status = "DUE"})
                /\ edgeComputeComplianceScore(items, company, today) = after
                /\ edge.overdue = shown.overdue \cup
                                    {i \in items : i.status = "WAIVED" /\ i.due < today}

(* The two verdicts read off the filings of a fresh calendar.                *)
StandingFollowsFilings == DinFollowsKyc /\ ScoreIsEarned
===============================================================================
