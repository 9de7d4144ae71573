-------------------------------- MODULE Catalog -------------------------------
(***************************************************************************)
(* The rule catalogue of src/src/engine/catalog: for every rule, when it   *)
(* applies to a company and which occurrences a financial year has.        *)
(*                                                                         *)
(* A company c has: entity, incorporated and agm (a date or NoDate),       *)
(* turnover and capital in lakhs of rupees, employees, state, gst (its     *)
(* registrations), facts (the yes-or-no answers of its profile and the     *)
(* registrations it holds) and events.                                     *)
(***************************************************************************)
EXTENDS Schedules, TLC

CRORE == 100

CompaniesAct == {"PRIVATE_LIMITED", "PUBLIC_LIMITED", "OPC", "SECTION_8"}
HoldsAgm     == CompaniesAct \ {"OPC"}
Firms        == {"LLP", "PARTNERSHIP", "PROPRIETORSHIP", "UNREGISTERED"}

isSmallCompany(c) ==
  c.entity = "PRIVATE_LIMITED" /\ c.capital <= 4 * CRORE /\ c.turnover <= 40 * CRORE
crossesTaxAuditThreshold(c) ==
  c.turnover >= (IF "lowCash" \in c.facts THEN 10 * CRORE ELSE CRORE)
llpCrossesAuditThreshold(c) == c.turnover > 40 \/ c.capital > 25

(* Obligations 30 days after an event the company logged.                    *)
fromEvents(type, c) ==
  {Occurrence([kind |-> type, year |-> 0, part |-> e.eventDate],
              e.eventDate + 30, e.eventDate + 30) :
     e \in {e \in c.events : e.eventType = type}}

-------------------------------------------------------------------------------
(* Filings every company owes with its accounts, people or dues.             *)
companyFilingsWhen(c) ==
  LET company == c.entity \in CompaniesAct
  IN [ MCA_AOC4      |-> c.entity \in HoldsAgm,
       MCA_AOC4_OPC  |-> c.entity = "OPC",
       MCA_MGT7      |-> c.entity \in HoldsAgm /\ ~isSmallCompany(c),
       MCA_MGT7A     |-> c.entity = "OPC" \/ isSmallCompany(c),
       MCA_ADT1      |-> company,
       MCA_DIR3KYC   |-> "din" \in c.facts,
       MCA_DPT3      |-> company /\ "deposits" \in c.facts,
       MCA_MSME1     |-> company /\ "msmeSuppliers" \in c.facts ]

companyFilings(fy, c) ==
  [ MCA_AOC4      |-> annualFromAgm(30, 10, 30, fy, c),
    MCA_AOC4_OPC  |-> OncePerFy(fy, FyEnd(fy) + 180),
    MCA_MGT7      |-> annualFromAgm(60, 11, 28, fy, c),
    MCA_MGT7A     |-> annualFromAgm(60, 11, 28, fy, c),
    MCA_ADT1      |-> annualFromAgm(15, 10, 14, fy, c),
    MCA_DIR3KYC   |-> annual(9, 30, fy),
    MCA_DPT3      |-> annual(6, 30, fy),
    MCA_MSME1     |-> halfYearly(<<utcDate(fy, 10, 31), dateAfterFy(fy, 4, 30)>>, fy) ]

(* Filings that answer an event: the rule and the type of event it waits for. *)
eventRules ==
  [ MCA_DIR12 |-> "DIR-12", MCA_PAS3 |-> "PAS-3", MCA_CHG1 |-> "CHG-1",
    MCA_MGT14 |-> "MGT-14", MCA_DIR11 |-> "DIR-11", MCA_CHG4 |-> "CHG-4",
    MCA_SH7   |-> "SH-7",   MCA_INC22 |-> "INC-22" ]
eventFilingsWhen(c) == [code \in DOMAIN eventRules |-> c.entity \in CompaniesAct]
eventFilings(c)     == [code \in DOMAIN eventRules |-> fromEvents(eventRules[code], c)]

(* Meetings, disclosures and the start of business.                          *)
meetingsWhen(c) ==
  LET company == c.entity \in CompaniesAct
      small   == c.entity = "OPC" \/ isSmallCompany(c)
  IN [ MCA_AGM                 |-> c.entity \in HoldsAgm,
       MCA_BOARD_MEETING       |-> company /\ ~small,
       MCA_BOARD_MEETING_SMALL |-> small,
       MCA_MBP1                |-> company,
       MCA_INC20A              |-> /\ c.entity \in CompaniesAct \ {"SECTION_8"}
                                   /\ c.capital > 0
                                   /\ c.incorporated # NoDate
                                   /\ c.incorporated >= utcDate(2018, 11, 2) ]

meetings(fy, c) ==
  LET ends(periods) == [i \in DOMAIN periods |-> periods[i].end]
  IN [ MCA_AGM                 |-> OncePerFy(fy, IF c.incorporated # NoDate /\ IsFirstFy(fy, c)
                                                 THEN addMonths(FyEnd(fy), 9)
                                                 ELSE dateAfterFy(fy, 9, 30)),
       MCA_BOARD_MEETING       |-> quarterly(ends(fyQuarters[fy]), fy),
       MCA_BOARD_MEETING_SMALL |-> halfYearly(ends(fyHalves[fy]), fy),
       MCA_MBP1                |-> annualWithin(4, 30, fy),
       MCA_INC20A              |-> oneTimeFromIncorporation(180, fy, c) ]

llpWhen(c) ==
  [ LLP_FORM11 |-> c.entity = "LLP",
    LLP_FORM8  |-> c.entity = "LLP",
    LLP_AUDIT  |-> c.entity = "LLP" /\ llpCrossesAuditThreshold(c) ]
llpFilings(fy) ==
  [ LLP_FORM11 |-> annual(5, 30, fy),
    LLP_FORM8  |-> annual(10, 30, fy),
    LLP_AUDIT  |-> annual(9, 30, fy) ]

-------------------------------------------------------------------------------
QRMP_GROUP_Y ==
  {"HP", "PB", "UK", "HR", "RJ", "UP", "BR", "SK", "AR", "NL", "MN", "MZ",
   "TR", "ML", "AS", "WB", "JH", "OD", "OR", "JK", "LA", "CH", "DL"}
qrmpGstr3bDueDay(state) == IF state \in QRMP_GROUP_Y THEN 24 ELSE 22

activeGst(c) == {g \in c.gst : g.isActive}
files(c, freq) == \E g \in activeGst(c) : g.filingFrequency = freq

gstReturnsWhen(c) ==
  [ GST_GSTR1_MONTHLY  |-> files(c, "MONTHLY"),
    GST_GSTR1_QRMP     |-> files(c, "QRMP"),
    GST_IFF            |-> files(c, "QRMP"),
    GST_GSTR3B_MONTHLY |-> files(c, "MONTHLY"),
    GST_GSTR3B_QRMP    |-> files(c, "QRMP"),
    GST_PMT06          |-> files(c, "QRMP") ]

gstOthersWhen(c) ==
  LET registered == activeGst(c) # {}
  IN [ GST_ITC_RECON      |-> registered,
       GST_CMP08          |-> files(c, "COMPOSITION"),
       GST_GSTR4          |-> files(c, "COMPOSITION"),
       GST_GSTR9          |-> registered /\ c.turnover >= 2 * CRORE,
       GST_GSTR9C         |-> registered /\ c.turnover >= 5 * CRORE,
       GST_GSTR7          |-> \E g \in activeGst(c) : g.isTdsDeductor,
       GST_GSTR8          |-> \E g \in activeGst(c) : g.isEcommerceOperator,
       GST_EINVOICE_READINESS |-> registered /\ c.turnover >= 5 * CRORE ]

(* A monthly schedule for the registrations that file with frequency freq,   *)
(* and a quarterly one due in the month after the quarter.                   *)
monthlyFor(freq, day, fy, c) ==
  perGstin([reg \in c.gst |-> IF reg.filingFrequency = freq THEN monthly(day, fy) ELSE {}], c)
quarterlyFor(freq, days, fy, c) ==
  LET due(reg) == [q \in 1..4 |-> shiftMonths(fyQuarters[fy][q].end, 1, days[reg])]
  IN  perGstin([reg \in c.gst |-> IF reg.filingFrequency = freq
                                  THEN quarterly(due(reg), fy) ELSE {}], c)
firstTwoOfQuarter(os) == {o \in os : o.key.part \notin {6, 9, 12, 3}}

gstReturns(fy, c) ==
  [ GST_GSTR1_MONTHLY  |-> monthlyFor("MONTHLY", 11, fy, c),
    GST_GSTR1_QRMP     |-> quarterlyFor("QRMP", [g \in c.gst |-> 13], fy, c),
    GST_IFF            |-> firstTwoOfQuarter(monthlyFor("QRMP", 13, fy, c)),
    GST_GSTR3B_MONTHLY |-> monthlyFor("MONTHLY", 20, fy, c),
    GST_GSTR3B_QRMP    |-> quarterlyFor("QRMP", [g \in c.gst |-> qrmpGstr3bDueDay(g.stateCode)],
                                        fy, c),
    GST_PMT06          |-> firstTwoOfQuarter(monthlyFor("QRMP", 25, fy, c)) ]

gstOthers(fy, c) ==
  [ GST_ITC_RECON      |-> monthly(14, fy),
    GST_CMP08          |-> quarterlyFor("COMPOSITION", [g \in c.gst |-> 18], fy, c),
    GST_GSTR4          |-> annual(6, 30, fy),
    GST_GSTR9          |-> annual(12, 31, fy),
    GST_GSTR9C         |-> annual(12, 31, fy),
    GST_GSTR7          |-> monthly(10, fy),
    GST_GSTR8          |-> monthly(10, fy),
    GST_EINVOICE_READINESS |-> annualWithin(4, 30, fy) ]

-------------------------------------------------------------------------------
(* Firms are audited above the threshold, companies always; whoever has      *)
(* transfer-pricing dealings files a month later.                            *)
isUnauditedFirm(c) == c.entity \in Firms /\ ~crossesTaxAuditThreshold(c)
isAuditedFirm(c) == c.entity \in Firms /\ crossesTaxAuditThreshold(c)
taxPaymentsWhen(c) ==
  LET tan == "tan" \in c.facts
  IN [ IT_ADVANCE_TAX |-> c.turnover > 0,
       IT_TDS_PAYMENT |-> tan,
       IT_TDS_RETURN  |-> tan,
       IT_FORM16A     |-> tan,
       IT_FORM16      |-> tan /\ c.employees >= 1 ]

taxReturnsWhen(c) ==
  LET foreign == "foreign" \in c.facts
  IN [ IT_TAX_AUDIT    |-> crossesTaxAuditThreshold(c),
       IT_FORM3CEB     |-> foreign,
       IT_ITR_AUDITED  |-> (c.entity \in CompaniesAct \/ isAuditedFirm(c)) /\ ~foreign,
       IT_ITR_TP       |-> foreign,
       IT_ITR_NON_AUDITED |-> isUnauditedFirm(c) /\ ~foreign,
       IT_SFT          |-> c.turnover >= CRORE ]

(* Tax deducted in March may be deposited by 30 April.                       *)
tdsPayment(fy) ==
  {IF o.key.part = 3 THEN [o EXCEPT !.due = utcDate(fy + 1, 4, 30)] ELSE o :
     o \in monthly(7, fy)}

taxPayments(fy) ==
  [ IT_ADVANCE_TAX  |-> fixedDatesInFy(<<<<6, 15>>, <<9, 15>>, <<12, 15>>, <<3, 15>>>>, fy),
    IT_TDS_PAYMENT  |-> tdsPayment(fy),
    IT_TDS_RETURN   |-> quarterly(<<utcDate(fy, 7, 31), utcDate(fy, 10, 31),
                                    utcDate(fy + 1, 1, 31), utcDate(fy + 1, 5, 31)>>, fy),
    IT_FORM16A      |-> quarterly(<<utcDate(fy, 8, 15), utcDate(fy, 11, 15),
                                    utcDate(fy + 1, 2, 15), utcDate(fy + 1, 6, 15)>>, fy),
    IT_FORM16       |-> annual(6, 15, fy) ]

taxReturns(fy) ==
  [ IT_TAX_AUDIT    |-> annual(9, 30, fy),
    IT_FORM3CEB     |-> annual(10, 31, fy),
    IT_ITR_AUDITED  |-> annual(10, 31, fy),
    IT_ITR_TP       |-> annual(11, 30, fy),
    IT_ITR_NON_AUDITED |-> annual(7, 31, fy),
    IT_SFT          |-> annual(5, 31, fy) ]

-------------------------------------------------------------------------------
msmeWhen(c) ==
  [ MSME_UDYAM_UPDATE          |-> "udyam" \in c.facts,
    MSME_PAYMENT_45_DAYS       |-> "msmeSuppliers" \in c.facts,
    MSME_SUPPLIER_DECLARATIONS |-> "msmeSuppliers" \in c.facts ]

msmeOccurrences(fy) ==
  [ MSME_UDYAM_UPDATE          |-> annualWithin(3, 31, fy),
    MSME_PAYMENT_45_DAYS       |-> annualWithin(3, 31, fy),
    MSME_SUPPLIER_DECLARATIONS |-> annualWithin(5, 31, fy) ]

PT_STATES == {"MH", "KA", "WB", "TN", "AP", "TG", "GJ", "MP", "OD", "OR", "AS",
              "KL", "TR", "MN", "MZ", "ML", "NL", "SK", "JH", "BR", "PY"}

labourWhen(c) ==
  [ LABOUR_EPF_ECR          |-> "epfo" \in c.facts /\ c.employees >= 20,
    LABOUR_ESI_CONTRIBUTION |-> /\ "esic" \in c.facts
                                /\ c.employees >= (IF c.state \in {"MH", "CH"} THEN 20 ELSE 10),
    LABOUR_PROFESSIONAL_TAX |-> /\ "professionalTax" \in c.facts
                                /\ c.state \in PT_STATES
                                /\ c.employees >= 1,
    LABOUR_POSH_IC            |-> c.employees >= 10,
    LABOUR_POSH_ANNUAL_REPORT |-> c.employees >= 10,
    LABOUR_BONUS_FORM_D       |-> c.employees >= 20,
    LABOUR_SHOPS_ESTABLISHMENT |-> "shops" \in c.facts /\ c.employees >= 1 ]

labourOccurrences(fy) ==
  [ LABOUR_EPF_ECR            |-> monthly(15, fy),
    LABOUR_ESI_CONTRIBUTION   |-> monthly(15, fy),
    LABOUR_PROFESSIONAL_TAX   |-> monthly(15, fy),
    LABOUR_POSH_IC            |-> annualWithin(4, 30, fy),
    LABOUR_POSH_ANNUAL_REPORT |-> annualWithin(1, 31, fy),
    LABOUR_BONUS_FORM_D       |-> OncePerFy(fy, utcDate(fy + 1, 12, 30)),
    LABOUR_SHOPS_ESTABLISHMENT |-> annualWithin(3, 31, fy) ]

-------------------------------------------------------------------------------
(* The whole catalogue. No overlay is in force: Regulatory models those.     *)
allRules(c) ==
  companyFilingsWhen(c) @@ eventFilingsWhen(c) @@ meetingsWhen(c) @@ llpWhen(c)
    @@ gstReturnsWhen(c) @@ gstOthersWhen(c) @@ taxPaymentsWhen(c) @@ taxReturnsWhen(c)
    @@ msmeWhen(c) @@ labourWhen(c)
occurrences(fy, c) ==
  companyFilings(fy, c) @@ eventFilings(c) @@ meetings(fy, c) @@ llpFilings(fy)
    @@ gstReturns(fy, c) @@ gstOthers(fy, c) @@ taxPayments(fy) @@ taxReturns(fy)
    @@ msmeOccurrences(fy) @@ labourOccurrences(fy)

applicableRules(c) ==
  LET when == allRules(c) IN {code \in DOMAIN when : when[code]}

(* Filings made from the annual accounts: the first year may absorb another. *)
basedOnAnnualAccounts ==
  { "MCA_AOC4", "MCA_AOC4_OPC", "MCA_MGT7", "MCA_MGT7A", "MCA_ADT1", "MCA_AGM",
    "LLP_FORM11", "LLP_FORM8", "LLP_AUDIT", "IT_TAX_AUDIT", "IT_FORM3CEB",
    "IT_ITR_AUDITED", "IT_ITR_TP", "IT_ITR_NON_AUDITED" }
===============================================================================
