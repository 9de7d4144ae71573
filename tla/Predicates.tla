------------------------------ MODULE Predicates ------------------------------
(***************************************************************************)
(* To whom a rule applies, and how a circular may change that: conditions  *)
(* as the data overlays name them by (engine/predicates.ts), the page that *)
(* tells entity types apart by them, and what an amendment does to a rule's *)
(* conditions and due dates. The life of an overlay is Regulatory.         *)
(***************************************************************************)
EXTENDS Standing

CONSTANT Amendments   (* patches a reviewer may send in, sound or not *)

EntityTypes == CompaniesAct \cup Firms

(* A term is a predicate and its arguments: a list, or one or two numbers    *)
(* (lakhs, heads, years or a day). A condition holds when one of its terms   *)
(* does, or when none does; it stands for its label too.                     *)
Term(name, list, n, m) == [name |-> name, list |-> list, n |-> n, m |-> m]
Cond(terms) == [anyOf |-> terms, negated |-> FALSE]
not(condition) == [condition EXCEPT !.negated = ~@]

entityIs(types) == Cond({Term("entityIs", types, 0, 0)})
amount(name, n) == Cond({Term(name, {}, n, 0)})
holds(name)     == Cond({Term(name, {}, 0, 0)})

-------------------------------------------------------------------------------
constitutionTerms(t, c) ==
  [ entityIs             |-> c.entity \in t.list,
    stateCodeIn          |-> c.state \in t.list,
    isListed             |-> "listed" \in c.facts,
    incorporatedOnOrAfter |-> c.incorporated # NoDate /\ c.incorporated >= t.n,
    incorporatedBefore   |-> c.incorporated # NoDate /\ c.incorporated < t.n ]

sizeTerms(t, c) ==
  [ turnoverAtLeast      |-> c.turnover >= t.n,
    turnoverBelow        |-> c.turnover < t.n,
    turnoverBetween      |-> c.turnover >= t.n /\ c.turnover < t.m,
    paidUpCapitalAtLeast |-> c.capital >= t.n,
    employeesAtLeast     |-> c.employees >= t.n,
    employeesBelow       |-> c.employees < t.n ]

gstAndMsmeTerms(t, c) ==
  [ hasGstRegistration   |-> activeGst(c) # {},
    hasNoGstRegistration |-> activeGst(c) = {},
    anyGstFrequencyIs    |-> \E freq \in t.list : files(c, freq),
    anyGstDeductsTds     |-> \E g \in activeGst(c) : g.isTdsDeductor,
    anyGstIsEcommerceOperator |-> \E g \in activeGst(c) : g.isEcommerceOperator,
    crossesGstRegistrationThreshold |-> c.turnover >= 20,
    hasMsmeRegistration  |-> "udyam" \in c.facts,
    msmeCategoryIs       |-> "udyam" \in c.facts /\ t.list \cap c.facts # {} ]

dpiitRecognisedWithinYears(years, c) ==
  /\ "dpiit" \in c.facts /\ c.dpiitRecognisedOn # NoDate
  /\ today < YearsEarlier(c.dpiitRecognisedOn, -years)
dpiitTerms(t, c) ==
  [ hasDpiitRecognition   |-> "dpiit" \in c.facts,
    hasNoDpiitRecognition |-> "dpiit" \notin c.facts,
    dpiitRecognisedWithinYears |-> dpiitRecognisedWithinYears(t.n, c) ]

labourAndTaxTerms(t, c) ==
  [ hasEpfoEnrollment   |-> "epfo" \in c.facts,
    hasNoEpfoEnrollment |-> "epfo" \notin c.facts,
    hasEsicEnrollment   |-> "esic" \in c.facts,
    hasNoEsicEnrollment |-> "esic" \notin c.facts,
    hasProfessionalTax  |-> "professionalTax" \in c.facts,
    hasTan              |-> "tan" \in c.facts,
    hasShopsAndEstablishment |-> "shops" \in c.facts,
    hasDirectorWithDin  |-> "din" \in c.facts,
    acceptsDeposits     |-> "deposits" \in c.facts,
    buysFromMsmeSuppliers |-> "msmeSuppliers" \in c.facts,
    hasForeignTransactions |-> "foreign" \in c.facts ]

thresholdTerms(c) ==
  [ crossesTaxAuditThreshold |-> crossesTaxAuditThreshold(c),
    llpCrossesAuditThreshold |-> llpCrossesAuditThreshold(c) ]

(* The catalogue's own closures, which no overlay can name.                  *)
customTerms(c) ==
  [ isSmallCompany    |-> isSmallCompany(c),
    isUnauditedFirm   |-> isUnauditedFirm(c),
    accountsRequireAudit |-> c.entity \in CompaniesAct \/ isAuditedFirm(c),
    esiApplies        |-> c.employees >= (IF c.state \in {"MH", "CH"} THEN 20 ELSE 10),
    professionalTaxApplies |-> c.state \in PT_STATES /\ c.employees >= 1,
    withdrawn         |-> TRUE ]

passes(t, c) ==
  (constitutionTerms(t, c) @@ sizeTerms(t, c) @@ gstAndMsmeTerms(t, c) @@ dpiitTerms(t, c)
     @@ labourAndTaxTerms(t, c) @@ thresholdTerms(c) @@ customTerms(c))[t.name]

test(condition, c) ==
  LET some == \E t \in condition.anyOf : passes(t, c) IN condition.negated # some

(* The entity types a condition can be true of, as far as its builders know. *)
Scoped_Some(condition) == \E t \in condition.anyOf : t.name = "entityIs"
Scoped(condition) == \A t \in condition.anyOf : t.name = "entityIs"
entityScope(condition) ==
  LET named == UNION {t.list : t \in {t \in condition.anyOf : t.name = "entityIs"}}
  IN  IF condition.negated THEN EntityTypes \ named ELSE named
entityOnly(condition) ==
  ~condition.negated /\ \E t \in condition.anyOf : t.name = "entityIs" /\ condition.anyOf = {t}

-------------------------------------------------------------------------------
(* A rule's conditions, for one rule of every form the catalogue uses.       *)
Rule(when, unless) == [applicableWhen |-> when, excludeWhen |-> unless, amended |-> FALSE]
opcOrSmall == Cond({Term("entityIs", {"OPC"}, 0, 0), Term("isSmallCompany", {}, 0, 0)})
committed ==
  [ MCA_AOC4          |-> Rule({entityIs(HoldsAgm)}, {}),
    MCA_MGT7          |-> Rule({entityIs(HoldsAgm), not(holds("isSmallCompany"))}, {}),
    MCA_MGT7A         |-> Rule({opcOrSmall}, {}),
    MCA_DIR3KYC       |-> Rule({holds("hasDirectorWithDin")}, {}),
    MCA_DPT3          |-> Rule({entityIs(CompaniesAct), holds("acceptsDeposits")}, {}),
    MCA_BOARD_MEETING |-> Rule({entityIs(CompaniesAct)},
                               {entityIs({"OPC"}), holds("isSmallCompany")}),
    MCA_INC20A        |-> Rule({entityIs(CompaniesAct \ {"SECTION_8"}),
                                amount("paidUpCapitalAtLeast", 1),
                                amount("incorporatedOnOrAfter", utcDate(2018, 11, 2))}, {}),
    LLP_AUDIT         |-> Rule({entityIs({"LLP"}), holds("llpCrossesAuditThreshold")}, {}),
    GST_GSTR9         |-> Rule({holds("hasGstRegistration"),
                                amount("turnoverAtLeast", 2 * CRORE)}, {}),
    GST_CMP08         |-> Rule({holds("hasGstRegistration"),
                                Cond({Term("anyGstFrequencyIs", {"COMPOSITION"}, 0, 0)})}, {}),
    IT_ITR_AUDITED    |-> Rule({holds("accountsRequireAudit"),
                                not(holds("hasForeignTransactions"))}, {}),
    IT_ITR_NON_AUDITED |-> Rule({holds("isUnauditedFirm"),
                                 not(holds("hasForeignTransactions"))}, {}),
    IT_TAX_AUDIT      |-> Rule({holds("crossesTaxAuditThreshold")}, {}),
    LABOUR_ESI_CONTRIBUTION |-> Rule({holds("hasEsicEnrollment"), holds("esiApplies")}, {}) ]

evaluateRule(rule, c) ==
  /\ \A condition \in rule.applicableWhen : test(condition, c)
  /\ ~\E condition \in rule.excludeWhen : test(condition, c)

applicableEntityTypes(rule) ==
  LET possible == {t \in EntityTypes : \A condition \in rule.applicableWhen :
                                         Scoped(condition) => t \in entityScope(condition)}
      carved == UNION {entityScope(condition) :
                         condition \in {x \in rule.excludeWhen : entityOnly(x)}}
      onlyConstitution == rule.excludeWhen = {} /\ \A x \in rule.applicableWhen : entityOnly(x)
  IN  [t \in EntityTypes |-> IF t \notin possible \ carved THEN "NEVER"
                             ELSE IF onlyConstitution THEN "ALWAYS" ELSE "CONTINGENT"]

(* The edge's copies: of the vocabulary it has what its catalogue needs.     *)
edgeTest(condition, c) == test(condition, c)
edgeApplicableEntityTypes(rule) == applicableEntityTypes(rule)

-------------------------------------------------------------------------------
(* predicateRefSchema: arguments a predicate takes. Sums are in lakhs; a     *)
(* state is to be given by two digits, though companies hold letters.        *)
MaxLakhs == 10000000
TwoDigitCodes == {"07", "27", "29"}
argsFit(t) ==
  CASE t.name = "entityIs" -> t.list # {} /\ t.list \subseteq EntityTypes
    [] t.name = "stateCodeIn" -> t.list # {} /\ t.list \subseteq TwoDigitCodes
    [] t.name = "anyGstFrequencyIs" ->
         t.list # {} /\ t.list \subseteq {"MONTHLY", "QRMP", "COMPOSITION"}
    [] t.name = "msmeCategoryIs" ->
         t.list # {} /\ t.list \subseteq {"MICRO", "SMALL", "MEDIUM"}
    [] t.name \in {"turnoverAtLeast", "turnoverBelow", "paidUpCapitalAtLeast"} ->
         t.n \in 0..MaxLakhs
    [] t.name = "turnoverBetween" -> {t.n, t.m} \subseteq 0..MaxLakhs /\ t.m > t.n
    [] t.name \in {"employeesAtLeast", "employeesBelow"} -> t.n \in 0..1000000
    [] t.name = "dpiitRecognisedWithinYears" -> t.n \in 1..25
    [] OTHER -> TRUE

(* A condition is added by reference: the predicate is one of the table's.   *)
validatePredicateRef(condition) ==
  \A t \in condition.anyOf : t.name \notin DOMAIN customTerms(company) /\ argsFit(t)

NoPatch ==
  [ addApplicableWhen |-> {}, addExcludeWhen |-> {}, removeConditionLabels |-> {},
    dueDateShiftDays |-> 0, dueDateOverrides |-> {}, suspendedFrom |-> NoDate,
    suspendedTo |-> NoDate, withdrawn |-> FALSE ]

overlayPatchSchema(patch) ==
  /\ patch # NoPatch
  /\ \A condition \in patch.addApplicableWhen \cup patch.addExcludeWhen :
       validatePredicateRef(condition)
  /\ patch.dueDateShiftDays \in -365..365
  /\ (patch.suspendedFrom # NoDate /\ patch.suspendedTo # NoDate) =>
       patch.suspendedTo >= patch.suspendedFrom
  /\ patch.withdrawn => patch.dueDateShiftDays = 0 /\ patch.suspendedFrom = NoDate

patchConditions(existing, remove, add) == (existing \ remove) \cup add

(* A label that no condition of the rule has removes nothing.                *)
applyOverlay(rule, patch) ==
  [ applicableWhen |-> patchConditions(rule.applicableWhen, patch.removeConditionLabels,
                                       patch.addApplicableWhen),
    excludeWhen |-> patchConditions(rule.excludeWhen, patch.removeConditionLabels,
                                    patch.addExcludeWhen)
                      \cup (IF patch.withdrawn THEN {holds("withdrawn")} ELSE {}),
    amended |-> TRUE ]

movedDay(o, patch) ==
  LET named == {over.day : over \in {over \in patch.dueDateOverrides : over.key = o.key}}
  IN  IF named # {} THEN CHOOSE d \in named : TRUE ELSE o.due + patch.dueDateShiftDays
suspended(o, patch, day) ==
  /\ patch.suspendedFrom # NoDate \/ patch.suspendedTo # NoDate
  /\ patch.suspendedFrom # NoDate => day >= patch.suspendedFrom
  /\ patch.suspendedTo # NoDate => day <= patch.suspendedTo
patchOccurrences(os, patch) ==
  {[o EXCEPT !.due = movedDay(o, patch)] :
     o \in {o \in os : ~suspended(o, patch, movedDay(o, patch))}}

(* The catalogue as it stands with one amendment in force, and the page made  *)
(* of it; the edge's page is made of the committed rules.                     *)
effectiveRules(a) ==
  IF overlayPatchSchema(a.patch) THEN [committed EXCEPT ![a.rule] = applyOverlay(@, a.patch)]
  ELSE committed
Shown(rule, types) ==
  [entityTypes |-> types, conditions |-> rule.applicableWhen,
   exemptions |-> rule.excludeWhen, amended |-> rule.amended]
rulesPage(rules) ==
  [code \in DOMAIN rules |-> Shown(rules[code], applicableEntityTypes(rules[code]))]
rulePage(rules, code) == Shown(rules[code], applicableEntityTypes(rules[code]))
edgeRulesPage ==
  [code \in DOMAIN committed |-> Shown(committed[code], edgeApplicableEntityTypes(committed[code]))]

(* What a calendar then keeps of the amended rule.                           *)
amendedRows(a, c, from, to) ==
  LET patched(fy) == [code \in {a.rule} |-> patchOccurrences(occurrences(fy, c)[code], a.patch)]
      kept(fy) == keptFrom(patched(fy), {a.rule}, c, from, to)
  IN  IF evaluateRule(effectiveRules(a)[a.rule], c)
      THEN unseen(UNION {{<<fy, r>> : r \in kept(fy)} : fy \in yearsSearched(from, to)})
      ELSE {}

-------------------------------------------------------------------------------
(* entityApplicability.ts:1-20, copilot.routes.ts:53-83. The page is worked   *)
(* out from labels on conditions that no evaluation reads. Amended or not, a  *)
(* rule it says NEVER of a type is owed by no company of the type, and one it *)
(* says ALWAYS of by each: checked on the company as it is, were it of the    *)
(* type. A rule that no longer is the committed one is marked so.             *)
PageIsHonest ==
  LET as(t) == [company EXCEPT !.entity = t]
      honest(shown, rule) ==
        \A t \in EntityTypes :
          /\ shown.entityTypes[t] = "NEVER" => ~evaluateRule(rule, as(t))
          /\ shown.entityTypes[t] = "ALWAYS" => evaluateRule(rule, as(t))
  IN  /\ \A code \in DOMAIN committed :
           /\ honest(rulesPage(committed)[code], committed[code])
           /\ edgeRulesPage[code] = rulesPage(committed)[code]
           /\ \A t \in EntityTypes : evaluateRule(committed[code], as(t)) <=>
                                      code \in applicableRules(as(t))
      /\ \A a \in Amendments :
           LET rules == effectiveRules(a)
               shown == rulePage(rules, a.rule)
           IN  /\ honest(shown, rules[a.rule])
               /\ shown # edgeRulesPage[a.rule] => shown.amended

(* overlay.ts:118-124. Under an amendment a company that still owes the       *)
(* filing owes it for the same periods: each on the day named for it, or else *)
(* as many days later; waived are those whose day, so moved, lies in the      *)
(* suspension. Seen well inside the window, which moving a day may leave.     *)
AmendedAsSaid ==
  \A a \in Amendments :
    LET inner(d) == /\ d >= windowStart(today) + 365 /\ d <= windowEnd(today) - 365
                    /\ d >= company.incorporated + 365
        named(r) == {over.day : over \in {over \in a.patch.dueDateOverrides : over.key = r.key}}
        day(r)   == IF named(r) = {} THEN r.due + a.patch.dueDateShiftDays
                    ELSE CHOOSE d \in named(r) : TRUE
        last     == IF a.patch.suspendedTo = NoDate THEN windowEnd(today) ELSE a.patch.suspendedTo
        waiving  == a.patch.suspendedFrom # NoDate \/ a.patch.suspendedTo # NoDate
        waived(d) == waiving /\ d \in a.patch.suspendedFrom..last
        before == {r \in calendar : r.code = a.rule}
        after  == amendedRows(a, buildContext(company, logged),
                              windowStart(today), windowEnd(today))
    IN  (overlayPatchSchema(a.patch) /\ after # {} /\ before # {}) =>
          {r \in after : inner(r.due)} =
            {[r EXCEPT !.due = day(r)] : r \in {r \in before : inner(day(r)) /\ ~waived(day(r))}}

(* What is shown of a rule and what an amendment makes of it, day by day.     *)
AmendmentsTold ==
  (Fresh /\ logged = {}) =>
    PageIsHonest /\ (company.incorporated # NoDate => AmendedAsSaid)
===============================================================================
