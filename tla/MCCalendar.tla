------------------------------ MODULE MCCalendar ------------------------------
(* A small instance of Calendar: profiles and days where the dates are odd.  *)
EXTENDS Predicates

Reg(gstin, state, freq, active) ==
  [gstin |-> gstin, stateCode |-> state, filingFrequency |-> freq,
   isActive |-> active, isTdsDeductor |-> FALSE, isEcommerceOperator |-> FALSE]

(* A private company of the years before, with people, a TAN and two GSTINs. *)
Settled ==
  [entity |-> "PRIVATE_LIMITED", incorporated |-> utcDate(2012, 5, 10),
   agm |-> utcDate(2026, 9, 12), turnover |-> 60 * CRORE, capital |-> 5 * CRORE,
   employees |-> 30, state |-> "DL", gst |-> {Reg("g1", "DL", "QRMP", TRUE),
                                              Reg("g2", "MH", "MONTHLY", TRUE)},
   facts |-> {"cin", "pan", "din", "tan", "msmeSuppliers", "deposits", "epfo", "esic", "udyam"},
   dpiitRecognisedOn |-> NoDate]

MCProfiles ==
  { Settled,
    (* small, its AGM forgotten; one registration given up, one changed *)
    [Settled EXCEPT !.agm = NoDate, !.turnover = 90, !.capital = 10,
       !.employees = 12, !.state = "CH", !.gst = {Reg("g1", "KA", "COMPOSITION", TRUE), Reg("g2", "MH", "MONTHLY", FALSE)}],
    (* born in January to March: the first year is a long one *)
    [Settled EXCEPT !.incorporated = utcDate(2026, 2, 10), !.agm = NoDate,
       !.gst = {Reg("g1", "DL", "MONTHLY", TRUE)}],
    (* born on the last day of a year, its AGM on the last day allowed *)
    [Settled EXCEPT !.incorporated = utcDate(2026, 3, 31), !.agm = utcDate(2028, 3, 31),
       !.entity = "PUBLIC_LIMITED", !.facts = @ \cup {"foreign"}],
    (* born on the first *)
    [Settled EXCEPT !.incorporated = utcDate(2026, 4, 1), !.entity = "OPC", !.gst = {},
       !.facts = {"din", "cin"}],
    [Settled EXCEPT !.entity = "LLP", !.turnover = 90, !.agm = NoDate,
       !.state = "KA", !.facts = {"tan", "pan", "dpiit", "food"},
       !.dpiitRecognisedOn = utcDate(2024, 5, 6)],
    [Settled EXCEPT !.entity = "PARTNERSHIP", !.agm = NoDate, !.turnover = 8 * CRORE,
       !.facts = {"lowCash", "shops", "professionalTax", "fssai", "esic"}, !.state = "MH"],
    [Settled EXCEPT !.entity = "SECTION_8", !.incorporated = NoDate] }

(* A year's first day, the two days whose windows start on either side of a  *)
(* year's end, and a day whose window starts on 29 February.                 *)
MCDays == {utcDate(2026, 4, 1), utcDate(2027, 5, 5), utcDate(2027, 5, 6), utcDate(2029, 4, 4)}

(* Circulars: extensions, one period's day named, a filing waived, a          *)
(* threshold lowered, a carve-out, a rule narrowed, widened or withdrawn; and *)
(* what the schema turns away.                                                *)
Patch(rule, changed) == [rule |-> rule, patch |-> changed @@ NoPatch]
MCAmendments ==
  { Patch("MCA_AOC4", [dueDateShiftDays |-> 30,
                       dueDateOverrides |-> {[key |-> FyKey(2026), day |-> utcDate(2027, 11, 20)]}]),
    Patch("GST_CMP08", [dueDateShiftDays |-> -5, suspendedFrom |-> utcDate(2027, 7, 10),
                        suspendedTo |-> utcDate(2027, 7, 15)]),
    Patch("MCA_DIR3KYC", [dueDateShiftDays |-> 30, suspendedTo |-> utcDate(2027, 10, 30)]),
    Patch("GST_GSTR9", [removeConditionLabels |-> {amount("turnoverAtLeast", 2 * CRORE)},
                        addApplicableWhen |-> {amount("turnoverAtLeast", 50)}]),
    Patch("MCA_BOARD_MEETING", [removeConditionLabels |-> {holds("isSmallCompany")},
                                addExcludeWhen |-> {amount("dpiitRecognisedWithinYears", 3)}]),
    Patch("MCA_AOC4", [addExcludeWhen |-> {entityIs({"SECTION_8", "OPC"})}]),
    Patch("MCA_MGT7A", [addApplicableWhen |-> {entityIs({"OPC", "PRIVATE_LIMITED"})}]),
    Patch("LLP_AUDIT", [withdrawn |-> TRUE]),
    Patch("IT_TAX_AUDIT", [removeConditionLabels |-> {holds("crossesTaxAuditThreshold")}]),
    Patch("IT_TAX_AUDIT", [withdrawn |-> TRUE, dueDateShiftDays |-> 10]),
    Patch("MCA_DPT3", [addExcludeWhen |-> {Cond({Term("stateCodeIn", {"DL"}, 0, 0)})}]) }
===============================================================================
