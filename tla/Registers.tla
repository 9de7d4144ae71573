------------------------------ MODULE Registers ------------------------------
(***************************************************************************)
(* What a register's answer becomes on its way to a form: BizVerify's HTTP *)
(* answer, the code a provider makes of it (_shared/verifications), and    *)
(* the HTTP status with which gst-api, udyam-api, pan-api and lookup-api   *)
(* pass that on.                                                           *)
(***************************************************************************)
EXTENDS Naturals

\* No answer: a timeout, a connection refused.
Lost == 0

Statuses == {Lost, 200, 400, 401, 403, 404, 429, 500, 502}

\* What the body holds: the entry, or the session, asked for; an object without
\* one; a refusal, with a code or without; no JSON at all.
Refusals == {"refusal", "captcha", "expired", "input", "missing", "source"}
Contents == {"entry", "empty", "nothing"} \cup Refusals

Answers == [status : Statuses, says : Contents]

\* What a provider makes of a status other than 200.
Failure(a, invalid, missing, denied) ==
  CASE a.status = 400                       -> invalid
    [] a.status \in denied                  -> "UNAUTHORIZED"
    [] a.status = 404                       -> missing
    [] a.status = Lost \/ a.status >= 500   -> "SERVICE_UNAVAILABLE"
    [] OTHER                                -> "PROVIDER_ERROR"

\* An object in which no field is found makes an entry of defaults: hollow.
Record(says) == IF says = "entry" THEN "found" ELSE "hollow"

-----------------------------------------------------------------------------
(* The providers *)

gstCreateSession(a) ==
  IF a.status # 200 THEN Failure(a, "INVALID_GSTIN", "GSTIN_NOT_FOUND", {401})
  ELSE IF a.says = "entry" THEN "found" ELSE "PROVIDER_ERROR"

gstVerifySession(a) ==
  IF a.status # 200
  THEN Failure(a, IF a.says = "expired" THEN "SESSION_EXPIRED" ELSE "INVALID_CAPTCHA", "GSTIN_NOT_FOUND", {401})
  ELSE IF a.says \in Refusals \cup {"nothing"} THEN "PROVIDER_ERROR" ELSE Record(a.says)

udyamCreateSession(a) ==
  IF a.status # 200 THEN Failure(a, "INVALID_UDYAM", "UDYAM_NOT_FOUND", {401})
  ELSE IF a.says = "entry" THEN "found" ELSE "PROVIDER_ERROR"

\* The code in the body, with a 400 and in a refusal under 200.
udyamVerifySession(a) ==
  IF a.status # 200
  THEN Failure(a, CASE a.says = "expired" -> "SESSION_EXPIRED"
                    [] a.says = "input"   -> "INVALID_UDYAM"
                    [] OTHER              -> "INVALID_CAPTCHA", "UDYAM_NOT_FOUND", {401})
  ELSE CASE a.says = "captcha" -> "INVALID_CAPTCHA"
         [] a.says = "expired" -> "SESSION_EXPIRED"
         [] a.says = "missing" -> "UDYAM_NOT_FOUND"
         [] a.says = "source"  -> "SERVICE_UNAVAILABLE"
         [] a.says \in {"refusal", "input", "nothing"} -> "PROVIDER_ERROR"
         [] OTHER -> Record(a.says)

\* A refusal's own code is passed on.
verifyPan(a) ==
  IF a.status # 200 THEN Failure(a, "INVALID_PAN", "PAN_NOT_FOUND", {401, 403})
  ELSE CASE a.says = "nothing"  -> "SERVICE_UNAVAILABLE"
         [] a.says = "missing"  -> "PAN_NOT_FOUND"
         [] a.says = "source"   -> "SERVICE_UNAVAILABLE"
         [] a.says \in Refusals -> "PROVIDER_ERROR"
         [] OTHER -> Record(a.says)

\* A refusal under 200 passes for an entry.
verifyCompany(a) ==
  IF a.status # 200 THEN Failure(a, "INVALID_CIN", "COMPANY_NOT_FOUND", {})
  ELSE IF a.says = "nothing" THEN "SERVICE_UNAVAILABLE" ELSE Record(a.says)

-----------------------------------------------------------------------------
(* The functions the browser calls *)

Entered == {"found", "hollow"}
Invalid == {"INVALID_GSTIN", "INVALID_UDYAM", "INVALID_PAN", "INVALID_CAPTCHA", "SESSION_EXPIRED"}
Unknown == {"GSTIN_NOT_FOUND", "UDYAM_NOT_FOUND", "PAN_NOT_FOUND"}

Passed_AsIs(code, otherwise) ==
  CASE code \in Entered -> 200
    [] code \in Invalid -> 400
    [] code \in Unknown -> 404
    [] code = "SERVICE_UNAVAILABLE" -> 502
    [] code = "UNAUTHORIZED" -> 401
    [] OTHER -> otherwise

\* That the register knows this service no longer is no word about the caller.
Passed(code, otherwise) ==
  CASE code \in Entered -> 200
    [] code \in Invalid -> 400
    [] code \in Unknown -> 404
    [] code \in {"SERVICE_UNAVAILABLE", "UNAUTHORIZED"} -> 502
    [] OTHER -> otherwise

gstApi(a)   == {Passed(gstCreateSession(a), 500), Passed(gstVerifySession(a), 500)}
udyamApi(a) == {Passed(udyamCreateSession(a), 502), Passed(udyamVerifySession(a), 502)}
panApi(a)   == {Passed(verifyPan(a), 500)}

\* validate-company and cin/:cin report a failure in the body.
lookupApi(a) == {200}

\* What a browser may see of a lookup that its session was good for.
LookupStatuses == UNION {gstApi(a) \cup udyamApi(a) \cup panApi(a) \cup lookupApi(a) : a \in Answers}

\* What comes of a lookup of one's own.
Outcomes == [mca   |-> {verifyCompany(a) : a \in Answers},
             gst   |-> {gstVerifySession(a) : a \in Answers},
             udyam |-> {udyamVerifySession(a) : a \in Answers}]
=============================================================================
