------------------------------ MODULE Billing -------------------------------
(***************************************************************************)
(* One organisation's subscription: its payment rows, its trial marker,    *)
(* the checkout's verify call and Razorpay's webhooks, served by           *)
(* billing.service.ts or by billing-api and razorpay-webhook of the edge,  *)
(* which credit in two calls.  Razorpay itself is external.                *)
(*                                                                         *)
(* Webhooks are delivered at least once, in any order, and late: what has  *)
(* happened at Razorpay stays deliverable.  Simulated billing, which only  *)
(* an unconfigured development server allows, is left out, and so are      *)
(* the refusals of forged signatures and of payments of another order.     *)
(***************************************************************************)
EXTENDS Integers

CONSTANTS
  Orders,    \* Razorpay orders, the unique key of a payment row
  Period,    \* Period[o]: periodDays of the plan the order is for
  TrialDays, \* TRIAL_DAYS, from day 0
  Workers,   \* requests in flight
  Edge,      \* those the edge functions serve, the others the service
  Announced, \* bound: Announced[o], the events of o other than a capture that
             \* Razorpay reports; it sees no other failed attempt or refund
  MaxDay,    \* bound: the last day of the model
  MaxValid,  \* bound: the last day an entitlement may reach
  MaxAgain   \* bound: and one of a payment of o that is credited again

Null == -1

ASSUME BillingAssumption ==
  /\ Edge \subseteq Workers
  /\ Period \in [Orders -> Nat \ {0}]
  /\ Announced \in [Orders -> SUBSET {"authorized", "failed", "refunded"}]
  /\ TrialDays \in Nat /\ MaxDay \in Nat /\ MaxValid \in Nat /\ MaxAgain \in [Orders -> 0..MaxValid]
  /\ \A o \in Orders : MaxDay + Period[o] <= MaxValid

VARIABLES
  today,
  trialEndsAt, \* the organisation's trial marker, or Null
  row,         \* row[o]: the payment row
  happened,    \* happened[o]: what Razorpay has done with the order's payments
  proc,        \* proc[w]: what request w is in the middle of
  torn         \* history: <<o, how>>, half a credit of o was not written

vars == <<today, trialEndsAt, row, happened, proc, torn>>

\* The payment.* events the handler acts on.
Events == {"authorized", "captured", "failed", "refunded"}

Rows ==
  [status : {"none", "CREATED", "AUTHORIZED", "SUCCESS", "FAILED", "REFUNDED"},
   paidAt : (0..MaxDay) \cup {Null}, validUntil : (0..MaxValid) \cup {Null}]

NoRow == [status |-> "none", paidAt |-> Null, validUntil |-> Null]

Idle == [step |-> "idle"]
Procs ==
  {Idle} \cup [step : {"verify", "credit"}, order : Orders]
         \cup [step : {"org"}, order : Orders]
         \cup [step : {"write"}, order : Orders, paidAt : 0..MaxDay, validUntil : 0..MaxValid]

Init ==
  /\ today = 0
  /\ trialEndsAt = TrialDays
  /\ row = [o \in Orders |-> NoRow]
  /\ happened = [o \in Orders |-> {}]
  /\ proc = [w \in Workers |-> Idle]
  /\ torn = {}

Become(w, p) == proc' = [proc EXCEPT ![w] = p]

-----------------------------------------------------------------------------
(* Razorpay: an order may see failed attempts, then one that is authorized, *)
(* captured and perhaps refunded.                                           *)

AtRazorpay(o, event) ==
  /\ happened' = [happened EXCEPT ![o] = @ \cup {event}]
  /\ UNCHANGED <<today, trialEndsAt, row, proc, torn>>

\* startCheckout: the checkout opens with the order that createOrder answered.
Opened(o) == row[o].status # "none"

Attempt(o) ==
  /\ Opened(o)
  /\ \/ "failed" \in Announced[o] /\ "authorized" \notin happened[o] /\ AtRazorpay(o, "failed")
     \/ AtRazorpay(o, "authorized")
     \/ "authorized" \in happened[o] /\ AtRazorpay(o, "captured")
     \/ "refunded" \in Announced[o] /\ "captured" \in happened[o] /\ AtRazorpay(o, "refunded")

-----------------------------------------------------------------------------
(* createOrder: the order at Razorpay, then the row, then the answer that   *)
(* lets the checkout begin.  The edge's insert names no id and always fails. *)

\* requireAuth; the edge looks at no trial.
LetIn == trialEndsAt = Null \/ today <= trialEndsAt

CreateOrder(o) ==
  /\ LetIn /\ row[o].status = "none"
  /\ row' = [row EXCEPT ![o].status = "CREATED"]
  /\ UNCHANGED <<today, trialEndsAt, happened, proc, torn>>

\* The checkout calls its handler once the payment is authorized.
Reported(o) == "authorized" \in happened[o]

\* verifyPayment, which that handler calls.  A row that reads
\* SUCCESS or AUTHORIZED is answered as it stands, which is no step.
Verify(w, o) ==
  /\ proc[w] = Idle
  /\ Reported(o)
  /\ row[o].status \notin {"none", "SUCCESS", "AUTHORIZED"}
  /\ Become(w, [step |-> "verify", order |-> o])
  /\ UNCHANGED <<today, trialEndsAt, row, happened, torn>>

Captured_OrAuthorized(o) == "authorized" \in happened[o]

\* payments.fetch says "captured".
Captured(o) == "captured" \in happened[o] /\ "refunded" \notin happened[o]

\* Not captured: ids and method are recorded and the call fails.
Fetch(w) ==
  /\ proc[w].step = "verify"
  /\ Become(w, IF Captured(proc[w].order) THEN [step |-> "credit", order |-> proc[w].order] ELSE Idle)
  /\ UNCHANGED <<today, trialEndsAt, row, happened, torn>>

-----------------------------------------------------------------------------
(* creditCapturedPayment *)

\* The windows other payments have bought: SUCCESS rows with a validUntil.
Windows(o) == {row[p].validUntil : p \in {q \in Orders \ {o} : row[q].status = "SUCCESS"}}

\* The latest of them if it has not run out, else now.
Base(o) == CHOOSE v \in Windows(o) \cup {today} : \A u \in Windows(o) \cup {today} : u <= v

\* Bound: a credit that would reach further is not followed.
Followed(o) == Base(o) + Period[o] <= IF row[o].validUntil = Null THEN MaxValid ELSE MaxAgain[o]

\* The read, outside the transaction.
CreditRead(w) ==
  /\ proc[w].step = "credit"
  /\ LET o == proc[w].order IN
     Become(w, IF Followed(o)
               THEN [step |-> "write", order |-> o, paidAt |-> today, validUntil |-> Base(o) + Period[o]]
               ELSE Idle)
  /\ UNCHANGED <<today, trialEndsAt, row, happened, torn>>

Cleared_Never(o) == trialEndsAt

\* The organisation's trialEndsAt once o is paid for.
Cleared(o) == Null

\* The row once w has credited it; its status is not looked at again.
Credited(w) ==
  [row EXCEPT ![proc[w].order] =
    [status |-> "SUCCESS", paidAt |-> proc[w].paidAt, validUntil |-> proc[w].validUntil]]

\* The marker is cleared, and what a credit that died left undone made good.
Unlock(o) == trialEndsAt' = Cleared(o) /\ torn' = {t \in torn : t[2] = "answered"}

\* The transaction: the payment row and the organisation.
CreditWrite(w) ==
  /\ w \notin Edge /\ proc[w].step = "write"
  /\ row' = Credited(w) /\ Unlock(proc[w].order)
  /\ Become(w, Idle)
  /\ UNCHANGED <<today, happened>>

\* On the edge a failed update is not noticed, and the call answered as if it had
\* been made; the call may also end between the two.  Bound: one such failure.
Half(w, how) == torn = {} /\ torn' = {<<proc[w].order, how>>}

EdgeCreditRow(w) ==
  /\ w \in Edge /\ proc[w].step = "write"
  /\ \/ row' = Credited(w) /\ UNCHANGED torn
     \/ Half(w, "answered") /\ UNCHANGED row
  /\ Become(w, [step |-> "org", order |-> proc[w].order])
  /\ UNCHANGED <<today, trialEndsAt, happened>>

EdgeCreditOrg(w) ==
  /\ proc[w].step = "org"
  /\ \/ Unlock(proc[w].order)
     \/ Half(w, "answered") /\ UNCHANGED trialEndsAt
  /\ Become(w, Idle)
  /\ UNCHANGED <<today, row, happened>>

-----------------------------------------------------------------------------
(* handleWebhook: what is delivered is acted on whatever the row reads. *)

StatusFor == [authorized |-> "AUTHORIZED", failed |-> "FAILED", refunded |-> "REFUNDED"]

WebhookCaptured(w, o) ==
  /\ proc[w] = Idle /\ "captured" \in happened[o]
  /\ Become(w, [step |-> "credit", order |-> o])
  /\ UNCHANGED <<today, trialEndsAt, row, happened, torn>>

WebhookOther(o, event) ==
  /\ event \in happened[o] \cap Announced[o]
  /\ row' = [row EXCEPT ![o].status = StatusFor[event]]
  /\ UNCHANGED <<today, trialEndsAt, happened, proc, torn>>

-----------------------------------------------------------------------------
(* platformAnalytics, of this organisation                                  *)

Buckets == {"onTrial", "trialExpired", "payingNow", "churned", "fullUnbilled"}

Bought == {row[o].validUntil : o \in {p \in Orders : row[p].status = "SUCCESS"}}

\* Where it is counted.
Counted ==
  LET expired == trialEndsAt # Null /\ trialEndsAt <= today IN
  {b \in Buckets :
     CASE b = "onTrial"      -> trialEndsAt > today
       [] b = "trialExpired" -> expired /\ Bought = {}
       [] b = "payingNow"    -> \E v \in Bought : v > today
       [] b = "churned"      -> Bought # {} /\ \A v \in Bought : v <= today
       [] OTHER              -> trialEndsAt = Null /\ Bought = {}}

\* getBillingView of the edge: no one is shown a trial that has ended.
InTrial == trialEndsAt > today

\* What the billing page says: the status, and the windows of which it shows one.
Page ==
  [status |-> IF InTrial THEN "TRIAL" ELSE "PAID", running |-> {v \in Bought : v > today}]

-----------------------------------------------------------------------------
\* A request dies, or one of its calls throws.
Abandon(w) ==
  /\ proc[w] # Idle
  /\ Become(w, Idle)
  /\ IF proc[w].step = "org" THEN Half(w, "died") ELSE UNCHANGED torn
  /\ UNCHANGED <<today, trialEndsAt, row, happened>>

\* Bound: no request outlives its day.
NextDay ==
  /\ today < MaxDay /\ today' = today + 1 /\ \A w \in Workers : proc[w] = Idle
  /\ UNCHANGED <<trialEndsAt, row, happened, proc, torn>>

Next ==
  \/ \E o \in Orders : CreateOrder(o) \/ Attempt(o)
  \/ \E o \in Orders, event \in Events : WebhookOther(o, event)
  \/ \E w \in Workers, o \in Orders : Verify(w, o) \/ WebhookCaptured(w, o)
  \/ \E w \in Workers : Fetch(w) \/ CreditRead(w) \/ CreditWrite(w) \/ EdgeCreditRow(w) \/ EdgeCreditOrg(w) \/ Abandon(w)
  \/ NextDay

Spec == Init /\ [][Next]_vars

\* o has its window, and the organisation is let out of its trial.
Settled(o) == row[o].validUntil # Null /\ trialEndsAt = Null

Writing(w) == CreditWrite(w) \/ EdgeCreditRow(w) \/ EdgeCreditOrg(w)

\* Razorpay redelivers payment.captured until it is answered, which happens only
\* after the credit; and not every handler of an order dies on the way.
FairSpec ==
  /\ Spec
  /\ WF_vars(\E w \in Workers : Fetch(w))
  /\ \A o \in Orders :
       /\ SF_vars(\E w \in Workers : proc[w].step = "credit" /\ proc[w].order = o /\ CreditRead(w))
       /\ SF_vars(\E w \in Workers : proc[w].step \in {"write", "org"} /\ proc[w].order = o /\ Writing(w))
       /\ SF_vars(~Settled(o) /\ \E w \in Workers : WebhookCaptured(w, o))

-----------------------------------------------------------------------------
(***************************************************************************)
(* Properties.                                                             *)
(***************************************************************************)

\* Rows and requests are well formed.
TypeOK ==
  /\ today \in 0..MaxDay
  /\ trialEndsAt \in {TrialDays, Null}
  /\ row \in [Orders -> Rows]
  /\ happened \in [Orders -> SUBSET Events]
  /\ proc \in [Workers -> Procs]
  /\ torn \subseteq Orders \X {"died", "answered"}

\* verifyPayment: a payment counts only if Razorpay captured it.  However verify
\* calls and late, repeated or reordered webhooks interleave, a window is granted
\* and the trial marker cleared only for money that moved, and each payment buys at
\* least its own term from the day it is credited, also when an earlier
\* subscription has run out meanwhile.
CreditedOnlyIfCaptured ==
  /\ \A o \in Orders : row[o].status = "SUCCESS" \/ row[o].validUntil # Null => "captured" \in happened[o]
  /\ trialEndsAt = Null => \E o \in Orders : "captured" \in happened[o]
  /\ \A o \in Orders : row[o].status = "SUCCESS" => row[o].validUntil >= row[o].paidAt + Period[o]

\* platformAnalytics: "all workspaces on the platform" are on trial, past it, paying,
\* lapsed or billed elsewhere: each is one of these, unless an edge credit is
\* between its two updates, or was left there.  And the organisation's own page
\* tells it the same: a trial or a window that runs is one the platform counts, and
\* "an expired trial never reaches this endpoint" as a paid subscription (the
\* instant at which it expires apart).
CountedOnce ==
  (torn = {} /\ \A w \in Workers : proc[w].step # "org") =>
    \E b \in Buckets :
      /\ Counted = {b}
      /\ Page.status = "TRIAL" <=> b = "onTrial"
      /\ Page.running # {} <=> b = "payingNow"
      /\ LetIn /\ Page.status = "PAID" /\ b = "trialExpired" => trialEndsAt = today

\* The webhook is the backup of the verify call: what is captured is credited and
\* lets the organisation out of its trial, though the browser never comes back and
\* handlers die on the way, unless the edge answered without noticing a failure.
CapturedUnlocks ==
  \A o \in Orders : "captured" \in happened[o] ~> Settled(o) \/ torn # {}
=============================================================================
