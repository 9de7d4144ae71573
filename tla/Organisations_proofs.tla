------------------------- MODULE Organisations_proofs -------------------------
(***************************************************************************)
(* Proofs about organisations: what they pay (Billing), and how their      *)
(* companies come in and are kept (CompanyProfile, CompanyForm and         *)
(* Onboarding).  For any number of orders, companies, identifiers,         *)
(* addresses and requests, whichever of them the edge serves, and any      *)
(* number of requests that die.                                            *)
(***************************************************************************)
EXTENDS Billing, Onboarding, TLAPS, WellFoundedInduction

-----------------------------------------------------------------------------
(* The inductive invariants. *)

\* What a request has been told about the payment it is to credit: that it was
\* captured, and how far the window reaches that it is to write.
RequestInv ==
  \A w \in Workers :
    /\ proc[w].step \in {"credit", "write", "org"} => "captured" \in happened[proc[w].order]
    /\ proc[w].step = "write" => proc[w].validUntil >= proc[w].paidAt + Period[proc[w].order]

\* A row that counts as paid holds a window.
RowInv == \A o \in Orders : row[o].status = "SUCCESS" => row[o].validUntil # Null

\* What is paid has ended the trial, or a request is about to see to that, or half
\* a credit was lost.
TrialInv ==
  (\E o \in Orders : row[o].status = "SUCCESS") =>
    \/ trialEndsAt = Null
    \/ torn # {}
    \/ \E w \in Workers : proc[w].step = "org"

-----------------------------------------------------------------------------
(* The largest of some days, which Base asks for, is there. *)

\* A set of days that is not empty has a last one.
LEMMA LastDay ==
  ASSUME NEW n \in Nat, NEW S \in SUBSET (0..n), S # {}
  PROVE  \E v \in S : \A u \in S : u <= v
<1> DEFINE R == {ss \in Nat \X Nat : ss[1] < ss[2]}
           T == {n - v : v \in S}
<1>1. T \subseteq Nat /\ T # {}
  <2>1. PICK v \in S : TRUE
    OBVIOUS
  <2>2. n - v \in T
    BY <2>1
  <2>3. \A u \in S : n - u \in Nat
    BY SMT
  <2> QED  BY <2>2, <2>3
<1>2. IsWellFoundedOn(R, Nat)
  BY NatLessThanWellFounded, Zenon DEF OpToRel
<1>3. PICK x \in T : \A y \in T : ~ (<<y, x>> \in R)
  <2> HIDE DEF R, T
  <2> QED  BY <1>1, <1>2, WFMin
<1>4. PICK v \in S : x = n - v
  BY <1>3
<1>5. ASSUME NEW u \in S PROVE u <= v
  <2>1. ~ (<<n - u, n - v>> \in R)
    BY <1>3, <1>4
  <2> QED  BY <2>1
<1> QED  BY <1>5

\* Base is that day: not before today, nor before any window another payment bought.
LEMMA BaseIsLast ==
  ASSUME BillingAssumption, TypeOK, RowInv, NEW o \in Orders
  PROVE  /\ Base(o) \in 0..MaxValid
         /\ \A v \in Windows(o) \cup {today} : v <= Base(o)
<1> DEFINE S == Windows(o) \cup {today}
<1>1. today \in 0..MaxValid
  BY DEF TypeOK, BillingAssumption
<1>2. \A p \in Orders : row[p].status = "SUCCESS" => row[p].validUntil \in 0..MaxValid
  BY DEF TypeOK, Rows, RowInv
<1>3. S \in SUBSET (0..MaxValid) /\ S # {}
  BY <1>1, <1>2 DEF Windows
<1>4. \E v \in S : \A u \in S : u <= v
  <2>1. MaxValid \in Nat
    BY DEF BillingAssumption
  <2> HIDE DEF S
  <2> QED  BY <1>3, <2>1, LastDay
<1>5. Base(o) \in S /\ \A u \in S : u <= Base(o)
  BY <1>4 DEF Base
<1> QED  BY <1>3, <1>5

-----------------------------------------------------------------------------
(* Types. *)

\* What a request is in the middle of, by its step.
LEMMA OfProc ==
  ASSUME NEW p \in Procs
  PROVE  /\ p = Idle <=> p.step = "idle"
         /\ p.step \in {"verify", "credit", "write", "org"} => p.order \in Orders
         /\ p.step = "write" => p.paidAt \in 0..MaxDay /\ p.validUntil \in 0..MaxValid
  BY DEF Procs, Idle

\* What w credits is well formed, and w's order.
LEMMA CreditedType ==
  ASSUME TypeOK, NEW w \in Workers, proc[w].step = "write"
  PROVE  /\ proc[w].order \in Orders
         /\ Credited(w) \in [Orders -> Rows]
<1>1. proc[w] \in Procs
  BY DEF TypeOK
<1>2. /\ proc[w].order \in Orders
      /\ proc[w].paidAt \in 0..MaxDay /\ proc[w].validUntil \in 0..MaxValid
  BY <1>1, OfProc
<1>3. [status |-> "SUCCESS", paidAt |-> proc[w].paidAt, validUntil |-> proc[w].validUntil] \in Rows
  BY <1>2 DEF Rows
<1> QED  BY <1>2, <1>3 DEF Credited, TypeOK

\* A step of the model that puts one request in the middle of something.
LEMMA BecomeType ==
  ASSUME TypeOK, NEW w \in Workers, NEW p \in Procs, Become(w, p)
  PROVE  proc' \in [Workers -> Procs]
  BY DEF TypeOK, Become

\* Losing half a credit, and making it good, keep the ledger of losses.
LEMMA TornType ==
  ASSUME TypeOK, NEW w \in Workers, NEW how \in {"died", "answered"},
         proc[w].order \in Orders, Half(w, how) \/ Unlock(proc[w].order) \/ UNCHANGED torn
  PROVE  torn' \subseteq Orders \X {"died", "answered"}
  BY DEF TypeOK, Half, Unlock

LEMMA TypeStep ==
  ASSUME BillingAssumption, TypeOK, RowInv, [Next]_vars
  PROVE  TypeOK'
<1> USE DEF Null
<1>1. Idle \in Procs
  BY DEF Procs
<1>2. \A w \in Workers : proc[w] \in Procs
  BY DEF TypeOK
<1>3. ASSUME NEW o \in Orders, CreateOrder(o) PROVE TypeOK'
  <2>1. row' \in [Orders -> Rows]
    BY <1>3 DEF CreateOrder, TypeOK, Rows
  <2> QED  BY <1>3, <2>1 DEF CreateOrder, TypeOK
<1>4. ASSUME NEW o \in Orders, Attempt(o) PROVE TypeOK'
  BY <1>4 DEF Attempt, AtRazorpay, TypeOK, Events
<1>5. ASSUME NEW o \in Orders, NEW event \in Events, WebhookOther(o, event) PROVE TypeOK'
  <2>1. event \in {"authorized", "failed", "refunded"}
    BY <1>5 DEF WebhookOther, BillingAssumption
  <2>2. StatusFor[event] \in {"AUTHORIZED", "FAILED", "REFUNDED"}
    BY <2>1 DEF StatusFor
  <2>3. row' \in [Orders -> Rows]
    BY <1>5, <2>2, ZenonT(60) DEF WebhookOther, TypeOK, Rows
  <2> QED  BY <1>5, <2>3, ZenonT(60) DEF WebhookOther, TypeOK
<1>6. ASSUME NEW w \in Workers, NEW o \in Orders, Verify(w, o) \/ WebhookCaptured(w, o) PROVE TypeOK'
  <2>1. \A step \in {"verify", "credit"} : [step |-> step, order |-> o] \in Procs
    BY DEF Procs
  <2>2. proc' \in [Workers -> Procs]
    BY <1>6, <2>1, BecomeType DEF Verify, WebhookCaptured
  <2> QED  BY <1>6, <2>2 DEF Verify, WebhookCaptured, TypeOK
<1>7. ASSUME NEW w \in Workers, Fetch(w) PROVE TypeOK'
  <2>1. [step |-> "credit", order |-> proc[w].order] \in Procs
    BY <1>2, <1>7, OfProc DEF Fetch, Procs
  <2>2. proc' \in [Workers -> Procs]
    BY <1>1, <1>7, <2>1, BecomeType DEF Fetch
  <2> QED  BY <1>7, <2>2 DEF Fetch, TypeOK
<1>8. ASSUME NEW w \in Workers, CreditRead(w) PROVE TypeOK'
  <2> DEFINE o == proc[w].order
             p == [step |-> "write", order |-> o, paidAt |-> today, validUntil |-> Base(o) + Period[o]]
  <2>1. o \in Orders
    BY <1>2, <1>8, OfProc DEF CreditRead
  <2>2. ASSUME Followed(o) PROVE p \in Procs
    <3>1. Base(o) \in 0..MaxValid /\ Period[o] \in Nat
      BY <2>1, BaseIsLast DEF BillingAssumption
    <3>2. MaxAgain[o] \in 0..MaxValid /\ MaxValid \in Nat
      BY <2>1 DEF BillingAssumption
    <3>3. Base(o) + Period[o] \in 0..MaxValid
      BY <2>2, <3>1, <3>2 DEF Followed
    <3>4. today \in 0..MaxDay
      BY DEF TypeOK
    <3> QED  BY <2>1, <3>3, <3>4 DEF Procs
  <2>3. \E q \in Procs : Become(w, q)
    BY <1>1, <1>8, <2>2 DEF CreditRead
  <2>4. proc' \in [Workers -> Procs]
    BY <2>3, BecomeType
  <2> QED  BY <1>8, <2>4 DEF CreditRead, TypeOK
<1>9. ASSUME NEW w \in Workers, CreditWrite(w) PROVE TypeOK'
  <2>1. row' \in [Orders -> Rows] /\ proc[w].order \in Orders
    BY <1>9, CreditedType DEF CreditWrite
  <2>2. proc' \in [Workers -> Procs]
    BY <1>1, <1>9, BecomeType DEF CreditWrite
  <2>3. torn' \subseteq Orders \X {"died", "answered"}
    BY <1>9, <2>1, TornType DEF CreditWrite
  <2> QED  BY <1>9, <2>1, <2>2, <2>3 DEF CreditWrite, Unlock, Cleared, TypeOK
<1>10. ASSUME NEW w \in Workers, EdgeCreditRow(w) PROVE TypeOK'
  <2>1. row' \in [Orders -> Rows] /\ proc[w].order \in Orders
    BY <1>10, CreditedType DEF EdgeCreditRow, TypeOK
  <2>2. [step |-> "org", order |-> proc[w].order] \in Procs
    BY <2>1 DEF Procs
  <2>3. proc' \in [Workers -> Procs]
    BY <1>10, <2>2, BecomeType DEF EdgeCreditRow
  <2>4. torn' \subseteq Orders \X {"died", "answered"}
    BY <1>10, <2>1, TornType DEF EdgeCreditRow
  <2> QED  BY <1>10, <2>1, <2>3, <2>4 DEF EdgeCreditRow, TypeOK
<1>11. ASSUME NEW w \in Workers, EdgeCreditOrg(w) PROVE TypeOK'
  <2>1. proc[w].order \in Orders
    BY <1>2, <1>11, OfProc DEF EdgeCreditOrg
  <2>2. proc' \in [Workers -> Procs]
    BY <1>1, <1>11, BecomeType DEF EdgeCreditOrg
  <2>3. torn' \subseteq Orders \X {"died", "answered"}
    BY <1>11, <2>1, TornType DEF EdgeCreditOrg
  <2> QED  BY <1>11, <2>1, <2>2, <2>3 DEF EdgeCreditOrg, Unlock, Cleared, TypeOK
<1>12. ASSUME NEW w \in Workers, Abandon(w) PROVE TypeOK'
  <2>1. proc' \in [Workers -> Procs]
    BY <1>1, <1>12, BecomeType DEF Abandon
  <2>2. torn' \subseteq Orders \X {"died", "answered"}
    <3>1. CASE proc[w].step = "org"
      BY <1>2, <1>12, <3>1, OfProc, TornType DEF Abandon
    <3>2. CASE proc[w].step # "org"
      BY <1>12, <3>2 DEF Abandon, TypeOK
    <3> QED  BY <3>1, <3>2
  <2> QED  BY <1>12, <2>1, <2>2 DEF Abandon, TypeOK
<1>13. CASE NextDay
  BY <1>13 DEF NextDay, TypeOK, BillingAssumption
<1>14. CASE UNCHANGED vars
  BY <1>14 DEF vars, TypeOK
<1> QED
  BY <1>3, <1>4, <1>5, <1>6, <1>7, <1>8, <1>9, <1>10, <1>11, <1>12, <1>13, <1>14 DEF Next

\* A row's status becomes SUCCESS only as its window is written.
LEMMA RowStep ==
  ASSUME BillingAssumption, TypeOK, RowInv, [Next]_vars
  PROVE  RowInv'
<1>1. ASSUME NEW o \in Orders, CreateOrder(o) PROVE RowInv'
  BY <1>1 DEF CreateOrder, TypeOK, Rows, RowInv
<1>2. ASSUME NEW o \in Orders, NEW event \in Events, WebhookOther(o, event) PROVE RowInv'
  <2>1. event \in {"authorized", "failed", "refunded"}
    BY <1>2 DEF WebhookOther, BillingAssumption
  <2>2. StatusFor[event] # "SUCCESS"
    BY <2>1 DEF StatusFor
  <2> QED  BY <1>2, <2>2 DEF WebhookOther, TypeOK, Rows, RowInv
<1>3. ASSUME NEW w \in Workers, CreditWrite(w) \/ EdgeCreditRow(w) PROVE RowInv'
  <2>1. proc[w] \in Procs /\ proc[w].step = "write"
    BY <1>3 DEF TypeOK, CreditWrite, EdgeCreditRow
  <2>2. proc[w].order \in Orders /\ proc[w].validUntil # Null
    BY <2>1, OfProc DEF Null
  <2>3. CASE row' = Credited(w)
    BY <2>2, <2>3 DEF Credited, TypeOK, RowInv
  <2>4. CASE UNCHANGED row
    BY <2>4 DEF RowInv
  <2> QED  BY <1>3, <2>3, <2>4 DEF CreditWrite, EdgeCreditRow
<1>4. CASE UNCHANGED row
  BY <1>4 DEF RowInv
<1> QED
  BY <1>1, <1>2, <1>3, <1>4
  DEF Next, vars, Attempt, AtRazorpay, Verify, WebhookCaptured, Fetch, CreditRead, EdgeCreditOrg, Abandon, NextDay

\* The rows, the requests, the trial marker and the ledger of half credits are
\* well formed in every reachable state; the day up to which a credit reaches is
\* one there is.
THEOREM BillingTypeCorrect == Spec => []TypeOK
<1>1. Init => TypeOK /\ RowInv
  BY BillingAssumption DEF Init, TypeOK, RowInv, Rows, NoRow, Procs, BillingAssumption
<1>2. TypeOK /\ RowInv /\ [Next]_vars => TypeOK' /\ RowInv'
  BY BillingAssumption, TypeStep, RowStep
<1> QED  BY <1>1, <1>2, PTL DEF Spec

-----------------------------------------------------------------------------
(* What is credited. *)

\* Razorpay takes nothing back: what has happened stays so.
LEMMA HappenedGrows ==
  ASSUME TypeOK, [Next]_vars, NEW o \in Orders
  PROVE  happened[o] \subseteq happened'[o]
  BY DEF Next, vars, TypeOK, CreateOrder, Attempt, AtRazorpay, WebhookOther, Verify, WebhookCaptured, Fetch,
         CreditRead, CreditWrite, EdgeCreditRow, EdgeCreditOrg, Abandon, NextDay

\* A request goes on to credit a payment only after it, or Razorpay's webhook, has
\* said that it was captured; and the window it then asks for is a full term long.
LEMMA RequestStep ==
  ASSUME BillingAssumption, TypeOK, RowInv, RequestInv, [Next]_vars
  PROVE  RequestInv'
<1> DEFINE Told(p, h) ==
             /\ p.step \in {"credit", "write", "org"} => "captured" \in h[p.order]
             /\ p.step = "write" => p.validUntil >= p.paidAt + Period[p.order]
<1> SUFFICES ASSUME NEW v \in Workers PROVE Told(proc'[v], happened')
  BY DEF RequestInv
<1>1. proc[v] \in Procs /\ Told(proc[v], happened)
  BY DEF TypeOK, RequestInv
<1>2. ASSUME proc'[v] = proc[v] PROVE Told(proc'[v], happened')
  BY <1>1, <1>2, HappenedGrows, OfProc
<1>3. ASSUME proc'[v] = Idle PROVE Told(proc'[v], happened')
  BY <1>3 DEF Idle
<1>4. ASSUME NEW w \in Workers, NEW p, Become(w, p), v # w \/ Told(p, happened')
      PROVE  Told(proc'[v], happened')
  <2>1. proc'[v] = IF v = w THEN p ELSE proc[v]
    BY <1>4 DEF Become, TypeOK
  <2> QED  BY <1>2, <1>4, <2>1
<1>5. ASSUME NEW w \in Workers, NEW o \in Orders, Verify(w, o) \/ WebhookCaptured(w, o)
      PROVE  Told(proc'[v], happened')
  <2>1. CASE Verify(w, o)
    BY <1>4, <2>1 DEF Verify
  <2>2. CASE WebhookCaptured(w, o)
    BY <1>4, <2>2 DEF WebhookCaptured
  <2> QED  BY <1>5, <2>1, <2>2
<1>6. ASSUME NEW w \in Workers, Fetch(w) PROVE Told(proc'[v], happened')
  <2> DEFINE o == proc[w].order
  <2>1. CASE Captured(o)
    <3>1. Become(w, [step |-> "credit", order |-> o]) /\ happened' = happened
      BY <1>6, <2>1 DEF Fetch
    <3> QED  BY <1>4, <2>1, <3>1 DEF Captured
  <2>2. CASE ~Captured(o)
    BY <1>3, <1>4, <1>6, <2>2 DEF Fetch, Idle
  <2> QED  BY <2>1, <2>2
<1>7. ASSUME NEW w \in Workers, CreditRead(w) PROVE Told(proc'[v], happened')
  <2> DEFINE o == proc[w].order
             p == [step |-> "write", order |-> o, paidAt |-> today, validUntil |-> Base(o) + Period[o]]
  <2>1. o \in Orders /\ "captured" \in happened[o] /\ happened' = happened
    BY <1>7, OfProc DEF CreditRead, TypeOK, RequestInv
  <2>2. CASE Followed(o)
    <3>1. Base(o) \in 0..MaxValid /\ today <= Base(o)
      BY <2>1, BaseIsLast
    <3>2. Base(o) + Period[o] >= today + Period[o]
      BY <2>1, <3>1 DEF TypeOK, BillingAssumption
    <3>3. Become(w, p)
      BY <1>7, <2>2 DEF CreditRead
    <3> QED  BY <1>4, <2>1, <3>2, <3>3
  <2>3. CASE ~Followed(o)
    BY <1>4, <1>7, <2>3 DEF CreditRead, Idle
  <2> QED  BY <2>2, <2>3
<1>8. ASSUME NEW w \in Workers, EdgeCreditRow(w) PROVE Told(proc'[v], happened')
  <2>1. "captured" \in happened[proc[w].order] /\ happened' = happened
    BY <1>8 DEF EdgeCreditRow, RequestInv
  <2>2. Become(w, [step |-> "org", order |-> proc[w].order])
    BY <1>8 DEF EdgeCreditRow
  <2> QED  BY <1>4, <2>1, <2>2
<1>9. ASSUME NEW w \in Workers, CreditWrite(w) \/ EdgeCreditOrg(w) \/ Abandon(w)
      PROVE  Told(proc'[v], happened')
  <2>1. Become(w, Idle)
    BY <1>9 DEF CreditWrite, EdgeCreditOrg, Abandon
  <2> QED  BY <1>4, <2>1 DEF Idle
<1>10. CASE UNCHANGED proc
  BY <1>2, <1>10
<1> QED
  BY <1>5, <1>6, <1>7, <1>8, <1>9, <1>10
  DEF Next, vars, CreateOrder, Attempt, AtRazorpay, WebhookOther, NextDay

\* A row and the trial marker owe what they say to a payment that was captured.
LEMMA CreditStep ==
  ASSUME BillingAssumption, TypeOK, RequestInv, CreditedOnlyIfCaptured, [Next]_vars
  PROVE  CreditedOnlyIfCaptured'
<1> DEFINE Earned(r, o, h) ==
             /\ r.status = "SUCCESS" \/ r.validUntil # Null => "captured" \in h
             /\ r.status = "SUCCESS" => r.validUntil >= r.paidAt + Period[o]
<1>1. ASSUME NEW o \in Orders, Earned(row'[o], o, happened[o])
      PROVE  Earned(row'[o], o, happened'[o])
  BY <1>1, HappenedGrows
<1>2. ASSUME NEW o \in Orders PROVE Earned(row'[o], o, happened'[o])
  <2>1. Earned(row[o], o, happened[o])
    BY DEF CreditedOnlyIfCaptured
  <2>2. ASSUME row'[o].status # "SUCCESS", row'[o].validUntil = row[o].validUntil
        PROVE  Earned(row'[o], o, happened'[o])
    BY <1>1, <2>1, <2>2
  <2>3. ASSUME NEW p \in Orders, CreateOrder(p) PROVE Earned(row'[o], o, happened'[o])
    <3>1. row'[o] = IF o = p THEN [row[o] EXCEPT !.status = "CREATED"] ELSE row[o]
      BY <2>3 DEF CreateOrder, TypeOK
    <3>2. CASE o = p
      BY <2>2, <3>1, <3>2 DEF TypeOK, Rows
    <3>3. CASE o # p
      BY <1>1, <2>1, <3>1, <3>3
    <3> QED  BY <3>2, <3>3
  <2>4. ASSUME NEW p \in Orders, NEW event \in Events, WebhookOther(p, event)
        PROVE  Earned(row'[o], o, happened'[o])
    <3>1. event \in {"authorized", "failed", "refunded"}
      BY <2>4 DEF WebhookOther, BillingAssumption
    <3>2. StatusFor[event] # "SUCCESS"
      BY <3>1 DEF StatusFor
    <3>3. row'[o] = IF o = p THEN [row[o] EXCEPT !.status = StatusFor[event]] ELSE row[o]
      BY <2>4 DEF WebhookOther, TypeOK
    <3>4. CASE o = p
      BY <2>2, <3>2, <3>3, <3>4 DEF TypeOK, Rows
    <3>5. CASE o # p
      BY <1>1, <2>1, <3>3, <3>5
    <3> QED  BY <3>4, <3>5
  <2>5. ASSUME NEW w \in Workers, proc[w].step = "write", row' = Credited(w)
        PROVE  Earned(row'[o], o, happened'[o])
    <3>1. row'[o] = IF o = proc[w].order
                    THEN [status |-> "SUCCESS", paidAt |-> proc[w].paidAt, validUntil |-> proc[w].validUntil]
                    ELSE row[o]
      BY <2>5 DEF Credited, TypeOK
    <3>2. /\ "captured" \in happened[proc[w].order]
          /\ proc[w].validUntil >= proc[w].paidAt + Period[proc[w].order]
      BY <2>5 DEF RequestInv
    <3>3. Earned(row'[o], o, happened[o])
      BY <2>1, <3>1, <3>2
    <3> QED  BY <1>1, <3>3
  <2>6. CASE UNCHANGED row
    BY <1>1, <2>1, <2>6
  <2> QED
    BY <2>3, <2>4, <2>5, <2>6
    DEF Next, vars, Attempt, AtRazorpay, Verify, WebhookCaptured, Fetch, CreditRead, CreditWrite,
        EdgeCreditRow, EdgeCreditOrg, Abandon, NextDay
<1>3. ASSUME trialEndsAt' = Null PROVE \E o \in Orders : "captured" \in happened'[o]
  <2>1. CASE trialEndsAt = Null
    BY <2>1, HappenedGrows DEF CreditedOnlyIfCaptured
  <2>2. CASE trialEndsAt # Null
    <3>1. PICK w \in Workers : CreditWrite(w) \/ EdgeCreditOrg(w)
      BY <1>3, <2>2
      DEF Next, vars, CreateOrder, Attempt, AtRazorpay, WebhookOther, Verify, WebhookCaptured, Fetch,
          CreditRead, EdgeCreditRow, Abandon, NextDay
    <3>2. proc[w] \in Procs /\ proc[w].step \in {"write", "org"}
      BY <3>1 DEF TypeOK, CreditWrite, EdgeCreditOrg
    <3>3. proc[w].order \in Orders /\ "captured" \in happened[proc[w].order]
      BY <3>2, OfProc DEF RequestInv
    <3> QED  BY <3>3, HappenedGrows
  <2> QED  BY <2>1, <2>2
<1> QED  BY <1>2, <1>3 DEF CreditedOnlyIfCaptured

\* verifyPayment and the webhook grant a window, and end the trial, only for money
\* that Razorpay captured, and for no less than the term that was bought, however
\* the calls interleave and repeat.
THEOREM CreditedWhenCaptured == Spec => []CreditedOnlyIfCaptured
<1> DEFINE Inv == TypeOK /\ RowInv /\ RequestInv /\ CreditedOnlyIfCaptured
<1>1. Init => Inv
  <2> SUFFICES ASSUME Init PROVE Inv
    OBVIOUS
  <2>1. TypeOK /\ RowInv
    BY BillingAssumption DEF Init, TypeOK, RowInv, Rows, NoRow, Procs, BillingAssumption
  <2>2. RequestInv
    BY DEF Init, RequestInv, Idle
  <2>3. CreditedOnlyIfCaptured
    BY BillingAssumption DEF Init, CreditedOnlyIfCaptured, NoRow, Null, BillingAssumption
  <2> QED  BY <2>1, <2>2, <2>3
<1>2. Inv /\ [Next]_vars => Inv'
  BY BillingAssumption, TypeStep, RowStep, RequestStep, CreditStep
<1> QED  BY <1>1, <1>2, PTL DEF Spec

-----------------------------------------------------------------------------
(* How the organisation is counted. *)

\* The trial of an organisation that has paid is over, but between the two updates
\* of the edge or when one of the two was lost.
LEMMA TrialStep ==
  ASSUME BillingAssumption, TypeOK, TrialInv, [Next]_vars
  PROVE  TrialInv'
<1> DEFINE Paid(r) == \E o \in Orders : r[o].status = "SUCCESS"
           AtOrg(w) == proc[w].step = "org"
<1>1. ASSUME NEW o \in Orders, CreateOrder(o) PROVE TrialInv'
  <2>1. Paid(row') => Paid(row)
    BY <1>1 DEF CreateOrder, TypeOK, Rows
  <2> QED  BY <1>1, <2>1 DEF CreateOrder, TrialInv
<1>2. ASSUME NEW o \in Orders, NEW event \in Events, WebhookOther(o, event) PROVE TrialInv'
  <2>1. event \in {"authorized", "failed", "refunded"}
    BY <1>2 DEF WebhookOther, BillingAssumption
  <2>2. StatusFor[event] # "SUCCESS"
    BY <2>1 DEF StatusFor
  <2>3. Paid(row') => Paid(row)
    BY <1>2, <2>2 DEF WebhookOther, TypeOK, Rows
  <2> QED  BY <1>2, <2>3 DEF WebhookOther, TrialInv
<1>3. ASSUME NEW w \in Workers, NEW p, Become(w, p), proc[w].step # "org" \/ torn' # {},
             UNCHANGED <<row, trialEndsAt>>, torn # {} => torn' # {}
      PROVE  TrialInv'
  <2>1. \A v \in Workers : v # w => proc'[v] = proc[v]
    BY <1>3 DEF Become, TypeOK
  <2> QED  BY <1>3, <2>1 DEF TrialInv
<1>4. ASSUME NEW w \in Workers, NEW o \in Orders, Verify(w, o) \/ WebhookCaptured(w, o) PROVE TrialInv'
  <2>1. proc[w].step # "org"
    BY <1>4 DEF Verify, WebhookCaptured, Idle
  <2> QED  BY <1>3, <1>4, <2>1 DEF Verify, WebhookCaptured
<1>5. ASSUME NEW w \in Workers, Fetch(w) \/ CreditRead(w) PROVE TrialInv'
  <2>1. proc[w].step # "org" /\ UNCHANGED <<row, trialEndsAt, torn>>
    BY <1>5 DEF Fetch, CreditRead
  <2>2. \E p : Become(w, p)
    BY <1>5 DEF Fetch, CreditRead
  <2> QED  BY <1>3, <2>1, <2>2
<1>6. ASSUME NEW w \in Workers, CreditWrite(w) PROVE TrialInv'
  BY <1>6 DEF CreditWrite, Unlock, Cleared, TrialInv
<1>7. ASSUME NEW w \in Workers, EdgeCreditRow(w) PROVE TrialInv'
  <2>1. proc'[w].step = "org"
    BY <1>7 DEF EdgeCreditRow, Become, TypeOK
  <2> QED  BY <2>1 DEF TrialInv
<1>8. ASSUME NEW w \in Workers, EdgeCreditOrg(w) PROVE TrialInv'
  BY <1>8 DEF EdgeCreditOrg, Unlock, Cleared, Half, TrialInv
<1>9. ASSUME NEW w \in Workers, Abandon(w) PROVE TrialInv'
  BY <1>3, <1>9 DEF Abandon, Half
<1>10. CASE UNCHANGED <<row, trialEndsAt, torn, proc>>
  BY <1>10 DEF TrialInv
<1> QED
  BY <1>1, <1>2, <1>4, <1>5, <1>6, <1>7, <1>8, <1>9, <1>10 DEF Next, vars, Attempt, AtRazorpay, NextDay

\* What an organisation that has bought windows is counted as, and what one is that
\* has bought none.
LEMMA OneBucket ==
  ASSUME BillingAssumption, TypeOK, RowInv, TrialInv,
         torn = {}, \A w \in Workers : proc[w].step # "org"
  PROVE  \E b \in Buckets :
           /\ Counted = {b}
           /\ Page.status = "TRIAL" <=> b = "onTrial"
           /\ Page.running # {} <=> b = "payingNow"
           /\ LetIn /\ Page.status = "PAID" /\ b = "trialExpired" => trialEndsAt = today
<1> USE DEF Null
<1>1. today \in Int /\ today >= 0 /\ trialEndsAt \in Int /\ Bought \subseteq Int
  BY DEF TypeOK, Rows, RowInv, Bought, BillingAssumption
<1>2. Bought # {} => trialEndsAt = Null
  BY DEF TrialInv, Bought
<1>3. /\ Page.status = "TRIAL" <=> trialEndsAt > today
      /\ Page.status = "PAID" <=> ~(trialEndsAt > today)
      /\ Page.running # {} <=> \E v \in Bought : v > today
  BY DEF Page, InTrial
<1> HIDE DEF Page
<1>4. CASE \E v \in Bought : v > today
  <2>1. Counted = {"payingNow"}
    BY <1>1, <1>2, <1>4 DEF Counted, Buckets
  <2> QED  BY <1>1, <1>2, <1>3, <1>4, <2>1 DEF Buckets
<1>5. CASE Bought # {} /\ ~(\E v \in Bought : v > today)
  <2>1. Counted = {"churned"}
    BY <1>1, <1>2, <1>5 DEF Counted, Buckets
  <2> QED  BY <1>1, <1>2, <1>3, <1>5, <2>1 DEF Buckets
<1>6. CASE Bought = {} /\ trialEndsAt = Null
  <2>1. Counted = {"fullUnbilled"}
    BY <1>1, <1>6 DEF Counted, Buckets
  <2> QED  BY <1>1, <1>3, <1>6, <2>1 DEF Buckets
<1>7. CASE Bought = {} /\ trialEndsAt > today
  <2>1. Counted = {"onTrial"}
    BY <1>1, <1>7 DEF Counted, Buckets
  <2> QED  BY <1>1, <1>3, <1>7, <2>1 DEF Buckets
<1>8. CASE Bought = {} /\ trialEndsAt # Null /\ trialEndsAt <= today
  <2>1. Counted = {"trialExpired"}
    BY <1>1, <1>8 DEF Counted, Buckets
  <2>2. LetIn => trialEndsAt = today
    BY <1>1, <1>8 DEF LetIn
  <2> QED  BY <1>1, <1>3, <1>8, <2>1, <2>2 DEF Buckets
<1> QED  BY <1>1, <1>4, <1>5, <1>6, <1>7, <1>8

\* The analytics count every organisation in one place, and its own billing page
\* agrees with them, unless an edge credit is half written.
THEOREM CountedInOnePlace == Spec => []CountedOnce
<1> DEFINE Inv == TypeOK /\ RowInv /\ TrialInv
<1>1. Init => Inv
  <2> SUFFICES ASSUME Init PROVE Inv
    OBVIOUS
  <2>1. TypeOK /\ RowInv
    BY BillingAssumption DEF Init, TypeOK, RowInv, Rows, NoRow, Procs, BillingAssumption
  <2>2. TrialInv
    BY DEF Init, TrialInv, NoRow
  <2> QED  BY <2>1, <2>2
<1>2. Inv /\ [Next]_vars => Inv'
  BY BillingAssumption, TypeStep, RowStep, TrialStep
<1>3. Inv => CountedOnce
  BY BillingAssumption, OneBucket DEF CountedOnce
<1> QED  BY <1>1, <1>2, <1>3, PTL DEF Spec

-----------------------------------------------------------------------------
(* The steps of a request. *)

Steps == {"profile", "checked", "import", "signatories", "registration", "removal", "directors",
          "plan", "calendar", "edge profile", "edge import", "edge signatories",
          "edge registration", "edge certificate",
          "account", "login", "rpc", "user row", "company row", "grant row", "undo"}

\* Which step comes after which, or ends the request.
Follows ==
  {<<s, "plan">> : s \in {"profile", "checked", "account", "signatories", "registration", "removal", "directors"}}
  \cup {<<"import", "signatories">>, <<"plan", "calendar">>, <<"calendar", "plan">>,
        <<"calendar", "registration">>, <<"edge import", "edge signatories">>, <<"login", "rpc">>,
        <<"user row", "company row">>, <<"company row", "grant row">>}
  \cup {<<s, "end">> : s \in {"calendar", "edge profile", "edge signatories", "edge registration",
                              "edge certificate", "rpc", "grant row", "undo"}}

AfterStep(todo, i) == IF i = Len(todo) THEN "end" ELSE todo[i + 1]

\* A registration is the one step to take that is not about the calendar.
InOrder(todo) ==
  /\ todo \in Seq(Steps)
  /\ \A i \in 1..Len(todo) : <<todo[i], AfterStep(todo, i)>> \in Follows
  /\ \A i, j \in 1..Len(todo) :
       todo[i] = "registration" /\ todo[j] \notin {"plan", "calendar"} => i = j

Ahead(todo) == {todo[i] : i \in 1..Len(todo)}

-----------------------------------------------------------------------------
(* Types. *)

Named    == Cins \cup {None}
Restated == Cins \cup {Typed}
HeldOf   == Numbers \cup {None, Typed}
Profiles == [facts : Restated, held : [Numbers -> HeldOf], rest : BOOLEAN]

\* What a request carries.
ProfileBodies  == [cin : Named, facts : Restated]
SignUpBodies   == [cin : Named, email : Emails, facts : Restated]
ImportBodies   == [cin : Cins \cup {"same"}, facts : Cins \cup {"same"}]
Entries        == [number : Numbers, facts : Numbers \cup {Typed, Hollow}, slip : BOOLEAN]
Removals       == [number : Numbers]
Staffing       == [directors : BOOLEAN]
AllBodies == ProfileBodies \cup SignUpBodies \cup ImportBodies \cup Entries
             \cup Removals \cup Staffing \cup {Nothing}

Saved   == {"nothing", "typed", "entry", "removal"}
Running == [pc : {"run"}, of : Companies, todo : Seq(Steps) \ {<<>>}, body : AllBodies, page : BOOLEAN,
            sure : BOOLEAN, wrote : BOOLEAN, saved : Saved, plan : Profiles \cup {Nothing}]
Waiting == [pc : {"answer"}, saved : Saved]

ServerType ==
  /\ kind \in {"profile", "gst", "udyam", "onboarding"}
  /\ cin \in [Companies -> Named \cup {Absent}]
  /\ facts \in [Companies -> Restated]
  /\ held \in [Companies -> [Numbers -> HeldOf]]
  /\ rest \in [Companies -> BOOLEAN]
  /\ calendar \in [Companies -> Profiles]
  /\ req \in [Requests -> Running \cup Waiting \cup {NoRequest}]
  /\ made \in Nat /\ faults \in Nat
  /\ lagging \subseteq Companies /\ unchecked \subseteq Companies
  /\ slipped \subseteq Companies \X Numbers

Sections == [typed : Numbers \cup {None}, session : Numbers \cup {None}, verified : Numbers \cup {None},
             entry : Numbers \cup {None, Hollow}, slip : BOOLEAN, doubt : BOOLEAN]
Asking   == [ask : {"session"}, number : Numbers]
            \cup [ask : {"entry"}, session : Numbers, number : Numbers, slip : BOOLEAN]

FormType ==
  /\ page \in [on : Companies \cup {Nowhere}, cin : Named, facts : Restated]
  /\ page.on # Nowhere => page.on \in There
  /\ asked \subseteq Cins
  /\ section \in Sections
  /\ calls \subseteq Asking

Sheets == [at : {Nowhere, "sign-up", "new"}, cin : Named, facts : Restated \cup {None},
           tick : Restated \cup {None}]

Accounts == [login : BOOLEAN, row : {None, "own", "managed"}, of : Companies \cup {None}, granted : BOOLEAN]

AccountType ==
  /\ account \in [Emails -> Accounts]
  /\ stranded \subseteq Emails

DoorType ==
  /\ sheet \in Sheets
  /\ asks \subseteq [cin : Cins, form : Sheets]

-----------------------------------------------------------------------------
(* What a request in flight knows. *)

SignUpSteps == {"account", "login", "rpc", "undo"} \cup Inserts

\* What it carries fits the steps it has to take.
Carries(q) ==
  /\ InOrder(q.todo)
  /\ Head(q.todo) \in {"profile", "checked", "edge profile"} =>
       q.body \in ProfileBodies
  /\ Head(q.todo) \in SignUpSteps =>
       kind = "onboarding" /\ q.body \in SignUpBodies
  /\ Head(q.todo) \in {"import", "edge import"} => q.body \in ImportBodies
  /\ "registration" \in Ahead(q.todo) \/ Head(q.todo) \in {"edge registration", "edge certificate"} =>
       q.body \in Entries /\ (~q.body.slip => q.body.facts \in {Typed, Hollow, q.body.number})
  /\ Head(q.todo) = "removal" => q.body \in Removals
  /\ Head(q.todo) = "directors" => q.body \in Staffing
  /\ Head(q.todo) = "calendar" => q.plan \in Profiles
  /\ Head(q.todo) = "signatories" => q.wrote

\* What it has read and nobody has overtaken still holds.
Stands(q) ==
  /\ Head(q.todo) = "checked" => ~CinTaken(q.body.cin, q.of)
  /\ Head(q.todo) \in {"account", "login", "rpc", "user row", "company row"} =>
       (q.body.cin # None => Holders(q.body.cin, None) = {})
  /\ Head(q.todo) = "calendar" => q.plan = Profile(q.of)

RequestsInv ==
  \A r \in Requests : req[r].pc = "run" => Carries(req[r]) /\ (req[r].sure => Stands(req[r]))

-----------------------------------------------------------------------------
(* Calendars, forms, accounts. *)

\* The request has written the company's rows and is on its way to its calendar.
Owes(q, c) == q.pc = "run" /\ q.of = c /\ q.wrote /\ Head(q.todo) \in {"plan", "calendar", "signatories"}

\* A company has the calendar of its profile, or some request owes it.
CalendarInv ==
  \A c \in There \ lagging : calendar[c] = Profile(c) \/ \E r \in Requests : Owes(req[r], c)

\* What the section holds, and will be told, is of one number unless it says otherwise.
FormInv ==
  /\ ~section.slip /\ section.session # None /\ section.typed # None => section.session = section.typed
  /\ section.verified # None => section.entry # None
  /\ ~section.doubt /\ section.verified # None => section.entry \in {Hollow, section.verified}
  /\ \A k \in calls : k.ask = "entry" /\ ~k.slip => k.session = k.number

SheetInv ==
  /\ \A k \in asks : k.form.at = sheet.at
  /\ sheet.at = Nowhere => sheet.cin = None /\ asks = {}

\* Whoever can sign in has everything, or whoever created the login is under way.
Whole(e) == account[e].row # None /\ account[e].granted /\ account[e].of \in There

UnderWay(r, e) == \E step \in {"rpc", "undo"} \cup Inserts : At(r, step) /\ req[r].body.email = e

AccountInv ==
  /\ \A e \in Emails :
       /\ account[e].row = "own" => Whole(e)
       /\ account[e].login /\ e \notin stranded => Whole(e) \/ \E r \in Requests : UnderWay(r, e)
  /\ \A r \in Requests :
       /\ At(r, "company row") => account[req[r].body.email].row # None
       /\ At(r, "grant row") => account[req[r].body.email].row # None /\ account[req[r].body.email].of \in There

\* A registration restates its own entry, also of a company that is not there yet.
EntryInv ==
  \A c \in Companies, n \in Numbers : <<c, n>> \notin slipped => held[c][n] \in {None, Typed, n}

ServerInv ==
  /\ ServerType /\ RequestsInv /\ CalendarInv
  /\ CinHeldOnce /\ EntryInv

OnboardingInv == ServerInv /\ FormType /\ FormInv /\ AccountType /\ AccountInv /\ DoorType /\ SheetInv

-----------------------------------------------------------------------------
(* Lemmas about the steps to take. *)

\* What is left after a step is in order, and begins with what follows it.
LEMMA Tails ==
  ASSUME NEW t, InOrder(t), t # <<>>
  PROVE  /\ Head(t) \in Steps
         /\ Tail(t) = <<>> => <<Head(t), "end">> \in Follows
         /\ Tail(t) # <<>> => InOrder(Tail(t)) /\ <<Head(t), Head(Tail(t))>> \in Follows
         /\ "registration" \in Ahead(Tail(t)) => "registration" \in Ahead(t) /\ Head(t) \in {"plan", "calendar"}
         /\ Head(t) = "registration" => "registration" \in Ahead(t)
<1>1. /\ t \in Seq(Steps) /\ Len(t) \in Nat /\ Len(t) >= 1 /\ Head(t) = t[1]
      /\ 1 \in 1..Len(t)
  BY DEF InOrder
<1>2. /\ Tail(t) \in Seq(Steps) /\ Len(Tail(t)) = Len(t) - 1
      /\ \A i \in 1..Len(t) - 1 : Tail(t)[i] = t[i + 1]
  BY <1>1
<1>3. Tail(t) # <<>> => Len(t) - 1 >= 1 /\ Head(Tail(t)) = t[2]
  BY <1>1, <1>2
<1>4. <<t[1], AfterStep(t, 1)>> \in Follows
  BY <1>1 DEF InOrder
<1>5. Tail(t) = <<>> => Len(t) = 1
  <2>1. PICK n \in Nat : n = Len(t)
    BY <1>1
  <2>2. PICK u : u = Tail(t)
    OBVIOUS
  <2>3. Len(u) = n - 1
    BY <1>2, <2>1, <2>2
  <2>4. u = <<>> => n = 1
    BY <2>3
  <2> QED  BY <2>1, <2>2, <2>4
<1>6. Tail(t) = <<>> => <<Head(t), "end">> \in Follows
  BY <1>1, <1>4, <1>5 DEF AfterStep
<1>7. ASSUME Tail(t) # <<>> PROVE InOrder(Tail(t)) /\ <<Head(t), Head(Tail(t))>> \in Follows
  <2>1. <<Head(t), Head(Tail(t))>> \in Follows
    BY <1>1, <1>3, <1>4, <1>7 DEF AfterStep
  <2>2. ASSUME NEW i \in 1..Len(Tail(t))
        PROVE  <<Tail(t)[i], AfterStep(Tail(t), i)>> \in Follows
    <3>1. i + 1 \in 1..Len(t) /\ Tail(t)[i] = t[i + 1]
      BY <1>1, <1>2
    <3>2. AfterStep(Tail(t), i) = AfterStep(t, i + 1)
      <4>1. i = Len(Tail(t)) <=> i + 1 = Len(t)
        BY <1>1, <1>2
      <4>2. ASSUME i # Len(Tail(t)) PROVE Tail(t)[i + 1] = t[i + 1 + 1]
        <5>1. i + 1 \in 1..Len(t) - 1
          <6>1. i \in 1..Len(t) - 1 /\ i # Len(t) - 1
            BY <1>2, <4>2
          <6> QED  BY <6>1, <1>1
        <5> QED  BY <5>1, <1>2
      <4>3. CASE i = Len(Tail(t))
        BY <4>1, <4>3, Zenon DEF AfterStep
      <4>4. CASE i # Len(Tail(t))
        BY <4>1, <4>2, <4>4, Zenon DEF AfterStep
      <4> QED  BY <4>3, <4>4
    <3> QED  BY <3>1, <3>2 DEF InOrder
  <2>3. ASSUME NEW i \in 1..Len(Tail(t)), NEW j \in 1..Len(Tail(t)),
               Tail(t)[i] = "registration", Tail(t)[j] \notin {"plan", "calendar"}
        PROVE  i = j
    <3>1. /\ i + 1 \in 1..Len(t) /\ Tail(t)[i] = t[i + 1]
          /\ j + 1 \in 1..Len(t) /\ Tail(t)[j] = t[j + 1]
      BY <1>1, <1>2
    <3>2. i + 1 = j + 1
      BY <3>1, <2>3 DEF InOrder
    <3> QED  BY <3>2, <1>1, <1>2
  <2> QED  BY <2>1, <2>2, <2>3, <1>2 DEF InOrder
<1>8. ASSUME "registration" \in Ahead(Tail(t))
      PROVE  "registration" \in Ahead(t) /\ Head(t) \in {"plan", "calendar"}
  <2>1. PICK i \in 1..Len(Tail(t)) : Tail(t)[i] = "registration"
    BY <1>8 DEF Ahead
  <2>2. i + 1 \in 1..Len(t) /\ t[i + 1] = "registration" /\ i + 1 # 1
    BY <2>1, <1>1, <1>2
  <2>3. t[1] \in {"plan", "calendar"}
    BY <2>2, <1>1 DEF InOrder
  <2> QED  BY <2>2, <2>3, <1>1 DEF Ahead
<1>9. Head(t) = "registration" => "registration" \in Ahead(t)
  BY <1>1 DEF Ahead
<1> QED  BY <1>1, <1>6, <1>7, <1>8, <1>9

\* What may come next, step by step.
LEMMA NextStep ==
  ASSUME NEW a, NEW b, <<a, b>> \in Follows
  PROVE  /\ a \in {"profile", "checked", "account", "signatories", "registration", "removal", "directors"} => b = "plan"
         /\ a = "import" => b = "signatories"
         /\ a = "plan" => b = "calendar"
         /\ a = "calendar" => b \in {"plan", "registration", "end"}
         /\ a = "edge import" => b = "edge signatories"
         /\ a = "login" => b = "rpc"
         /\ a = "user row" => b = "company row"
         /\ a = "company row" => b = "grant row"
         /\ a \in {"edge profile", "edge signatories", "edge registration", "edge certificate", "rpc",
                    "grant row", "undo"} => b = "end"
  BY DEF Follows

\* A request of one step that may be the last.
LEMMA OneStep ==
  ASSUME NEW s \in Steps, <<s, "end">> \in Follows
  PROVE  /\ <<s>> # <<>> /\ Head(<<s>>) = s /\ InOrder(<<s>>)
         /\ Ahead(<<s>>) = {s}
<1>1. PICK t : t = <<s>>
  OBVIOUS
<1>2. t \in Seq(Steps) /\ Len(t) = 1 /\ t[1] = s /\ Head(t) = s /\ t # <<>>
  BY <1>1
<1>3. \A i \in 1..1 : i = 1
  OBVIOUS
<1>4. InOrder(t)
  BY <1>2, <1>3 DEF InOrder, AfterStep
<1>5. Ahead(t) = {s}
  BY <1>2, <1>3 DEF Ahead
<1> QED  BY <1>1, <1>2, <1>4, <1>5

\* Of two.
LEMMA TwoSteps ==
  ASSUME NEW a \in Steps, NEW b \in Steps, <<a, b>> \in Follows, <<b, "end">> \in Follows,
         a # "registration", b # "registration"
  PROVE  /\ <<a, b>> # <<>> /\ Head(<<a, b>>) = a /\ InOrder(<<a, b>>)
         /\ "registration" \notin Ahead(<<a, b>>)
<1>1. PICK t : t = <<a, b>>
  OBVIOUS
<1>2. t \in Seq(Steps) /\ Len(t) = 2 /\ t[1] = a /\ t[2] = b /\ Head(t) = a /\ t # <<>>
  BY <1>1
<1>3. \A i \in 1..2 : i = 1 \/ i = 2
  OBVIOUS
<1>4. InOrder(t)
  BY <1>2, <1>3 DEF InOrder, AfterStep
<1>5. "registration" \notin Ahead(t)
  BY <1>2, <1>3 DEF Ahead
<1> QED  BY <1>1, <1>2, <1>4, <1>5

\* Of three, or of five.
LEMMA ThreeSteps ==
  ASSUME NEW t \in Seq(Steps), Len(t) = 3,
         <<t[1], t[2]>> \in Follows, <<t[2], t[3]>> \in Follows, <<t[3], "end">> \in Follows,
         \A i \in 1..3 : t[i] # "registration"
  PROVE  t # <<>> /\ Head(t) = t[1] /\ InOrder(t) /\ "registration" \notin Ahead(t)
<1>1. \A i \in 1..3 : i = 1 \/ i = 2 \/ i = 3
  OBVIOUS
<1>2. AfterStep(t, 1) = t[2] /\ AfterStep(t, 2) = t[3] /\ AfterStep(t, 3) = "end"
  BY DEF AfterStep
<1>3. \A i \in 1..3 : <<t[i], AfterStep(t, i)>> \in Follows
  BY <1>1, <1>2
<1> QED  BY <1>3 DEF InOrder, Ahead

LEMMA FiveSteps ==
  ASSUME NEW t \in Seq(Steps), Len(t) = 5,
         <<t[1], t[2]>> \in Follows, <<t[2], t[3]>> \in Follows, <<t[3], t[4]>> \in Follows,
         <<t[4], t[5]>> \in Follows, <<t[5], "end">> \in Follows
  PROVE  /\ t # <<>> /\ Head(t) = t[1]
         /\ \A i \in 1..5 : <<t[i], AfterStep(t, i)>> \in Follows
         /\ \A i \in 1..5 : i = 1 \/ i = 2 \/ i = 3 \/ i = 4 \/ i = 5
<1>1. \A i \in 1..5 : i = 1 \/ i = 2 \/ i = 3 \/ i = 4 \/ i = 5
  OBVIOUS
<1>2. /\ AfterStep(t, 1) = t[2] /\ AfterStep(t, 2) = t[3] /\ AfterStep(t, 3) = t[4]
      /\ AfterStep(t, 4) = t[5] /\ AfterStep(t, 5) = "end"
  BY DEF AfterStep
<1>3. \A i \in 1..5 : <<t[i], AfterStep(t, i)>> \in Follows
  BY <1>1, <1>2
<1> QED  BY <1>1, <1>3

\* A write, and the calendar.
LEMMA ThenSync ==
  ASSUME NEW a \in {"profile", "account", "removal", "directors"}
  PROVE  /\ <<a>> \o Sync # <<>> /\ Head(<<a>> \o Sync) = a /\ InOrder(<<a>> \o Sync)
         /\ "registration" \notin Ahead(<<a>> \o Sync)
<1>1. PICK t : t = <<a>> \o Sync
  OBVIOUS
<1>2. Len(t) = 3
  BY <1>1 DEF Sync
<1>3. t[1] = a /\ t[2] = "plan" /\ t[3] = "calendar"
  BY <1>1 DEF Sync
<1>4. t \in Seq(Steps)
  <2>1. a \in Steps
    BY DEF Steps
  <2>2. <<"plan", "calendar">> \in Seq(Steps)
    BY DEF Steps
  <2> QED  BY <1>1, <2>1, <2>2 DEF Sync
<1>5. <<"calendar", "end">> \in Follows /\ <<"plan", "calendar">> \in Follows /\ <<a, "plan">> \in Follows
  BY DEF Follows
<1>6. \A i \in 1..3 : t[i] # "registration"
  <2>1. \A i \in 1..3 : i = 1 \/ i = 2 \/ i = 3
    OBVIOUS
  <2> QED  BY <1>3, <2>1
<1> QED  BY <1>1, <1>2, <1>3, <1>4, <1>5, <1>6, ThreeSteps

\* The update of a profile.
LEMMA CheckedSync ==
  /\ <<"checked">> \o Sync \o Sync # <<>> /\ Head(<<"checked">> \o Sync \o Sync) = "checked" /\ InOrder(<<"checked">> \o Sync \o Sync)
  /\ "registration" \notin Ahead(<<"checked">> \o Sync \o Sync)
<1>1. PICK t : t = <<"checked">> \o Sync \o Sync
  OBVIOUS
<1>2. Len(t) = 5
  BY <1>1 DEF Sync
<1>3. t[1] = "checked" /\ t[2] = "plan" /\ t[3] = "calendar" /\ t[4] = "plan" /\ t[5] = "calendar"
  BY <1>1 DEF Sync
<1>4. t \in Seq(Steps)
  <2>1. <<"checked">> \in Seq(Steps)
    BY DEF Steps
  <2>2. <<"plan", "calendar">> \in Seq(Steps)
    BY DEF Steps
  <2> QED  BY <1>1, <2>1, <2>2 DEF Sync
<1>5. <<"calendar", "end">> \in Follows /\ <<"calendar", "plan">> \in Follows /\ <<"checked", "plan">> \in Follows /\ <<"plan", "calendar">> \in Follows
  BY DEF Follows
<1>6. /\ t # <<>> /\ Head(t) = t[1]
      /\ \A i \in 1..5 : <<t[i], AfterStep(t, i)>> \in Follows
      /\ \A i \in 1..5 : i = 1 \/ i = 2 \/ i = 3 \/ i = 4 \/ i = 5
  BY <1>2, <1>3, <1>4, <1>5, FiveSteps
<1>7. \A i, j \in 1..5 : t[i] = "registration" /\ t[j] \notin {"plan", "calendar"} => i = j
  BY <1>3, <1>6
<1>8. InOrder(t) /\ "registration" \notin Ahead(t)
  BY <1>2, <1>3, <1>4, <1>6, <1>7 DEF InOrder, Ahead
<1> QED  BY <1>1, <1>3, <1>6, <1>8

\* A registration, between two calendars.
LEMMA SyncRegistration ==
  /\ Sync \o <<"registration">> \o Sync # <<>> /\ Head(Sync \o <<"registration">> \o Sync) = "plan" /\ InOrder(Sync \o <<"registration">> \o Sync)
  /\ "registration" \in Ahead(Sync \o <<"registration">> \o Sync)
<1>1. PICK t : t = Sync \o <<"registration">> \o Sync
  OBVIOUS
<1>2. Len(t) = 5
  BY <1>1 DEF Sync
<1>3. t[1] = "plan" /\ t[2] = "calendar" /\ t[3] = "registration" /\ t[4] = "plan" /\ t[5] = "calendar"
  BY <1>1 DEF Sync
<1>4. t \in Seq(Steps)
  <2>1. <<"plan", "calendar">> \in Seq(Steps)
    BY DEF Steps
  <2>2. <<"registration">> \in Seq(Steps)
    BY DEF Steps
  <2> QED  BY <1>1, <2>1, <2>2 DEF Sync
<1>5. <<"calendar", "end">> \in Follows /\ <<"calendar", "registration">> \in Follows /\ <<"plan", "calendar">> \in Follows /\ <<"registration", "plan">> \in Follows
  BY DEF Follows
<1>6. /\ t # <<>> /\ Head(t) = t[1]
      /\ \A i \in 1..5 : <<t[i], AfterStep(t, i)>> \in Follows
      /\ \A i \in 1..5 : i = 1 \/ i = 2 \/ i = 3 \/ i = 4 \/ i = 5
  BY <1>2, <1>3, <1>4, <1>5, FiveSteps
<1>7. \A i, j \in 1..5 : t[i] = "registration" /\ t[j] \notin {"plan", "calendar"} => i = j
  BY <1>3, <1>6
<1>8. InOrder(t) /\ "registration" \in Ahead(t)
  BY <1>2, <1>3, <1>4, <1>6, <1>7 DEF InOrder, Ahead
<1> QED  BY <1>1, <1>3, <1>6, <1>8

\* The inserts of a sign-up.
LEMMA Inserting ==
  /\ <<"user row", "company row", "grant row">> # <<>> /\ Head(<<"user row", "company row", "grant row">>) = "user row" /\ InOrder(<<"user row", "company row", "grant row">>)
  /\ "registration" \notin Ahead(<<"user row", "company row", "grant row">>)
<1>1. PICK t : t = <<"user row", "company row", "grant row">>
  OBVIOUS
<1>2. Len(t) = 3
  BY <1>1 DEF Sync
<1>3. t[1] = "user row" /\ t[2] = "company row" /\ t[3] = "grant row"
  BY <1>1 DEF Sync
<1>4. t \in Seq(Steps)
  <2>1. <<"user row", "company row", "grant row">> \in Seq(Steps)
    BY DEF Steps
  <2> QED  BY <1>1, <2>1 DEF Sync
<1>5. <<"company row", "grant row">> \in Follows /\ <<"grant row", "end">> \in Follows /\ <<"user row", "company row">> \in Follows
  BY DEF Follows
<1>6. \A i \in 1..3 : t[i] # "registration"
  <2>1. \A i \in 1..3 : i = 1 \/ i = 2 \/ i = 3
    OBVIOUS
  <2> QED  BY <1>3, <2>1
<1> QED  BY <1>1, <1>2, <1>3, <1>4, <1>5, <1>6, ThreeSteps

\* An import, and the calendar.
LEMMA ImportSync ==
  /\ <<"import", "signatories">> \o Sync # <<>> /\ Head(<<"import", "signatories">> \o Sync) = "import"
  /\ InOrder(<<"import", "signatories">> \o Sync)
  /\ "registration" \notin Ahead(<<"import", "signatories">> \o Sync)
<1>1. PICK t : t = <<"import", "signatories">> \o Sync
  OBVIOUS
<1>2. Len(t) = 4 /\ t # <<>> /\ Head(t) = "import"
  BY <1>1 DEF Sync
<1>3. t[1] = "import" /\ t[2] = "signatories" /\ t[3] = "plan" /\ t[4] = "calendar"
  BY <1>1 DEF Sync
<1>4. t \in Seq(Steps)
  <2>1. <<"import", "signatories">> \in Seq(Steps) /\ <<"plan", "calendar">> \in Seq(Steps)
    BY DEF Steps
  <2> QED  BY <1>1, <2>1 DEF Sync
<1>5. \A i \in 1..4 : i = 1 \/ i = 2 \/ i = 3 \/ i = 4
  OBVIOUS
<1>6. /\ AfterStep(t, 1) = t[2] /\ AfterStep(t, 2) = t[3] /\ AfterStep(t, 3) = t[4]
      /\ AfterStep(t, 4) = "end"
  BY <1>2 DEF AfterStep
<1>7. /\ <<t[1], t[2]>> \in Follows /\ <<t[2], t[3]>> \in Follows
      /\ <<t[3], t[4]>> \in Follows /\ <<t[4], "end">> \in Follows
  BY <1>3 DEF Follows
<1>8. \A i \in 1..4 : <<t[i], AfterStep(t, i)>> \in Follows /\ t[i] # "registration"
  BY <1>3, <1>5, <1>6, <1>7
<1>9. InOrder(t) /\ "registration" \notin Ahead(t)
  BY <1>2, <1>4, <1>8 DEF InOrder, Ahead
<1> QED  BY <1>1, <1>2, <1>9

-----------------------------------------------------------------------------
(* Lemmas about requests. *)

\* A request runs, waits for the form, or is none.
LEMMA OfRequest ==
  ASSUME NEW q \in Running \cup Waiting \cup {NoRequest}
  PROVE  /\ q.pc = "run" <=> q \in Running
         /\ q.pc = "answer" <=> q \in Waiting
         /\ q \in Running => /\ q.of \in Companies /\ q.todo \in Seq(Steps) /\ q.todo # <<>>
                             /\ q.body \in AllBodies /\ q.page \in BOOLEAN /\ q.sure \in BOOLEAN
                             /\ q.wrote \in BOOLEAN /\ q.saved \in Saved /\ q.plan \in Profiles \cup {Nothing}
         /\ q \in Waiting => q.saved \in Saved
  BY DEF Running, Waiting, NoRequest

\* How a request ends.
LEMMA EndedIs ==
  ASSUME NEW q \in Running, NEW ok \in BOOLEAN
  PROVE  Ended(q, ok) \in Waiting \cup {NoRequest} /\ Ended(q, ok).pc # "run"
<1>1. q.saved \in Saved /\ "nothing" \in Saved
  BY DEF Running, Saved
<1>2. NoRequest.pc # "run"
  BY DEF NoRequest
<1>3. \A v \in Saved : [pc |-> "answer", saved |-> v] \in Waiting
  BY DEF Waiting
<1>4. CASE q.page
  BY <1>1, <1>3, <1>4 DEF Ended
<1>5. CASE ~q.page
  BY <1>2, <1>5 DEF Ended
<1> QED  BY <1>4, <1>5

\* A request that goes on has the rest of its steps to take, or has ended.
LEMMA SteppedIs ==
  ASSUME NEW q \in Running
  PROVE  /\ Stepped(q) \in Running \cup Waiting \cup {NoRequest}
         /\ Tail(q.todo) = <<>> => Stepped(q).pc # "run"
         /\ Tail(q.todo) # <<>> =>
              /\ Stepped(q) \in Running /\ Stepped(q).pc = "run" /\ Stepped(q).todo = Tail(q.todo)
              /\ Stepped(q).of = q.of /\ Stepped(q).body = q.body /\ Stepped(q).sure = q.sure
              /\ Stepped(q).wrote = q.wrote /\ Stepped(q).plan = q.plan
<1>1. q.todo \in Seq(Steps) /\ q.todo # <<>>
  BY DEF Running
<1>2. Tail(q.todo) \in Seq(Steps)
  BY <1>1
<1>3. CASE Tail(q.todo) = <<>>
  BY <1>3, EndedIs DEF Stepped
<1>4. CASE Tail(q.todo) # <<>>
  <2>1. Stepped(q) = [q EXCEPT !.todo = Tail(@)]
    BY <1>4 DEF Stepped
  <2>2. PICK t \in Seq(Steps) \ {<<>>} : t = Tail(q.todo)
    BY <1>2, <1>4
  <2>3. Stepped(q) = [q EXCEPT !.todo = t]
    BY <2>1, <2>2
  <2>4. [q EXCEPT !.todo = t] \in Running
    BY DEF Running
  <2> QED  BY <2>2, <2>3, <2>4, <1>4 DEF Running
<1> QED  BY <1>3, <1>4

\* What is carried goes with the steps that are left.
LEMMA CarriesOn ==
  ASSUME NEW q \in Running, Carries(q), NEW p \in Running, p.todo = q.todo,
         Head(q.todo) \in {"plan", "calendar", "login", "user row", "company row"} => p.body = q.body,
         Head(q.todo) = "plan" => p.plan \in Profiles,
         Head(q.todo) = "import" => p.wrote,
         Stepped(p).pc = "run"
  PROVE  Stepped(p) \in Running /\ Carries(Stepped(p)) /\ <<Head(q.todo), Head(Stepped(p).todo)>> \in Follows
<1>1. q.todo # <<>> /\ InOrder(q.todo)
  BY DEF Running, Carries
<1>2. Tail(q.todo) # <<>>
  BY SteppedIs
<1>3. PICK n : n = Stepped(p)
  OBVIOUS
<1>4. /\ n \in Running /\ n.todo = Tail(q.todo) /\ n.of = p.of /\ n.body = p.body
      /\ n.wrote = p.wrote /\ n.plan = p.plan
  BY <1>2, <1>3, SteppedIs
<1>5. PICK a, b : a = Head(q.todo) /\ b = Head(n.todo)
  OBVIOUS
<1>6. InOrder(n.todo) /\ <<a, b>> \in Follows
  BY <1>1, <1>2, <1>4, <1>5, Tails
<1>7. a \in Steps /\ ("registration" \in Ahead(n.todo) => "registration" \in Ahead(q.todo) /\ a \in {"plan", "calendar"})
  BY <1>1, <1>4, <1>5, Tails
<1>8. b \in {"plan", "signatories", "calendar", "registration", "end", "edge signatories", "rpc",
             "company row", "grant row"}
  BY <1>6 DEF Follows
<1>9. "registration" \in Ahead(n.todo) =>
        n.body \in Entries /\ (~n.body.slip => n.body.facts \in {Typed, Hollow, n.body.number})
  BY <1>4, <1>5, <1>7 DEF Carries
<1>10. b \in SignUpSteps => a \in {"login", "user row", "company row"}
  BY <1>6 DEF Follows, SignUpSteps, Inserts
<1>11. b \in SignUpSteps =>
         kind = "onboarding" /\ n.body \in SignUpBodies
  BY <1>4, <1>5, <1>10 DEF Carries, SignUpSteps, Inserts
<1>12. (b = "calendar" => a = "plan") /\ (b = "signatories" => a = "import")
  BY <1>6 DEF Follows
<1>13. Carries(n)
  BY <1>4, <1>5, <1>6, <1>8, <1>9, <1>11, <1>12 DEF Carries
<1> QED  BY <1>3, <1>4, <1>5, <1>6, <1>13

\* Most steps leave nothing read that a later step relies on.
LEMMA NothingRead ==
  ASSUME NEW q, Head(q.todo) \in {"plan", "signatories", "registration", "removal", "directors", "profile",
                                  "edge profile", "edge signatories", "edge registration",
                                  "edge certificate", "grant row", "undo"}
  PROVE  Stands(q)'
  BY DEF Stands

-----------------------------------------------------------------------------
(* What a step on one request leaves of the others and of the calendars. *)

\* Request r has become n, and has overtaken the others if it wrote.
Becomes(r, n) == req' = [req EXCEPT ![r] = n]

Overtakes(r, n) ==
  req' = [x \in Requests |->
            IF x = r THEN n
            ELSE IF req[x].pc = "run" THEN [req[x] EXCEPT !.sure = FALSE] ELSE req[x]]

\* The other requests are what they were, but for what they have read.
LEMMA OthersKept ==
  ASSUME ServerType, NEW r \in Requests, NEW n \in Running \cup Waiting \cup {NoRequest},
         Becomes(r, n) \/ Overtakes(r, n)
  PROVE  /\ req' \in [Requests -> Running \cup Waiting \cup {NoRequest}] /\ req'[r] = n
         /\ \A x \in Requests \ {r} :
              /\ req'[x].pc = req[x].pc
              /\ req[x].pc = "run" =>
                   /\ req'[x].of = req[x].of /\ req'[x].todo = req[x].todo /\ req'[x].body = req[x].body
                   /\ req'[x].wrote = req[x].wrote /\ req'[x].plan = req[x].plan
                   /\ req'[x].sure => Becomes(r, n) /\ req'[x] = req[x]
<1>1. req \in [Requests -> Running \cup Waiting \cup {NoRequest}]
  BY DEF ServerType
<1>2. ASSUME NEW p \in Running
      PROVE  /\ [p EXCEPT !.sure = FALSE] \in Running
             /\ [p EXCEPT !.sure = FALSE].sure = FALSE /\ [p EXCEPT !.sure = FALSE].pc = p.pc
             /\ [p EXCEPT !.sure = FALSE].of = p.of /\ [p EXCEPT !.sure = FALSE].todo = p.todo
             /\ [p EXCEPT !.sure = FALSE].body = p.body /\ [p EXCEPT !.sure = FALSE].wrote = p.wrote
             /\ [p EXCEPT !.sure = FALSE].plan = p.plan
  BY DEF Running
<1>3. CASE Becomes(r, n)
  BY <1>1, <1>3 DEF Becomes
<1>4. CASE Overtakes(r, n)
  <2>1. \A x \in Requests : req[x].pc = "run" <=> req[x] \in Running
    BY <1>1, OfRequest
  <2>2. req' \in [Requests -> Running \cup Waiting \cup {NoRequest}] /\ req'[r] = n
    BY <1>1, <1>2, <1>4, <2>1 DEF Overtakes
  <2>3. ASSUME NEW x \in Requests \ {r}, req[x].pc = "run"
        PROVE  req'[x] = [req[x] EXCEPT !.sure = FALSE] /\ req[x] \in Running
    BY <1>4, <2>1, <2>3 DEF Overtakes
  <2>4. ASSUME NEW x \in Requests \ {r}, req[x].pc # "run"
        PROVE  req'[x] = req[x]
    BY <1>4, <2>4 DEF Overtakes
  <2>5. ASSUME NEW x \in Requests \ {r}, req[x].pc = "run"
        PROVE  /\ req'[x].pc = req[x].pc /\ req'[x].sure = FALSE
               /\ req'[x].of = req[x].of /\ req'[x].todo = req[x].todo /\ req'[x].body = req[x].body
               /\ req'[x].wrote = req[x].wrote /\ req'[x].plan = req[x].plan
    <3>1. PICK p \in Running : p = req[x]
      BY <2>3, <2>5
    <3>2. req'[x] = [p EXCEPT !.sure = FALSE]
      BY <2>3, <2>5, <3>1
    <3> QED  BY <1>2, <3>1, <3>2
  <2> QED  BY <2>2, <2>4, <2>5
<1> QED  BY <1>3, <1>4

\* Whoever writes leaves the others unsure of what they have read.
LEMMA RequestsKept ==
  ASSUME ServerType, RequestsInv, kind' = kind, NEW r \in Requests,
         NEW n \in Running \cup Waiting \cup {NoRequest},
         Overtakes(r, n) \/ (Becomes(r, n) /\ UNCHANGED rows),
         n.pc = "run" => Carries(n) /\ (n.sure => Stands(n)')
  PROVE  RequestsInv'
<1> SUFFICES ASSUME NEW x \in Requests, req'[x].pc = "run"
             PROVE  Carries(req[x])' /\ (req'[x].sure => Stands(req[x])')
  BY DEF RequestsInv
<1>1. Becomes(r, n) \/ Overtakes(r, n)
  OBVIOUS
<1>2. CASE x = r
  <2>1. req'[x] = n
    BY <1>1, <1>2, OthersKept
  <2>2. Carries(n) /\ (n.sure => Stands(n)')
    BY <2>1
  <2>3. Carries(req[x])'
    BY <2>1, <2>2, ZenonT(60) DEF Carries
  <2>4. n.sure => Stands(req[x])'
    BY <2>1, <2>2 DEF Stands
  <2> QED  BY <2>1, <2>3, <2>4
<1>3. CASE x # r
  <2>1. /\ req[x].pc = "run"
        /\ req'[x].of = req[x].of /\ req'[x].todo = req[x].todo /\ req'[x].body = req[x].body
        /\ req'[x].wrote = req[x].wrote /\ req'[x].plan = req[x].plan
        /\ req'[x].sure => Becomes(r, n) /\ req'[x] = req[x]
    BY <1>1, <1>3, OthersKept
  <2>2. Carries(req[x]) /\ (req[x].sure => Stands(req[x]))
    BY <2>1 DEF RequestsInv
  <2>3. Carries(req[x])'
    BY <2>1, <2>2, ZenonT(60) DEF Carries
  <2>4. ASSUME req'[x].sure PROVE Stands(req[x])'
    <3>1. req'[x] = req[x]
      BY <2>1, <2>4
    <3>2. UNCHANGED rows
      <4>1. CASE Overtakes(r, n)
        <5>1. req'[x] = [req[x] EXCEPT !.sure = FALSE]
          BY <4>1, <2>1, <1>3 DEF Overtakes
        <5>2. req[x] \in Running
          BY <2>1, OfRequest DEF ServerType
        <5>3. req'[x].sure = FALSE
          BY <5>1, <5>2 DEF Running
        <5> QED  BY <5>3, <2>4
      <4> QED  BY <4>1
    <3> QED  BY <3>1, <3>2, <2>2, <2>4, ZenonT(60) DEF Stands, rows, CinTaken, Holders, Profile
  <2> QED  BY <2>3, <2>4
<1> QED  BY <1>2, <1>3

\* A step that leaves the rows and the calendars alone, and forgets no debt.
LEMMA CalendarKept ==
  ASSUME ServerType, CalendarInv, NEW r \in Requests, NEW n \in Running \cup Waiting \cup {NoRequest},
         Becomes(r, n) \/ Overtakes(r, n), UNCHANGED <<rows, calendar>>, lagging \subseteq lagging',
         \A c \in Companies : Owes(req[r], c) => Owes(n, c) \/ c \in lagging'
  PROVE  CalendarInv'
<1> SUFFICES ASSUME NEW c \in Companies, c \in There', c \notin lagging',
                    ~(calendar'[c] = Profile(c)')
             PROVE  \E x \in Requests : Owes(req[x], c)'
  BY DEF CalendarInv, There
<1>1. c \in There /\ c \notin lagging /\ calendar[c] # Profile(c)
  BY DEF There, rows, Profile
<1>2. PICK x \in Requests : Owes(req[x], c)
  BY <1>1 DEF CalendarInv
<1>3. CASE x = r
  <2>1. Owes(n, c) /\ req'[r] = n
    BY <1>2, <1>3, OthersKept
  <2> QED  BY <2>1 DEF Owes
<1>4. CASE x # r
  <2>1. req[x].pc = "run"
    BY <1>2 DEF Owes
  <2>2. /\ req'[x].pc = "run"
        /\ req'[x].of = req[x].of /\ req'[x].todo = req[x].todo /\ req'[x].wrote = req[x].wrote
    BY <1>4, <2>1, OthersKept
  <2> QED  BY <1>2, <2>1, <2>2 DEF Owes
<1> QED  BY <1>3, <1>4

\* A step that writes what is evaluated of c, and owes it its calendar.
LEMMA CalendarOwed ==
  ASSUME ServerType, CalendarInv, NEW r \in Requests, NEW n \in Running \cup Waiting \cup {NoRequest},
         Becomes(r, n) \/ Overtakes(r, n), NEW c \in Companies, req[r].of = c,
         calendar' = calendar, lagging \subseteq lagging',
         \A d \in Companies \ {c} : Profile(d)' = Profile(d) /\ cin'[d] = cin[d],
         Owes(n, c) \/ c \in lagging'
  PROVE  CalendarInv'
<1> SUFFICES ASSUME NEW d \in Companies, d \in There', d \notin lagging',
                    ~(calendar'[d] = Profile(d)')
             PROVE  \E x \in Requests : Owes(req[x], d)'
  BY DEF CalendarInv, There
<1>1. CASE d = c
  <2>1. req'[r] = n /\ Owes(n, c)
    BY <1>1, OthersKept
  <2> QED  BY <1>1, <2>1 DEF Owes
<1>2. CASE d # c
  <2>1. d \in There /\ d \notin lagging /\ calendar[d] # Profile(d)
    BY <1>2 DEF There
  <2>2. PICK x \in Requests : Owes(req[x], d)
    BY <2>1 DEF CalendarInv
  <2>3. x # r
    BY <1>2, <2>2 DEF Owes
  <2>4. req[x].pc = "run"
    BY <2>2 DEF Owes
  <2>5. /\ req'[x].pc = "run"
        /\ req'[x].of = req[x].of /\ req'[x].todo = req[x].todo /\ req'[x].wrote = req[x].wrote
    BY <2>3, <2>4, OthersKept
  <2> QED  BY <2>2, <2>4, <2>5 DEF Owes
<1> QED  BY <1>1, <1>2

-----------------------------------------------------------------------------
(* What writing a CIN, the facts or a registration keeps. *)

LEMMA ProfilesKept ==
  ASSUME UNCHANGED <<cin, facts, unchecked>>, CinHeldOnce
  PROVE  CinHeldOnce'
  BY DEF CinHeldOnce, There

LEMMA EntriesKept ==
  ASSUME UNCHANGED <<held, slipped>>, EntryInv
  PROVE  EntryInv'
  BY DEF EntryInv

\* A CIN taken where a check held is nobody else's.
LEMMA CinTakenOver ==
  ASSUME ServerType, CinHeldOnce, NEW c \in Companies, NEW x \in Named, NEW doubt \in BOOLEAN,
         cin' = [cin EXCEPT ![c] = x], unchecked' = Mark(unchecked, c, doubt),
         ~doubt /\ x # None => Holders(x, c) = {}
  PROVE  CinHeldOnce'
<1> SUFFICES ASSUME NEW a \in There', NEW b \in There', a # b, cin'[a] = cin'[b], cin'[a] # None,
                    a \notin unchecked', b \notin unchecked'
             PROVE  FALSE
  BY DEF CinHeldOnce
<1>1. /\ a \in Companies /\ b \in Companies
      /\ \A d \in Companies : cin'[d] = IF d = c THEN x ELSE cin[d]
  BY DEF There, ServerType
<1>2. CASE a # c /\ b # c
  <2>1. a \in There /\ b \in There /\ a \notin unchecked /\ b \notin unchecked
    BY <1>1, <1>2 DEF There, Mark
  <2> QED  BY <1>1, <1>2, <2>1 DEF CinHeldOnce
<1>3. CASE a = c \/ b = c
  <2>1. ~doubt
    BY <1>3 DEF Mark
  <2>2. \E d \in Companies \ {c} : cin[d] = x
    BY <1>1, <1>3
  <2>3. x # None
    BY <1>1, <1>3
  <2> QED  BY <2>1, <2>2, <2>3 DEF Holders
<1> QED  BY <1>2, <1>3

\* A registration is written under its own number, or marked.
LEMMA EntryWritten ==
  ASSUME ServerType, EntryInv, NEW c \in Companies, NEW n \in Numbers, NEW e \in Entries, e.number = n,
         ~e.slip => e.facts \in {Typed, Hollow, n},
         held' = [held EXCEPT ![c] = [m \in Numbers |-> IF m = n THEN Kept(e)
                                                        ELSE IF kind = "udyam" THEN None ELSE @[m]]],
         slipped' = Mark(slipped, <<c, n>>, e.slip)
  PROVE  /\ EntryInv' /\ held' \in [Companies -> [Numbers -> HeldOf]]
         /\ slipped' \subseteq Companies \X Numbers
         /\ \A d \in Companies \ {c} : held'[d] = held[d]
<1>1. held \in [Companies -> [Numbers -> HeldOf]] /\ slipped \subseteq Companies \X Numbers
  BY DEF ServerType
<1>2. Kept(e) \in HeldOf
  BY DEF Kept, Entries, HeldOf
<1>3. held' \in [Companies -> [Numbers -> HeldOf]] /\ \A d \in Companies \ {c} : held'[d] = held[d]
  BY <1>1, <1>2 DEF HeldOf
<1>4. slipped' \subseteq Companies \X Numbers
  BY <1>1 DEF Mark
<1>5. ASSUME NEW d \in Companies, NEW m \in Numbers, <<d, m>> \notin slipped'
      PROVE  held'[d][m] \in {None, Typed, m}
  <2>1. CASE d = c /\ m = n
    <3>1. ~e.slip
      BY <1>5, <2>1 DEF Mark, Entries
    <3>2. held'[d][m] = Kept(e)
      BY <1>1, <2>1
    <3>3. Kept(e) \in {Typed, n}
      BY <3>1 DEF Kept
    <3> QED  BY <2>1, <3>2, <3>3
  <2>2. CASE d # c
    <3>1. held'[d] = held[d] /\ <<d, m>> \notin slipped
      BY <1>3, <1>5, <2>2 DEF Mark
    <3> QED  BY <3>1 DEF EntryInv
  <2>3. CASE d = c /\ m # n
    <3>1. held'[d][m] = IF kind = "udyam" THEN None ELSE held[d][m]
      BY <1>1, <2>3
    <3>2. <<d, m>> \notin slipped
      BY <1>5, <2>3 DEF Mark
    <3>3. held[d][m] \in {None, Typed, m}
      BY <3>2 DEF EntryInv
    <3> QED  BY <3>1, <3>3
  <2> QED  BY <2>1, <2>2, <2>3
<1> QED  BY <1>3, <1>4, <1>5 DEF EntryInv

-----------------------------------------------------------------------------
(* What the steps on requests have in common. *)

LEMMA InFlight ==
  ASSUME ServerType, RequestsInv, NEW r \in Requests, req[r].pc = "run"
  PROVE  /\ req[r] \in Running /\ req[r].of \in Companies /\ req[r].todo # <<>>
         /\ InOrder(req[r].todo) /\ Carries(req[r]) /\ (req[r].sure => Stands(req[r]))
         /\ Head(req[r].todo) \in Steps
<1>1. req[r] \in Running
  BY OfRequest DEF ServerType
<1>2. Carries(req[r]) /\ (req[r].sure => Stands(req[r]))
  BY DEF RequestsInv
<1>3. req[r].of \in Companies /\ req[r].todo # <<>>
  BY <1>1 DEF Running
<1>4. InOrder(req[r].todo)
  BY <1>2 DEF Carries
<1>5. Head(req[r].todo) \in Steps
  BY <1>3, <1>4, Tails
<1> QED  BY <1>1, <1>2, <1>3, <1>4, <1>5

\* A request that has gone on from p, which is still at the step, is in order.
LEMMA GoesOn ==
  ASSUME ServerType, RequestsInv, NEW r \in Requests, req[r].pc = "run",
         NEW p \in Running, p.todo = req[r].todo, p.of = req[r].of,
         Head(p.todo) \in {"plan", "calendar", "login", "user row", "company row"} => p.body = req[r].body,
         Head(p.todo) = "plan" => p.plan \in Profiles,
         Head(p.todo) = "import" => p.wrote
  PROVE  /\ Stepped(p) \in Running \cup Waiting \cup {NoRequest}
         /\ Stepped(p).pc = "run" =>
              /\ Stepped(p) \in Running /\ Carries(Stepped(p)) /\ Stepped(p).of = req[r].of
              /\ Stepped(p).wrote = p.wrote /\ Stepped(p).body = p.body /\ Stepped(p).plan = p.plan
              /\ Stepped(p).sure = p.sure
              /\ <<Head(req[r].todo), Head(Stepped(p).todo)>> \in Follows
         /\ Stepped(p).pc # "run" => <<Head(req[r].todo), "end">> \in Follows
<1>1. req[r] \in Running /\ Carries(req[r]) /\ req[r].todo # <<>> /\ InOrder(req[r].todo)
  BY InFlight
<1>2. Stepped(p) \in Running \cup Waiting \cup {NoRequest}
  BY SteppedIs
<1>3. ASSUME Stepped(p).pc = "run"
      PROVE  /\ Stepped(p) \in Running /\ Carries(Stepped(p))
             /\ <<Head(req[r].todo), Head(Stepped(p).todo)>> \in Follows
  BY <1>1, <1>3, CarriesOn
<1>4. Tail(p.todo) = <<>> => <<Head(req[r].todo), "end">> \in Follows
  BY <1>1, Tails
<1> QED  BY <1>2, <1>3, <1>4, SteppedIs

\* The steps that write, and those after which the calendar is for somebody else.
EdgeWrites == {"edge profile", "edge import", "edge signatories", "edge registration",
               "edge certificate", "rpc", "company row"}
RowWrites == {"profile", "checked", "import", "signatories", "registration", "removal", "directors", "account"}
               \cup EdgeWrites

\* After a write comes the calendar, or the end of what an edge function writes.
LEMMA AfterWriting ==
  ASSUME NEW a \in RowWrites, NEW b, <<a, b>> \in Follows
  PROVE  /\ b \in {"plan", "signatories", "edge signatories", "grant row", "end"}
         /\ a \notin EdgeWrites => b \in {"plan", "signatories"}
<1>1. a \in {"profile", "checked", "account", "signatories", "registration", "removal", "directors"} => b = "plan"
  BY NextStep
<1>2. (a = "import" => b = "signatories") /\ (a = "edge import" => b = "edge signatories") /\ (a = "company row" => b = "grant row")
  BY NextStep
<1>3. a \in {"edge profile", "edge signatories", "edge registration", "edge certificate", "rpc"} => b = "end"
  BY NextStep
<1> QED  BY <1>1, <1>2, <1>3 DEF RowWrites, EdgeWrites

\* A request that writes goes on, and overtakes the others.
LEMMA WritesOn ==
  ASSUME ServerType, RequestsInv, NEW r \in Requests, req[r].pc = "run",
         Head(req[r].todo) \in RowWrites,
         NEW p \in Running, p.todo = req[r].todo, p.of = req[r].of,
         Head(p.todo) = "company row" => p.body = req[r].body, Writes(r, p)
  PROVE  \E n \in Running \cup Waiting \cup {NoRequest} :
           /\ Overtakes(r, n)
           /\ n.pc = "run" => /\ n \in Running /\ Carries(n) /\ n.of = req[r].of /\ n.wrote /\ n.body = p.body
                              /\ <<Head(req[r].todo), Head(n.todo)>> \in Follows
           /\ n.pc # "run" => <<Head(req[r].todo), "end">> \in Follows
<1> DEFINE w == [p EXCEPT !.wrote = TRUE]
<1>1. w \in Running /\ w.todo = p.todo /\ w.of = p.of /\ w.body = p.body /\ w.wrote = TRUE
  BY DEF Running
<1>2. PICK n : n = Stepped(w)
  OBVIOUS
<1>3. Overtakes(r, n)
  BY <1>2 DEF Writes, Overtakes
<1> HIDE DEF w
<1>4. Head(w.todo) \notin {"plan", "calendar", "login", "user row"} /\ w.todo = req[r].todo /\ w.of = req[r].of
  BY <1>1 DEF RowWrites, EdgeWrites
<1>5. Head(w.todo) = "company row" => w.body = req[r].body
  BY <1>1
<1>6. /\ n \in Running \cup Waiting \cup {NoRequest}
      /\ n.pc = "run" => /\ n \in Running /\ Carries(n) /\ n.of = req[r].of /\ n.wrote /\ n.body = p.body
                         /\ <<Head(req[r].todo), Head(n.todo)>> \in Follows
      /\ n.pc # "run" => <<Head(req[r].todo), "end">> \in Follows
  BY <1>1, <1>2, <1>4, <1>5, GoesOn
<1> QED  BY <1>3, <1>6

\* A step that writes rows of its company, and what it leaves.
LEMMA Written ==
  ASSUME ServerType, RequestsInv, CalendarInv, NEW r \in Requests, req[r].pc = "run",
         Head(req[r].todo) \in RowWrites,
         NEW p \in Running, p.todo = req[r].todo, p.of = req[r].of,
         Head(p.todo) = "company row" => p.body = req[r].body,
         Writes(r, p), kind' = kind, calendar' = calendar, lagging \subseteq lagging',
         \A d \in Companies \ {req[r].of} : Profile(d)' = Profile(d) /\ cin'[d] = cin[d],
         Head(req[r].todo) \in EdgeWrites => req[r].of \in lagging'
  PROVE  /\ req' \in [Requests -> Running \cup Waiting \cup {NoRequest}]
         /\ RequestsInv' /\ CalendarInv'
<1>1. PICK a, c : a = Head(req[r].todo) /\ c = req[r].of
  OBVIOUS
<1>2. PICK n \in Running \cup Waiting \cup {NoRequest} :
        /\ Overtakes(r, n)
        /\ n.pc = "run" => /\ n \in Running /\ Carries(n) /\ n.of = req[r].of /\ n.wrote /\ n.body = p.body
                           /\ <<Head(req[r].todo), Head(n.todo)>> \in Follows
        /\ n.pc # "run" => <<Head(req[r].todo), "end">> \in Follows
  BY WritesOn
<1>3. /\ n \in Running \cup Waiting \cup {NoRequest}
      /\ n.pc = "run" => /\ n \in Running /\ Carries(n) /\ n.of = c /\ n.wrote
                         /\ <<a, Head(n.todo)>> \in Follows
      /\ n.pc # "run" => <<a, "end">> \in Follows
  BY <1>1, <1>2
<1>4. a \in RowWrites
  BY <1>1
<1>5. n.pc = "run" => Stands(n)'
  <2> SUFFICES ASSUME n.pc = "run" PROVE Stands(n)'
    OBVIOUS
  <2>1. Head(n.todo) \in Steps
    <3>1. n.todo # <<>> /\ InOrder(n.todo)
      BY <1>3 DEF Carries, Running
    <3> QED  BY <3>1, Tails
  <2>2. Head(n.todo) \in {"plan", "signatories", "edge signatories", "grant row", "end"}
    BY <1>3, <1>4, AfterWriting
  <2>3. Head(n.todo) # "end"
    BY <2>1 DEF Steps
  <2> QED  BY <2>2, <2>3 DEF Stands
<1>6. Owes(n, c) \/ c \in lagging'
  <2>1. CASE a \in EdgeWrites
    BY <1>1, <2>1
  <2>2. CASE a \notin EdgeWrites
    <3>1. n.pc = "run"
      <4>1. ASSUME <<a, "end">> \in Follows PROVE FALSE
        <5>1. "end" \in {"plan", "signatories"}
          BY <1>4, <2>2, <4>1, AfterWriting
        <5> QED  BY <5>1
      <4> QED  BY <1>3, <4>1
    <3>2. Head(n.todo) \in {"plan", "signatories"}
      BY <1>3, <1>4, <2>2, <3>1, AfterWriting
    <3> QED  BY <1>3, <3>1, <3>2 DEF Owes
  <2> QED  BY <2>1, <2>2
<1>7. c \in Companies
  BY <1>1, InFlight
<1>8. req' \in [Requests -> Running \cup Waiting \cup {NoRequest}]
  BY <1>2, <1>3, OthersKept
<1>9. RequestsInv'
  BY <1>2, <1>3, <1>5, RequestsKept
<1>10. CalendarInv'
  BY <1>1, <1>2, <1>3, <1>6, <1>7, CalendarOwed
<1> QED  BY <1>8, <1>9, <1>10

\* A step that writes nothing that is evaluated.
LEMMA Unwritten ==
  ASSUME ServerType, RequestsInv, CalendarInv, NEW r \in Requests,
         NEW n \in Running \cup Waiting \cup {NoRequest}, Becomes(r, n),
         n.pc = "run" => Carries(n) /\ (n.sure => Stands(n)),
         UNCHANGED <<kind, rows, calendar>>, lagging \subseteq lagging',
         \A c \in Companies : Owes(req[r], c) => Owes(n, c) \/ c \in lagging'
  PROVE  /\ req' \in [Requests -> Running \cup Waiting \cup {NoRequest}]
         /\ RequestsInv' /\ CalendarInv'
<1>1. Stands(n) => Stands(n)'
  BY DEF Stands, rows, CinTaken, Holders, Profile
<1>2. RequestsInv'
  BY <1>1, RequestsKept
<1> QED  BY <1>2, OthersKept, CalendarKept

\* A request that is turned down, or is over.
LEMMA Refused ==
  ASSUME ServerType, RequestsInv, CalendarInv, NEW r \in Requests, req[r].pc = "run", Refuse(r),
         UNCHANGED <<kind, rows, calendar>>, lagging \subseteq lagging',
         req[r].wrote /\ Head(req[r].todo) \in {"plan", "calendar", "signatories"} => req[r].of \in lagging'
  PROVE  /\ req' \in [Requests -> Running \cup Waiting \cup {NoRequest}]
         /\ RequestsInv' /\ CalendarInv'
<1>1. PICK n : n = Ended(req[r], FALSE)
  OBVIOUS
<1>2. n \in Running \cup Waiting \cup {NoRequest} /\ n.pc # "run"
  BY <1>1, InFlight, EndedIs
<1>3. Becomes(r, n)
  BY <1>1 DEF Refuse, Becomes
<1>4. \A c \in Companies : Owes(req[r], c) => c \in lagging'
  BY DEF Owes
<1> QED  BY <1>2, <1>3, <1>4, Unwritten

\* What a request has written it does not carry any more.
LEMMA Bare ==
  ASSUME NEW q \in Running
  PROVE  /\ [q EXCEPT !.body = Nothing] \in Running
         /\ [q EXCEPT !.body = Nothing].todo = q.todo /\ [q EXCEPT !.body = Nothing].of = q.of
         /\ \A v \in Saved :
              /\ [q EXCEPT !.body = Nothing, !.saved = v] \in Running
              /\ [q EXCEPT !.body = Nothing, !.saved = v].todo = q.todo
              /\ [q EXCEPT !.body = Nothing, !.saved = v].of = q.of
<1>1. Nothing \in AllBodies
  BY DEF AllBodies
<1> QED  BY <1>1 DEF Running

-----------------------------------------------------------------------------
(* The steps of the service. *)

LEMMA AtIs ==
  ASSUME NEW r \in Requests, NEW s, At(r, s)
  PROVE  req[r].pc = "run" /\ req[r].todo # <<>> /\ Head(req[r].todo) = s
  BY DEF At

LEMMA MarkIs ==
  ASSUME NEW S, NEW T, S \subseteq T, NEW c \in T, NEW doubt
  PROVE  Mark(S, c, doubt) \subseteq T
  BY DEF Mark

LEMMA RowTyped ==
  ASSUME ServerType, NEW c \in Companies, NEW x \in Named, NEW f \in Restated
  PROVE  /\ [cin EXCEPT ![c] = x] \in [Companies -> Named \cup {Absent}]
         /\ [facts EXCEPT ![c] = f] \in [Companies -> Restated]
  BY DEF ServerType

\* A CIN and the facts are what a step has written.
LEMMA ProfileWritten ==
  ASSUME ServerInv, NEW r \in Requests, req[r].pc = "run",
         Head(req[r].todo) \in {"profile", "checked", "edge profile", "account", "rpc", "company row"},
         NEW p \in Running, p.todo = req[r].todo, p.of = req[r].of,
         Head(req[r].todo) = "company row" => p.body = req[r].body, Writes(r, p),
         NEW x \in Named, NEW f \in Restated, NEW d \in BOOLEAN,
         cin' = [cin EXCEPT ![req[r].of] = x], facts' = [facts EXCEPT ![req[r].of] = f],
         unchecked' = Mark(unchecked, req[r].of, d),
         UNCHANGED <<kind, held, rest, calendar, made, faults, slipped>>,
         lagging \subseteq lagging', lagging' \subseteq Companies,
         Head(req[r].todo) \in EdgeWrites => req[r].of \in lagging',
         ~d /\ x # None => Holders(x, req[r].of) = {}
  PROVE  ServerInv'
<1> USE DEF ServerInv
<1>1. PICK c \in Companies : c = req[r].of
  BY InFlight
<1>2. /\ cin' = [cin EXCEPT ![c] = x] /\ facts' = [facts EXCEPT ![c] = f]
      /\ unchecked' = Mark(unchecked, c, d)
  BY <1>1
<1>3. req' \in [Requests -> Running \cup Waiting \cup {NoRequest}] /\ RequestsInv' /\ CalendarInv'
  <2>1. \A y \in Companies \ {req[r].of} : Profile(y)' = Profile(y) /\ cin'[y] = cin[y]
    BY <1>1, <1>2 DEF Profile, ServerType
  <2>2. Head(req[r].todo) \in RowWrites
    BY DEF RowWrites, EdgeWrites
  <2> QED  BY <2>1, <2>2, Written
<1>4. CinHeldOnce'
  BY <1>1, <1>2, CinTakenOver
<1>5. EntryInv'
  BY EntriesKept
<1>6. ServerType'
  <2>1. unchecked' \subseteq Companies
    BY <1>2, MarkIs DEF ServerType
  <2>2. cin' \in [Companies -> Named \cup {Absent}] /\ facts' \in [Companies -> Restated]
    <3>1. ServerType
      OBVIOUS
    <3>2. /\ [cin EXCEPT ![c] = x] \in [Companies -> Named \cup {Absent}]
          /\ [facts EXCEPT ![c] = f] \in [Companies -> Restated]
      BY <3>1, RowTyped
    <3> QED  BY <1>2, <3>2
  <2>3. /\ kind \in {"profile", "gst", "udyam", "onboarding"} /\ held \in [Companies -> [Numbers -> HeldOf]]
        /\ rest \in [Companies -> BOOLEAN] /\ calendar \in [Companies -> Profiles]
        /\ made \in Nat /\ faults \in Nat /\ slipped \subseteq Companies \X Numbers
    BY DEF ServerType
  <2> QED  BY <1>3, <2>1, <2>2, <2>3 DEF ServerType
<1> QED  BY <1>3, <1>4, <1>5, <1>6

LEMMA WriteProfileKeeps ==
  ASSUME ServerInv, NEW r \in Requests, WriteProfile(r)
  PROVE  ServerInv'
<1> USE DEF ServerInv
<1>1. PICK q, c, a : q = req[r] /\ c = req[r].of /\ a = Head(req[r].todo)
  OBVIOUS
<1>2. req[r].pc = "run" /\ a \in {"checked", "profile"} /\ (At(r, "profile") <=> a = "profile")
  BY <1>1 DEF WriteProfile, At
<1>3. /\ q \in Running /\ c \in Companies /\ Carries(q) /\ (q.sure => Stands(q))
      /\ q.body \in ProfileBodies
  BY <1>1, <1>2, InFlight DEF Carries
<1>4. PICK b \in ProfileBodies : b = q.body
  BY <1>3
<1>5. PICK p : p = [q EXCEPT !.body = Nothing]
  OBVIOUS
<1>6. p \in Running /\ p.todo = req[r].todo /\ p.of = req[r].of /\ Writes(r, p)
  BY <1>1, <1>3, <1>5, Bare DEF WriteProfile, Wrote
<1>7. PICK d : d = (b.cin # None /\ (At(r, "profile") \/ ~q.sure))
  OBVIOUS
<1>8. /\ cin' = [cin EXCEPT ![c] = b.cin] /\ facts' = [facts EXCEPT ![c] = b.facts]
      /\ unchecked' = Mark(unchecked, c, d)
      /\ UNCHANGED <<kind, held, rest, calendar, made, faults, lagging, slipped>>
  BY <1>1, <1>4, <1>7 DEF WriteProfile
<1>9. b.cin \in Named /\ b.facts \in Restated /\ d \in BOOLEAN
  BY <1>7 DEF ProfileBodies
<1>10. ~d /\ b.cin # None => Holders(b.cin, c) = {}
  BY <1>1, <1>2, <1>3, <1>4, <1>7 DEF Stands, CinTaken
<1>11. lagging \subseteq Companies /\ a \notin EdgeWrites /\ a # "company row"
  BY <1>2 DEF EdgeWrites, ServerType
<1> QED  BY <1>1, <1>2, <1>6, <1>8, <1>9, <1>10, <1>11, ProfileWritten

\* An import writes what differs from the row; what it leaves it has read.
LEMMA Imported ==
  ASSUME ServerType, CinHeldOnce, NEW c \in Companies,
         NEW x \in Cins \cup {"same"}, NEW f \in Cins \cup {"same"},
         cin' = IF x = "same" THEN cin ELSE [cin EXCEPT ![c] = x],
         facts' = IF f = "same" THEN facts ELSE [facts EXCEPT ![c] = f],
         unchecked' = IF x = "same" THEN unchecked ELSE unchecked \cup {c}
  PROVE  /\ CinHeldOnce'
         /\ cin' \in [Companies -> Named \cup {Absent}] /\ facts' \in [Companies -> Restated]
         /\ unchecked' \subseteq Companies
         /\ \A d \in Companies \ {c} : cin'[d] = cin[d] /\ facts'[d] = facts[d]
<1>1. cin \in [Companies -> Named \cup {Absent}] /\ facts \in [Companies -> Restated] /\ unchecked \subseteq Companies
  BY DEF ServerType
<1>2. /\ cin' \in [Companies -> Named \cup {Absent}] /\ facts' \in [Companies -> Restated]
      /\ cin'[c] = IF x = "same" THEN cin[c] ELSE x
      /\ facts'[c] = IF f = "same" THEN facts[c] ELSE f
      /\ \A d \in Companies \ {c} : cin'[d] = cin[d] /\ facts'[d] = facts[d]
  BY <1>1 DEF Named, Restated
<1>3. unchecked' \subseteq Companies
  BY <1>1
<1>4. CinHeldOnce'
  <2>1. CASE x = "same"
    BY <2>1 DEF CinHeldOnce, There
  <2>2. CASE x # "same"
    <3>1. cin' = [cin EXCEPT ![c] = x] /\ unchecked' = Mark(unchecked, c, TRUE) /\ x \in Named
      BY <2>2 DEF Mark, Named
    <3> QED  BY <3>1, CinTakenOver
  <2> QED  BY <2>1, <2>2
<1> QED  BY <1>2, <1>3, <1>4

LEMMA WriteImportKeeps ==
  ASSUME ServerInv, NEW r \in Requests, WriteImport(r)
  PROVE  ServerInv'
<1> USE DEF ServerInv
<1>1. PICK q, c, a : q = req[r] /\ c = req[r].of /\ a = Head(req[r].todo)
  OBVIOUS
<1>2. req[r].pc = "run" /\ a = "import"
  BY <1>1 DEF WriteImport, At
<1>3. /\ q \in Running /\ c \in Companies /\ Carries(q) /\ (q.sure => Stands(q))
      /\ q.body \in ImportBodies
  BY <1>1, <1>2, InFlight DEF Carries
<1>4. PICK b \in ImportBodies : b = q.body
  BY <1>3
<1>5. PICK p : p = [q EXCEPT !.body = Nothing]
  OBVIOUS
<1>6. p \in Running /\ p.todo = req[r].todo /\ p.of = req[r].of /\ Writes(r, p)
  BY <1>1, <1>3, <1>5, Bare DEF WriteImport, Wrote
<1>7. PICK x, f : x = b.cin /\ f = b.facts
  OBVIOUS
<1>8. /\ cin' = IF x = "same" THEN cin ELSE [cin EXCEPT ![c] = x]
      /\ facts' = IF f = "same" THEN facts ELSE [facts EXCEPT ![c] = f]
      /\ unchecked' = IF x = "same" THEN unchecked ELSE unchecked \cup {c}
      /\ UNCHANGED <<kind, held, rest, calendar, made, faults, lagging, slipped>>
  BY <1>1, <1>4, <1>7 DEF WriteImport
<1>9. x \in Cins \cup {"same"} /\ f \in Cins \cup {"same"}
  BY <1>3, <1>4, <1>7 DEF ImportBodies
<1>10. /\ CinHeldOnce'
       /\ cin' \in [Companies -> Named \cup {Absent}] /\ facts' \in [Companies -> Restated]
       /\ unchecked' \subseteq Companies
       /\ \A d \in Companies \ {c} : cin'[d] = cin[d] /\ facts'[d] = facts[d]
  BY <1>3, <1>8, <1>9, Imported
<1>11. req' \in [Requests -> Running \cup Waiting \cup {NoRequest}] /\ RequestsInv' /\ CalendarInv'
  <2>1. \A d \in Companies \ {c} : Profile(d)' = Profile(d) /\ cin'[d] = cin[d]
    BY <1>8, <1>10 DEF Profile
  <2>2. a \in RowWrites /\ a \notin EdgeWrites /\ a # "company row"
    BY <1>2 DEF RowWrites, EdgeWrites
  <2> QED  BY <1>1, <1>2, <1>6, <1>8, <2>1, <2>2, Written
<1>12. EntryInv'
  BY <1>8, EntriesKept
<1>13. ServerType'
  BY <1>8, <1>10, <1>11 DEF ServerType
<1> QED  BY <1>10, <1>11, <1>12, <1>13

\* The directors of a company are the one thing a step has written.
LEMMA RestWritten ==
  ASSUME ServerInv, NEW r \in Requests, req[r].pc = "run",
         Head(req[r].todo) \in {"signatories", "directors", "edge signatories"}, Wrote(r),
         NEW some \in BOOLEAN, rest' = [rest EXCEPT ![req[r].of] = some],
         UNCHANGED <<kind, cin, facts, held, calendar, made, faults, unchecked, slipped>>,
         lagging \subseteq lagging', lagging' \subseteq Companies,
         Head(req[r].todo) = "edge signatories" => req[r].of \in lagging'
  PROVE  ServerInv'
<1> USE DEF ServerInv
<1>1. PICK q : q = req[r]
  OBVIOUS
<1>2. q \in Running /\ q.of \in Companies
  BY <1>1, InFlight
<1>3. PICK p : p = [q EXCEPT !.body = Nothing]
  OBVIOUS
<1>4. p \in Running /\ p.todo = req[r].todo /\ p.of = req[r].of /\ Writes(r, p)
  BY <1>1, <1>2, <1>3, Bare DEF Wrote
<1>5. rest' \in [Companies -> BOOLEAN] /\ \A d \in Companies \ {req[r].of} : rest'[d] = rest[d]
  BY <1>1, <1>2 DEF ServerType
<1>6. req' \in [Requests -> Running \cup Waiting \cup {NoRequest}] /\ RequestsInv' /\ CalendarInv'
  <2>1. \A d \in Companies \ {req[r].of} : Profile(d)' = Profile(d) /\ cin'[d] = cin[d]
    BY <1>5 DEF Profile
  <2>2. /\ Head(req[r].todo) \in RowWrites /\ Head(req[r].todo) # "company row"
        /\ Head(req[r].todo) \in EdgeWrites => Head(req[r].todo) = "edge signatories"
    BY DEF RowWrites, EdgeWrites
  <2> QED  BY <1>4, <2>1, <2>2, Written
<1>7. CinHeldOnce' /\ EntryInv'
  BY ProfilesKept, EntriesKept
<1>8. ServerType'
  BY <1>5, <1>6 DEF ServerType
<1> QED  BY <1>6, <1>7, <1>8

LEMMA WriteSignatoriesKeeps ==
  ASSUME ServerInv, NEW r \in Requests, WriteSignatories(r)
  PROVE  ServerInv'
<1>1. req[r].pc = "run" /\ Head(req[r].todo) = "signatories"
  BY DEF WriteSignatories, At
<1>2. req[r].of \in Companies /\ lagging \subseteq Companies
  BY <1>1, InFlight DEF ServerInv, ServerType
<1>3. PICK some \in {rest[req[r].of], TRUE} : rest' = [rest EXCEPT ![req[r].of] = some]
  BY DEF WriteSignatories
<1>4. some \in BOOLEAN
  BY <1>2 DEF ServerInv, ServerType
<1> QED  BY <1>1, <1>2, <1>3, <1>4, RestWritten DEF WriteSignatories, history

LEMMA WriteDirectorsKeeps ==
  ASSUME ServerInv, NEW r \in Requests, WriteDirectors(r)
  PROVE  ServerInv'
<1>1. req[r].pc = "run" /\ Head(req[r].todo) = "directors"
  BY DEF WriteDirectors, At
<1>2. req[r].body \in Staffing
  BY <1>1, InFlight DEF ServerInv, Carries
<1>3. PICK some : some = req[r].body.directors
  OBVIOUS
<1>4. some \in BOOLEAN /\ rest' = [rest EXCEPT ![req[r].of] = some] /\ lagging \subseteq Companies
  BY <1>2, <1>3 DEF Staffing, WriteDirectors, ServerInv, ServerType
<1> QED  BY <1>1, <1>4, RestWritten DEF WriteDirectors, history

LEMMA EdgeWriteSignatoriesKeeps ==
  ASSUME ServerInv, NEW r \in Requests, EdgeWriteSignatories(r)
  PROVE  ServerInv'
<1>1. req[r].pc = "run" /\ Head(req[r].todo) = "edge signatories"
  BY DEF EdgeWriteSignatories, At
<1>2. req[r].of \in Companies /\ lagging \subseteq Companies
  BY <1>1, InFlight DEF ServerInv, ServerType
<1>3. PICK some \in {rest[req[r].of], TRUE} : rest' = [rest EXCEPT ![req[r].of] = some]
  BY DEF EdgeWriteSignatories
<1>4. some \in BOOLEAN /\ lagging' = lagging \cup {req[r].of}
  BY <1>2 DEF ServerInv, ServerType, EdgeWriteSignatories
<1> QED  BY <1>1, <1>2, <1>3, <1>4, RestWritten DEF EdgeWriteSignatories

\* A registration is the one thing a step has written.
LEMMA RegistrationWritten ==
  ASSUME ServerInv, NEW r \in Requests, req[r].pc = "run",
         Head(req[r].todo) \in {"registration", "edge registration", "edge certificate"},
         NEW v \in Saved, Writes(r, [req[r] EXCEPT !.body = Nothing, !.saved = v]),
         held' = [held EXCEPT ![req[r].of] =
                    [m \in Numbers |-> IF m = req[r].body.number THEN Kept(req[r].body)
                                       ELSE IF kind = "udyam" THEN None ELSE @[m]]],
         slipped' = Mark(slipped, <<req[r].of, req[r].body.number>>, req[r].body.slip),
         UNCHANGED <<kind, cin, facts, rest, calendar, made, faults, unchecked>>,
         lagging \subseteq lagging', lagging' \subseteq Companies,
         Head(req[r].todo) \in {"edge registration", "edge certificate"} => req[r].of \in lagging'
  PROVE  ServerInv'
<1> USE DEF ServerInv
<1>1. PICK q, c : q = req[r] /\ c = req[r].of
  OBVIOUS
<1>2. /\ q \in Running /\ c \in Companies /\ Carries(q)
      /\ q.todo # <<>> /\ InOrder(q.todo)
  BY <1>1, InFlight
<1>3. q.body \in Entries /\ (~q.body.slip => q.body.facts \in {Typed, Hollow, q.body.number})
  <2>1. Head(q.todo) = "registration" => "registration" \in Ahead(q.todo)
    BY <1>2, Tails
  <2> QED  BY <1>1, <1>2, <2>1 DEF Carries
<1>4. PICK e \in Entries : e = req[r].body
  BY <1>1, <1>3
<1>5. PICK n \in Numbers : n = e.number
  BY DEF Entries
<1>6. PICK p : p = [req[r] EXCEPT !.body = Nothing, !.saved = v]
  OBVIOUS
<1>7. p \in Running /\ p.todo = req[r].todo /\ p.of = req[r].of /\ Writes(r, p)
  BY <1>1, <1>2, <1>6, Bare
<1>8. /\ held' = [held EXCEPT ![c] = [m \in Numbers |-> IF m = n THEN Kept(e)
                                                       ELSE IF kind = "udyam" THEN None ELSE @[m]]]
      /\ slipped' = Mark(slipped, <<c, n>>, e.slip)
      /\ (~e.slip => e.facts \in {Typed, Hollow, n})
  BY <1>1, <1>3, <1>4, <1>5
<1>9. /\ EntryInv' /\ held' \in [Companies -> [Numbers -> HeldOf]]
      /\ slipped' \subseteq Companies \X Numbers
      /\ \A d \in Companies \ {c} : held'[d] = held[d]
  BY <1>2, <1>5, <1>8, EntryWritten
<1>10. req' \in [Requests -> Running \cup Waiting \cup {NoRequest}] /\ RequestsInv' /\ CalendarInv'
  <2>1. \A d \in Companies \ {req[r].of} : Profile(d)' = Profile(d) /\ cin'[d] = cin[d]
    BY <1>1, <1>9 DEF Profile
  <2>2. /\ Head(req[r].todo) \in RowWrites /\ Head(req[r].todo) # "company row"
        /\ Head(req[r].todo) \in EdgeWrites => Head(req[r].todo) \in {"edge registration", "edge certificate"}
    BY DEF RowWrites, EdgeWrites
  <2> QED  BY <1>7, <2>1, <2>2, Written
<1>11. CinHeldOnce'
  BY ProfilesKept
<1>12. ServerType'
  BY <1>9, <1>10 DEF ServerType
<1> QED  BY <1>9, <1>10, <1>11, <1>12

\* One that is turned down.
LEMMA RefusedKeeps ==
  ASSUME ServerInv, NEW r \in Requests, req[r].pc = "run", Refuse(r),
         UNCHANGED <<kind, rows, calendar, made, unchecked, slipped>>,
         faults' \in Nat, lagging \subseteq lagging', lagging' \subseteq Companies,
         req[r].wrote /\ Head(req[r].todo) \in {"plan", "calendar", "signatories"} => req[r].of \in lagging'
  PROVE  ServerInv'
<1>1. req' \in [Requests -> Running \cup Waiting \cup {NoRequest}] /\ RequestsInv' /\ CalendarInv'
  BY Refused DEF ServerInv
<1>2. CinHeldOnce' /\ EntryInv'
  BY ProfilesKept, EntriesKept DEF ServerInv, rows
<1>3. ServerType'
  BY <1>1 DEF ServerInv, ServerType, rows
<1> QED  BY <1>1, <1>2, <1>3 DEF ServerInv

LEMMA WriteRegistrationKeeps ==
  ASSUME ServerInv, NEW r \in Requests, WriteRegistration(r)
  PROVE  ServerInv'
<1>1. /\ req[r].pc = "run" /\ Head(req[r].todo) = "registration"
      /\ lagging' = lagging /\ lagging \subseteq Companies /\ faults' \in Nat
  BY DEF WriteRegistration, At, ServerInv, ServerType
<1>2. CASE kind = "gst" /\ held[req[r].of][req[r].body.number] # None
  BY <1>1, <1>2, RefusedKeeps DEF WriteRegistration, rows
<1>3. CASE ~(kind = "gst" /\ held[req[r].of][req[r].body.number] # None)
  <2>1. PICK v : v = IF req[r].body.facts = Typed THEN "typed" ELSE "entry"
    OBVIOUS
  <2>2. v \in Saved /\ Writes(r, [req[r] EXCEPT !.body = Nothing, !.saved = v])
    BY <1>3, <2>1 DEF Saved, WriteRegistration
  <2> QED  BY <1>1, <1>3, <2>2, RegistrationWritten DEF WriteRegistration
<1> QED  BY <1>2, <1>3

LEMMA EdgeWriteRegistrationKeeps ==
  ASSUME ServerInv, NEW r \in Requests, EdgeWriteRegistration(r)
  PROVE  ServerInv'
<1>1. req[r].pc = "run" /\ Head(req[r].todo) \in {"edge registration", "edge certificate"}
  BY DEF EdgeWriteRegistration, At
<1>2. req[r].of \in Companies /\ lagging \subseteq Companies /\ faults' \in Nat
  BY <1>1, InFlight DEF EdgeWriteRegistration, ServerInv, ServerType
<1>3. CASE kind = "gst" /\ held[req[r].of][req[r].body.number] # None /\ At(r, "edge registration")
  BY <1>1, <1>2, <1>3, RefusedKeeps DEF EdgeWriteRegistration, rows
<1>4. CASE ~(kind = "gst" /\ held[req[r].of][req[r].body.number] # None /\ At(r, "edge registration"))
  <2>1. PICK v : v = IF req[r].body.facts = Typed THEN "typed" ELSE "entry"
    OBVIOUS
  <2>2. /\ v \in Saved /\ Writes(r, [req[r] EXCEPT !.body = Nothing, !.saved = v])
        /\ lagging' = lagging \cup {req[r].of}
    BY <1>4, <2>1 DEF Saved, EdgeWriteRegistration
  <2> QED  BY <1>1, <1>2, <1>4, <2>2, RegistrationWritten DEF EdgeWriteRegistration
<1> QED  BY <1>3, <1>4

LEMMA WriteRemovalKeeps ==
  ASSUME ServerInv, NEW r \in Requests, WriteRemoval(r)
  PROVE  ServerInv'
<1> USE DEF ServerInv
<1>1. /\ req[r].pc = "run" /\ Head(req[r].todo) = "removal"
      /\ UNCHANGED <<kind, cin, facts, rest, calendar, made, faults, lagging, unchecked, slipped>>
      /\ lagging \subseteq Companies /\ faults' \in Nat
  BY DEF WriteRemoval, At, history, ServerType
<1>2. PICK q, c : q = req[r] /\ c = req[r].of
  OBVIOUS
<1>3. PICK gone : gone = {n \in IF kind = "udyam" THEN Numbers ELSE {q.body.number} : held[q.of][n] # None}
  OBVIOUS
<1>4. q \in Running /\ c \in Companies
  BY <1>1, <1>2, InFlight
<1>5. CASE gone = {} /\ kind = "gst"
  <2>1. Refuse(r) /\ held' = held
    BY <1>2, <1>3, <1>5 DEF WriteRemoval
  <2> QED  BY <1>1, <2>1, RefusedKeeps DEF rows
<1>6. CASE ~(gone = {} /\ kind = "gst")
  <2>1. PICK p : p = [q EXCEPT !.body = Nothing, !.saved = "removal"]
    OBVIOUS
  <2>2. Writes(r, p) /\ held' = [held EXCEPT ![c] = [n \in Numbers |-> IF n \in gone THEN None ELSE @[n]]]
    BY <1>2, <1>3, <1>6, <2>1 DEF WriteRemoval
  <2>3. p \in Running /\ p.todo = req[r].todo /\ p.of = req[r].of
    BY <1>2, <1>4, <2>1, Bare DEF Saved
  <2>4. /\ held' \in [Companies -> [Numbers -> HeldOf]]
        /\ \A d \in Companies \ {c} : held'[d] = held[d]
        /\ \A n \in Numbers : held'[c][n] \in {None, held[c][n]}
    BY <1>4, <2>2 DEF ServerType, HeldOf
  <2>5. EntryInv'
    <3> SUFFICES ASSUME NEW d \in Companies, NEW n \in Numbers, <<d, n>> \notin slipped
                 PROVE  held'[d][n] \in {None, Typed, n}
      BY <1>1 DEF EntryInv
    <3>1. held[d][n] \in {None, Typed, n}
      BY DEF EntryInv
    <3>2. held'[d][n] \in {None, held[d][n]}
      BY <2>4
    <3> QED  BY <3>1, <3>2
  <2>6. req' \in [Requests -> Running \cup Waiting \cup {NoRequest}] /\ RequestsInv' /\ CalendarInv'
    <3>1. \A d \in Companies \ {req[r].of} : Profile(d)' = Profile(d) /\ cin'[d] = cin[d]
      BY <1>1, <1>2, <2>4 DEF Profile
    <3>2. Head(req[r].todo) \in RowWrites \ EdgeWrites /\ Head(req[r].todo) # "company row"
      BY <1>1 DEF RowWrites, EdgeWrites
    <3> QED  BY <1>1, <2>2, <2>3, <3>1, <3>2, Written
  <2>7. CinHeldOnce'
    BY <1>1, ProfilesKept
  <2>8. ServerType'
    BY <1>1, <2>4, <2>6 DEF ServerType
  <2> QED  BY <2>5, <2>6, <2>7, <2>8
<1> QED  BY <1>5, <1>6

LEMMA EdgeWriteProfileKeeps ==
  ASSUME ServerInv, NEW r \in Requests, EdgeWriteProfile(r)
  PROVE  ServerInv'
<1> USE DEF ServerInv
<1>1. PICK q, c, b : q = req[r] /\ c = req[r].of /\ b = req[r].body
  OBVIOUS
<1>2. req[r].pc = "run" /\ Head(req[r].todo) = "edge profile"
  BY DEF EdgeWriteProfile, At
<1>3. /\ q \in Running /\ c \in Companies
      /\ b \in ProfileBodies
  BY <1>1, <1>2, InFlight DEF Carries
<1>4. PICK p : p = [q EXCEPT !.body = Nothing]
  OBVIOUS
<1>5. p \in Running /\ p.todo = req[r].todo /\ p.of = req[r].of /\ Writes(r, p)
  BY <1>1, <1>3, <1>4, Bare DEF EdgeWriteProfile, Wrote
<1>6. PICK d : d = (b.cin # None /\ (~q.sure \/ CinTaken(b.cin, c)))
  OBVIOUS
<1>7. /\ cin' = [cin EXCEPT ![c] = b.cin] /\ facts' = [facts EXCEPT ![c] = b.facts]
      /\ unchecked' = Mark(unchecked, c, d)
      /\ lagging' = lagging \cup {c}
      /\ UNCHANGED <<kind, held, rest, calendar, made, faults, slipped>>
  BY <1>1, <1>6 DEF EdgeWriteProfile
<1>8. b.cin \in Named /\ b.facts \in Restated /\ d \in BOOLEAN /\ lagging \subseteq Companies
  BY <1>3, <1>6 DEF ProfileBodies, ServerType
<1>9. ~d /\ b.cin # None => Holders(b.cin, c) = {}
  BY <1>3, <1>6 DEF CinTaken
<1>10. lagging \subseteq lagging' /\ lagging' \subseteq Companies /\ c \in lagging'
  BY <1>3, <1>7, <1>8
<1> QED  BY <1>1, <1>2, <1>5, <1>7, <1>8, <1>9, <1>10, ProfileWritten

LEMMA EdgeWriteImportKeeps ==
  ASSUME ServerInv, NEW r \in Requests, EdgeWriteImport(r)
  PROVE  ServerInv'
<1> USE DEF ServerInv
<1>1. PICK q, c, b : q = req[r] /\ c = req[r].of /\ b = req[r].body
  OBVIOUS
<1>2. req[r].pc = "run" /\ Head(req[r].todo) = "edge import"
  BY DEF EdgeWriteImport, At
<1>3. q \in Running /\ c \in Companies /\ b \in ImportBodies /\ lagging \subseteq Companies
  BY <1>1, <1>2, InFlight DEF Carries, ServerType
<1>4. PICK p : p = [q EXCEPT !.body = Nothing]
  OBVIOUS
<1>5. p \in Running /\ p.todo = req[r].todo /\ p.of = req[r].of /\ Writes(r, p)
  BY <1>1, <1>3, <1>4, Bare DEF EdgeWriteImport, Wrote
<1>6. PICK x, f : x = b.cin /\ f = b.facts
  OBVIOUS
<1>7. /\ cin' = IF x = "same" THEN cin ELSE [cin EXCEPT ![c] = x]
      /\ facts' = IF f = "same" THEN facts ELSE [facts EXCEPT ![c] = f]
      /\ unchecked' = IF x = "same" THEN unchecked ELSE unchecked \cup {c}
      /\ lagging' = lagging \cup {c}
      /\ UNCHANGED <<kind, held, rest, calendar, made, faults, slipped>>
  BY <1>1, <1>6 DEF EdgeWriteImport
<1>8. x \in Cins \cup {"same"} /\ f \in Cins \cup {"same"}
  BY <1>3, <1>6 DEF ImportBodies
<1>9. /\ CinHeldOnce'
       /\ cin' \in [Companies -> Named \cup {Absent}] /\ facts' \in [Companies -> Restated]
       /\ unchecked' \subseteq Companies
       /\ \A d \in Companies \ {c} : cin'[d] = cin[d] /\ facts'[d] = facts[d]
  BY <1>3, <1>7, <1>8, Imported
<1>10. req' \in [Requests -> Running \cup Waiting \cup {NoRequest}] /\ RequestsInv' /\ CalendarInv'
  <2>1. \A d \in Companies \ {c} : Profile(d)' = Profile(d) /\ cin'[d] = cin[d]
    BY <1>7, <1>9 DEF Profile
  <2>2. Head(req[r].todo) \in RowWrites /\ Head(req[r].todo) # "company row"
    BY <1>2 DEF RowWrites, EdgeWrites
  <2>3. lagging \subseteq lagging' /\ c \in lagging'
    BY <1>7
  <2> QED  BY <1>1, <1>2, <1>5, <1>7, <2>1, <2>2, <2>3, Written
<1>11. EntryInv'
  BY <1>7, EntriesKept
<1>12. ServerType'
  <2>1. lagging' \subseteq Companies
    BY <1>3, <1>7
  <2> QED  BY <1>7, <1>9, <1>10, <2>1 DEF ServerType
<1> QED  BY <1>9, <1>10, <1>11, <1>12

\* A step that writes no row and no calendar.
LEMMA Moved ==
  ASSUME ServerInv, NEW r \in Requests, NEW n \in Running \cup Waiting \cup {NoRequest}, Becomes(r, n),
         n.pc = "run" => Carries(n) /\ (n.sure => Stands(n)),
         UNCHANGED <<kind, rows, calendar, history>>, made' \in Nat, faults' \in Nat,
         \A c \in Companies : Owes(req[r], c) => Owes(n, c)
  PROVE  ServerInv'
<1>1. req' \in [Requests -> Running \cup Waiting \cup {NoRequest}] /\ RequestsInv' /\ CalendarInv'
  BY Unwritten DEF ServerInv, history
<1>2. CinHeldOnce' /\ EntryInv'
  BY ProfilesKept, EntriesKept DEF ServerInv, rows, history
<1>3. ServerType'
  BY <1>1 DEF ServerInv, ServerType, rows, history
<1> QED  BY <1>1, <1>2, <1>3 DEF ServerInv

LEMMA PlanKeeps ==
  ASSUME ServerInv, NEW r \in Requests, Plan(r)
  PROVE  ServerInv'
<1>1. PICK q, c : q = req[r] /\ c = req[r].of
  OBVIOUS
<1>2. q.pc = "run" /\ Head(q.todo) = "plan"
  BY <1>1 DEF Plan, At
<1>3. q \in Running /\ c \in Companies /\ Carries(q) /\ made \in Nat /\ faults \in Nat
  BY <1>1, <1>2, InFlight DEF ServerInv, ServerType
<1>4. PICK f \in Profiles : f = Profile(c)
  BY <1>3 DEF Profile, Profiles, ServerInv, ServerType
<1>5. PICK p : p = [q EXCEPT !.plan = f, !.sure = TRUE]
  OBVIOUS
<1>6. p \in Running /\ p.todo = q.todo /\ p.of = q.of /\ p.body = q.body /\ p.plan = f /\ p.wrote = q.wrote
  BY <1>3, <1>5 DEF Running
<1>7. PICK n : n = Stepped(p)
  OBVIOUS
<1>8. Becomes(r, n)
  BY <1>1, <1>4, <1>5, <1>7 DEF Plan, Becomes
<1>9. /\ n \in Running \cup Waiting \cup {NoRequest}
      /\ n.pc = "run" => /\ n \in Running /\ Carries(n) /\ n.of = c /\ n.wrote = q.wrote /\ n.plan = f
                         /\ <<"plan", Head(n.todo)>> \in Follows
      /\ n.pc # "run" => <<"plan", "end">> \in Follows
  BY <1>1, <1>2, <1>3, <1>6, <1>7, GoesOn DEF ServerInv
<1>10. n.pc = "run" /\ Head(n.todo) = "calendar"
  <2>1. <<"plan", "end">> \notin Follows
    BY DEF Follows
  <2> QED  BY <1>9, <2>1, NextStep
<1>11. Stands(n)
  BY <1>4, <1>9, <1>10 DEF Stands
<1>12. \A d \in Companies : Owes(req[r], d) => Owes(n, d)
  BY <1>1, <1>9, <1>10 DEF Owes
<1> QED  BY <1>3, <1>8, <1>9, <1>11, <1>12, Moved DEF Plan

LEMMA GenerateKeeps ==
  ASSUME ServerInv, NEW r \in Requests, Generate(r)
  PROVE  ServerInv'
<1> USE DEF ServerInv
<1>1. PICK q, c : q = req[r] /\ c = req[r].of
  OBVIOUS
<1>2. q.pc = "run" /\ Head(q.todo) = "calendar"
  BY <1>1 DEF Generate, At
<1>3. q \in Running /\ c \in Companies /\ Carries(q) /\ (q.sure => Stands(q)) /\ q.plan \in Profiles
  BY <1>1, <1>2, InFlight DEF Carries
<1>4. PICK p : p = [[q EXCEPT !.plan = Nothing] EXCEPT !.wrote = TRUE]
  OBVIOUS
<1>5. p \in Running /\ p.todo = q.todo /\ p.of = q.of /\ p.body = q.body
  BY <1>3, <1>4 DEF Running
<1>6. PICK n : n = Stepped(p)
  OBVIOUS
<1>7. Overtakes(r, n)
  BY <1>1, <1>4, <1>6 DEF Generate, Writes, Overtakes
<1>8. /\ n \in Running \cup Waiting \cup {NoRequest}
      /\ n.pc = "run" => /\ n \in Running /\ Carries(n) /\ n.of = c
                         /\ <<"calendar", Head(n.todo)>> \in Follows
  BY <1>1, <1>2, <1>3, <1>5, <1>6, GoesOn
<1>9. n.pc = "run" => Stands(n)'
  <2>1. n.pc = "run" => Head(n.todo) \in {"plan", "registration", "end"}
    BY <1>8, NextStep
  <2> QED  BY <2>1 DEF Stands
<1>10. /\ calendar' = [calendar EXCEPT ![c] = q.plan] /\ lagging' = Mark(lagging, c, ~q.sure)
       /\ UNCHANGED <<kind, cin, facts, held, rest, made, faults, unchecked, slipped>>
  BY <1>1 DEF Generate, rows
<1>11. req' \in [Requests -> Running \cup Waiting \cup {NoRequest}] /\ RequestsInv'
  BY <1>7, <1>8, <1>9, <1>10, OthersKept, RequestsKept
<1>12. CalendarInv'
  <2> SUFFICES ASSUME NEW d \in Companies, d \in There', d \notin lagging',
                      ~(calendar'[d] = Profile(d)')
               PROVE  \E x \in Requests : Owes(req[x], d)'
    BY DEF CalendarInv, There
  <2>1. Profile(d)' = Profile(d) /\ d \in There
    BY <1>10 DEF Profile, There
  <2>2. CASE d = c
    <3>1. q.sure
      BY <1>10, <2>2 DEF Mark
    <3>2. q.plan = Profile(c)
      BY <1>1, <1>2, <1>3, <3>1 DEF Stands
    <3>3. calendar'[c] = q.plan
      BY <1>3, <1>10 DEF ServerType
    <3> QED  BY <2>1, <2>2, <3>2, <3>3
  <2>3. CASE d # c
    <3>1. calendar'[d] = calendar[d] /\ d \notin lagging
      BY <1>10, <2>3 DEF ServerType, Mark
    <3>2. PICK x \in Requests : Owes(req[x], d)
      BY <2>1, <3>1 DEF CalendarInv
    <3>3. x # r /\ req[x].pc = "run"
      BY <1>1, <2>3, <3>2 DEF Owes
    <3>4. /\ req'[x].pc = "run"
          /\ req'[x].of = req[x].of /\ req'[x].todo = req[x].todo /\ req'[x].wrote = req[x].wrote
      BY <1>7, <1>8, <3>3, OthersKept
    <3> QED  BY <3>2, <3>4 DEF Owes
  <2> QED  BY <2>2, <2>3
<1>13. CinHeldOnce' /\ EntryInv'
  BY <1>10, ProfilesKept, EntriesKept
<1>14. ServerType'
  <2>1. calendar' \in [Companies -> Profiles] /\ lagging' \subseteq Companies
    BY <1>3, <1>10, MarkIs DEF ServerType
  <2> QED  BY <1>10, <1>11, <2>1 DEF ServerType
<1> QED  BY <1>11, <1>12, <1>13, <1>14

LEMMA DieKeeps ==
  ASSUME ServerInv, NEW r \in Requests, Die(r)
  PROVE  ServerInv'
<1>1. req[r].pc = "run" /\ Refuse(r) /\ UNCHANGED <<kind, rows, calendar, made, unchecked, slipped>>
  BY DEF Die
<1>2. faults' \in Nat /\ lagging' = IF req[r].wrote THEN lagging \cup {req[r].of} ELSE lagging
  BY DEF Die, ServerInv, ServerType
<1>3. req[r].of \in Companies /\ lagging \subseteq Companies
  BY <1>1, InFlight DEF ServerInv, ServerType
<1>4. lagging \subseteq lagging' /\ lagging' \subseteq Companies /\ (req[r].wrote => req[r].of \in lagging')
  BY <1>2, <1>3
<1> QED  BY <1>1, <1>2, <1>4, RefusedKeeps

\* Every step on a request keeps what the server promises.
LEMMA ServeKeeps ==
  ASSUME ServerInv, NEW r \in Requests, Serve(r)
  PROVE  ServerInv'
BY PlanKeeps, GenerateKeeps, WriteProfileKeeps, WriteImportKeeps, WriteRegistrationKeeps, WriteRemovalKeeps,
   WriteDirectorsKeeps, WriteSignatoriesKeeps, EdgeWriteSignatoriesKeeps, EdgeWriteProfileKeeps,
   EdgeWriteImportKeeps, EdgeWriteRegistrationKeeps, DieKeeps DEF Serve

-----------------------------------------------------------------------------
(* Requests that begin. *)

Begun(c, todo, body, waited) ==
  [pc |-> "run", of |-> c, todo |-> todo, body |-> body, page |-> waited,
   sure |-> TRUE, wrote |-> FALSE, saved |-> "nothing", plan |-> Nothing]

LEMMA BegunIs ==
  ASSUME NEW c \in Companies, NEW t, InOrder(t), t # <<>>, NEW b \in AllBodies, NEW w \in BOOLEAN
  PROVE  /\ Begun(c, t, b, w) \in Running /\ Begun(c, t, b, w).pc = "run"
         /\ Begun(c, t, b, w).of = c /\ Begun(c, t, b, w).todo = t /\ Begun(c, t, b, w).body = b
<1>1. t \in Seq(Steps) \ {<<>>}
  BY DEF InOrder
<1> QED  BY <1>1 DEF Begun, Running, Saved

\* A request that begins is to carry what its steps need, and to have read what holds.
LEMMA Begins ==
  ASSUME ServerInv, NEW r \in Requests, NEW c \in Companies, NEW t, InOrder(t), t # <<>>,
         NEW b \in AllBodies, NEW w \in BOOLEAN, NEW n, n = Begun(c, t, b, w),
         Begin(r, c, t, b, w), Carries(n), Stands(n)
  PROVE  ServerInv'
<1>1. Becomes(r, n) /\ UNCHANGED <<kind, rows, calendar, history>> /\ made' \in Nat /\ faults' \in Nat
  BY DEF Begin, Becomes, Begun, ServerInv, ServerType
<1>2. \A d \in Companies : ~Owes(req[r], d)
  BY DEF Begin, NoRequest, Owes
<1> QED  BY <1>1, <1>2, BegunIs, Moved

LEMMA ProfileBegins ==
  ASSUME ServerInv, NEW r \in Requests, NEW c \in Companies,
         NEW b \in ProfileBodies, NEW w \in BOOLEAN,
         Begin(r, c, <<"profile">> \o Sync, b, w)
  PROVE  ServerInv'
<1>1. PICK t : t = <<"profile">> \o Sync
  OBVIOUS
<1>2. t # <<>> /\ Head(t) = "profile" /\ InOrder(t) /\ "registration" \notin Ahead(t)
  BY <1>1, ThenSync
<1>3. PICK n : n = Begun(c, t, b, w)
  OBVIOUS
<1>4. b \in AllBodies
  BY DEF AllBodies
<1>5. n.of = c /\ n.todo = t /\ n.body = b
  BY <1>3 DEF Begun
<1>6. Carries(n) /\ Stands(n)
  BY <1>2, <1>5 DEF Carries, Stands, SignUpSteps, Inserts
<1> QED  BY <1>1, <1>2, <1>3, <1>4, <1>6, Begins

LEMMA UpdateBegins ==
  ASSUME ServerInv, NEW r \in Requests, NEW c \in Companies,
         NEW b \in ProfileBodies, NEW w \in BOOLEAN,
         Update(r, c, b, w)
  PROVE  ServerInv'
<1>1. PICK t : t = <<"checked">> \o Sync \o Sync
  OBVIOUS
<1>2. t # <<>> /\ Head(t) = "checked" /\ InOrder(t) /\ "registration" \notin Ahead(t)
  BY <1>1, CheckedSync
<1>3. PICK n : n = Begun(c, t, b, w)
  OBVIOUS
<1>4. b \in AllBodies
  BY DEF AllBodies
<1>5. n.of = c /\ n.todo = t /\ n.body = b
  BY <1>3 DEF Begun
<1>6. ~CinTaken(b.cin, c) /\ Begin(r, c, t, b, w)
  BY <1>1 DEF Update
<1>7. Carries(n) /\ Stands(n)
  BY <1>2, <1>5, <1>6 DEF Carries, Stands, SignUpSteps, Inserts
<1> QED  BY <1>2, <1>3, <1>4, <1>6, <1>7, Begins

LEMMA EdgeUpdateBegins ==
  ASSUME ServerInv, NEW r \in Requests, NEW c \in Companies,
         NEW b \in ProfileBodies, NEW w \in BOOLEAN,
         EdgeUpdate(r, c, b, w)
  PROVE  ServerInv'
<1>1. PICK t : t = <<"edge profile">>
  OBVIOUS
<1>2. t # <<>> /\ Head(t) = "edge profile" /\ InOrder(t) /\ "registration" \notin Ahead(t)
  <2>1. "edge profile" \in Steps /\ <<"edge profile", "end">> \in Follows
    BY DEF Steps, Follows
  <2> QED  BY <1>1, <2>1, OneStep
<1>3. PICK n : n = Begun(c, t, b, w)
  OBVIOUS
<1>4. b \in AllBodies
  BY DEF AllBodies
<1>5. n.of = c /\ n.todo = t /\ n.body = b
  BY <1>3 DEF Begun
<1>6. Begin(r, c, t, b, w)
  BY <1>1 DEF EdgeUpdate
<1>7. Carries(n) /\ Stands(n)
  BY <1>2, <1>5 DEF Carries, Stands, SignUpSteps, Inserts
<1> QED  BY <1>2, <1>3, <1>4, <1>6, <1>7, Begins

\* What differs from the row goes into the request.
LEMMA ImportBegins ==
  ASSUME ServerInv, NEW r \in Requests, NEW c \in Companies, NEW extract \in SUBSET Cins,
         NEW full \in BOOLEAN, NEW w \in BOOLEAN, Import(r, c, extract, full, w)
  PROVE  ServerInv'
<1>1. PICK x \in RecordFor(c, extract) :
        Begin(r, c, <<"import", "signatories">> \o Sync,
              [cin |-> IF x = cin[c] THEN "same" ELSE x,
               facts |-> IF ~full \/ x = facts[c] THEN "same" ELSE x], w)
  BY DEF Import
<1>2. x \in Cins
  BY DEF RecordFor
<1>3. PICK b : b = [cin |-> IF x = cin[c] THEN "same" ELSE x,
                    facts |-> IF ~full \/ x = facts[c] THEN "same" ELSE x]
  OBVIOUS
<1>4. PICK t : t = <<"import", "signatories">> \o Sync
  OBVIOUS
<1>5. t # <<>> /\ Head(t) = "import" /\ InOrder(t) /\ "registration" \notin Ahead(t)
  BY <1>4, ImportSync
<1>6. PICK n : n = Begun(c, t, b, w)
  OBVIOUS
<1>7. b \in ImportBodies
  BY <1>2, <1>3 DEF ImportBodies
<1>8. b \in AllBodies
  BY <1>7 DEF AllBodies
<1>9. n.of = c /\ n.todo = t /\ n.body = b
  BY <1>6 DEF Begun
<1>10. Begin(r, c, t, b, w)
  BY <1>1, <1>3, <1>4
<1>11. Carries(n)
  BY <1>5, <1>7, <1>9 DEF Carries, SignUpSteps, Inserts
<1>12. Stands(n)
  BY <1>5, <1>9 DEF Stands
<1> QED  BY <1>5, <1>6, <1>8, <1>10, <1>11, <1>12, Begins

LEMMA EdgeImportBegins ==
  ASSUME ServerInv, NEW r \in Requests, NEW c \in Companies, NEW x \in Cins, NEW w \in BOOLEAN,
         EdgeImport(r, c, x, w)
  PROVE  ServerInv'
<1>1. PICK b : b = [cin |-> IF x = cin[c] THEN "same" ELSE x, facts |-> IF x = facts[c] THEN "same" ELSE x]
  OBVIOUS
<1>2. PICK t : t = <<"edge import", "edge signatories">>
  OBVIOUS
<1>3. t # <<>> /\ Head(t) = "edge import" /\ InOrder(t) /\ "registration" \notin Ahead(t)
  <2>1. <<"edge import", "edge signatories">> \in Follows /\ <<"edge signatories", "end">> \in Follows
    BY DEF Follows
  <2>2. "edge import" \in Steps /\ "edge signatories" \in Steps
    BY DEF Steps
  <2> QED  BY <1>2, <2>1, <2>2, TwoSteps
<1>4. PICK n : n = Begun(c, t, b, w)
  OBVIOUS
<1>5. b \in ImportBodies
  BY <1>1 DEF ImportBodies
<1>6. b \in AllBodies
  BY <1>5 DEF AllBodies
<1>7. n.of = c /\ n.todo = t /\ n.body = b
  BY <1>4 DEF Begun
<1>8. Begin(r, c, t, b, w)
  BY <1>1, <1>2 DEF EdgeImport
<1>9. Carries(n)
  BY <1>3, <1>5, <1>7 DEF Carries, SignUpSteps, Inserts
<1>10. Stands(n)
  BY <1>3, <1>7 DEF Stands
<1> QED  BY <1>3, <1>4, <1>6, <1>8, <1>9, <1>10, Begins

\* A registration restates its own entry, or says that it may not.
LEMMA RegisterBegins ==
  ASSUME ServerInv, NEW r \in Requests, NEW c \in Companies,
         NEW e \in Entries, ~e.slip => e.facts \in {Typed, Hollow, e.number}, NEW w \in BOOLEAN,
         NEW t \in {Sync \o <<"registration">> \o Sync, <<"edge registration">>, <<"edge certificate">>},
         Begin(r, c, t, e, w)
  PROVE  ServerInv'
<1>1. t # <<>> /\ Head(t) \in {"plan", "edge registration", "edge certificate"} /\ InOrder(t)
  <2>1. CASE t = Sync \o <<"registration">> \o Sync
    BY <2>1, SyncRegistration
  <2>2. /\ "edge registration" \in Steps /\ "edge certificate" \in Steps
        /\ <<"edge registration", "end">> \in Follows /\ <<"edge certificate", "end">> \in Follows
    BY DEF Steps, Follows
  <2>3. CASE t = <<"edge registration">>
    BY <2>2, <2>3, OneStep
  <2>4. CASE t = <<"edge certificate">>
    BY <2>2, <2>4, OneStep
  <2> QED  BY <2>1, <2>3, <2>4
<1>2. PICK n : n = Begun(c, t, e, w)
  OBVIOUS
<1>3. e \in AllBodies
  BY DEF AllBodies
<1>4. n.of = c /\ n.todo = t /\ n.body = e
  BY <1>2 DEF Begun
<1>5. Carries(n) /\ Stands(n)
  BY <1>1, <1>4 DEF Carries, Stands, SignUpSteps, Inserts
<1> QED  BY <1>1, <1>2, <1>3, <1>5, Begins

LEMMA RemoveBegins ==
  ASSUME ServerInv, NEW r \in Requests, NEW c \in Companies, NEW m \in Numbers, NEW w \in BOOLEAN,
         Remove(r, c, m, w)
  PROVE  ServerInv'
<1>1. PICK t, b : t = <<"removal">> \o Sync /\ b = [number |-> m]
  OBVIOUS
<1>2. t # <<>> /\ Head(t) = "removal" /\ InOrder(t) /\ "registration" \notin Ahead(t)
  BY <1>1, ThenSync
<1>3. PICK n : n = Begun(c, t, b, w)
  OBVIOUS
<1>4. b \in Removals /\ b \in AllBodies
  BY <1>1 DEF AllBodies, Removals
<1>5. n.of = c /\ n.todo = t /\ n.body = b
  BY <1>3 DEF Begun
<1>6. Begin(r, c, t, b, w)
  BY <1>1 DEF Remove
<1>7. Carries(n) /\ Stands(n)
  BY <1>2, <1>4, <1>5 DEF Carries, Stands, SignUpSteps, Inserts
<1> QED  BY <1>2, <1>3, <1>4, <1>6, <1>7, Begins

LEMMA StaffBegins ==
  ASSUME ServerInv, NEW r \in Requests, NEW c \in Companies, NEW w \in BOOLEAN, Staff(r, c, w)
  PROVE  ServerInv'
<1>1. PICK t, b : t = <<"directors">> \o Sync /\ b = [directors |-> ~rest[c]]
  OBVIOUS
<1>2. t # <<>> /\ Head(t) = "directors" /\ InOrder(t) /\ "registration" \notin Ahead(t)
  BY <1>1, ThenSync
<1>3. PICK n : n = Begun(c, t, b, w)
  OBVIOUS
<1>4. b \in Staffing /\ b \in AllBodies
  BY <1>1 DEF AllBodies, Staffing
<1>5. n.of = c /\ n.todo = t /\ n.body = b
  BY <1>3 DEF Begun
<1>6. Begin(r, c, t, b, w)
  BY <1>1 DEF Staff
<1>7. Carries(n) /\ Stands(n)
  BY <1>2, <1>4, <1>5 DEF Carries, Stands, SignUpSteps, Inserts
<1> QED  BY <1>2, <1>3, <1>4, <1>6, <1>7, Begins

\* Requests of others carry forms in order.
LEMMA OthersKeep ==
  ASSUME ServerInv, NEW r \in Requests, Others(r)
  PROVE  ServerInv'
<1>1. ASSUME NEW b \in Bodies PROVE b \in ProfileBodies
  <2>1. CASE b = Body(None, Typed)
    <3>1. None \notin Cins
      BY ProfileAssumption DEF Marks
    <3> QED  BY <2>1, <3>1 DEF Body, ProfileBodies, Named, Restated
  <2>2. CASE \E x \in Cins : b = Body(x, x)
    BY <2>2 DEF Body, ProfileBodies, Named, Restated
  <2> QED  BY <2>1, <2>2 DEF Bodies
<1>2. \A m \in Numbers : Entry(m, m, FALSE) \in Entries /\ Entry(m, m, FALSE).facts = Entry(m, m, FALSE).number
  BY DEF Entry, Entries
<1>3. ASSUME Create(r) PROVE ServerInv'
  <2>1. PICK c \in Companies \ There, b \in Bodies :
          Begin(r, c, <<"profile">> \o Sync, b, FALSE)
    BY <1>3 DEF Create
  <2> QED  BY <1>1, <2>1, ProfileBegins
<1>4. ASSUME NEW c \in There, NEW b \in Bodies, Update(r, c, b, FALSE) \/ EdgeUpdate(r, c, b, FALSE)
      PROVE  ServerInv'
  BY <1>1, <1>4, UpdateBegins, EdgeUpdateBegins DEF There
<1>5. ASSUME NEW c \in There, NEW x \in Cins, Import(r, c, {x}, TRUE, FALSE) \/ EdgeImport(r, c, x, FALSE)
      PROVE  ServerInv'
  <2>1. c \in Companies /\ {x} \in SUBSET Cins
    BY DEF There
  <2> QED  BY <1>5, <2>1, ImportBegins, EdgeImportBegins
<1>6. ASSUME NEW c \in There, Staff(r, c, FALSE) PROVE ServerInv'
  BY <1>6, StaffBegins DEF There
<1>7. ASSUME NEW c \in There, NEW m \in Numbers,
             \/ Register(r, c, Entry(m, m, FALSE), FALSE)
             \/ Remove(r, c, m, FALSE)
             \/ EdgeImportCertificate(r, c, m)
      PROVE  ServerInv'
  <2>1. PICK e \in Entries : e = Entry(m, m, FALSE)
    BY <1>2
  <2>2. c \in Companies /\ (~e.slip => e.facts \in {Typed, Hollow, e.number})
    BY <1>2, <2>1 DEF There
  <2>3. CASE Register(r, c, Entry(m, m, FALSE), FALSE)
    BY <2>1, <2>2, <2>3, RegisterBegins DEF Register
  <2>4. CASE EdgeImportCertificate(r, c, m)
    BY <2>1, <2>2, <2>4, RegisterBegins DEF EdgeImportCertificate
  <2>5. CASE Remove(r, c, m, FALSE)
    BY <2>2, <2>5, RemoveBegins
  <2> QED  BY <1>7, <2>3, <2>4, <2>5
<1> QED  BY <1>3, <1>4, <1>5, <1>6, <1>7 DEF Others, ByOthers

-----------------------------------------------------------------------------
(* Sign-ups. *)

\* What is stored of a form is a sign-up of its CIN.
LEMMA StoredTyped ==
  ASSUME NEW b \in ProfileBodies, NEW e \in Emails, NEW m \in Masters(b), Matches(b, m)
  PROVE  /\ Stored(b, e, m) \in SignUpBodies /\ Stored(b, e, m).cin = b.cin /\ Stored(b, e, m).email = e
<1>1. b.cin \in Named /\ b.facts \in Restated /\ None \notin Cins
  BY ProfileAssumption DEF ProfileBodies, Marks
<1>2. m = "found" => b.cin # None /\ b.cin \in Cins
  BY <1>1 DEF Masters, Named
<1>3. PICK f : f = IF m = "found" /\ b.facts = Typed THEN b.cin ELSE b.facts
  OBVIOUS
<1>4. f \in Restated
  BY <1>1, <1>2, <1>3 DEF Restated
<1>5. Stored(b, e, m) = [cin |-> b.cin, email |-> e, facts |-> f]
  BY <1>3 DEF Stored
<1> QED  BY <1>1, <1>4, <1>5 DEF SignUpBodies

LEMMA SignUpBegins ==
  ASSUME ServerInv, kind = "onboarding", NEW r \in Requests, NEW e \in Emails,
         NEW b \in ProfileBodies, NEW w \in BOOLEAN,
         SignUp(r, e, b, w) \/ EdgeSignUp(r, e, b, w)
  PROVE  ServerInv'
<1>1. PICK c \in Companies, m \in Masters(b) :
        /\ Matches(b, m) /\ (b.cin # None => Holders(b.cin, None) = {})
        /\ \/ Begin(r, c, <<"account">> \o Sync, Stored(b, e, m), w)
           \/ Begin(r, c, <<"login", "rpc">>, Stored(b, e, m), w)
  <2>1. CASE SignUp(r, e, b, w)
    BY <2>1 DEF SignUp, Checked, Fresh
  <2>2. CASE EdgeSignUp(r, e, b, w)
    BY <2>2 DEF EdgeSignUp, EdgeChecked, Fresh
  <2> QED  BY <2>1, <2>2
<1>2. PICK d : d = Stored(b, e, m)
  OBVIOUS
<1>3. d \in SignUpBodies /\ d.cin = b.cin
  BY <1>1, <1>2, StoredTyped
<1>4. PICK t \in {<<"account">> \o Sync, <<"login", "rpc">>} : Begin(r, c, t, d, w)
  BY <1>1, <1>2
<1>5. t # <<>> /\ Head(t) \in {"account", "login"} /\ InOrder(t) /\ "registration" \notin Ahead(t)
  <2>1. CASE t = <<"account">> \o Sync
    BY <2>1, ThenSync
  <2>2. CASE t = <<"login", "rpc">>
    <3>1. "login" \in Steps /\ "rpc" \in Steps
      BY DEF Steps
    <3>2. <<"login", "rpc">> \in Follows /\ <<"rpc", "end">> \in Follows
      BY DEF Follows
    <3> QED  BY <2>2, <3>1, <3>2, TwoSteps
  <2> QED  BY <1>4, <2>1, <2>2
<1>6. PICK n : n = Begun(c, t, d, w)
  OBVIOUS
<1>7. n.of = c /\ n.todo = t /\ n.body = d
  BY <1>6 DEF Begun
<1>8. d \in AllBodies
  BY <1>3 DEF AllBodies
<1>9. Carries(n)
  BY <1>3, <1>5, <1>7 DEF Carries, SignUpSteps
<1>10. Stands(n)
  BY <1>1, <1>3, <1>5, <1>7 DEF Stands
<1> QED  BY <1>4, <1>5, <1>6, <1>8, <1>9, <1>10, Begins

\* Nobody at all holds it, so no other company does.
LEMMA NoHolders ==
  ASSUME NEW x, NEW c \in Companies, Holders(x, None) = {}
  PROVE  Holders(x, c) = {}
<1>1. None \notin Companies
  BY ProfileAssumption DEF Marks
<1> QED  BY <1>1 DEF Holders

\* A sign-up writes the company.
LEMMA SignUpWritten ==
  ASSUME ServerInv, NEW r \in Requests, req[r].pc = "run",
         Head(req[r].todo) \in {"account", "rpc", "company row"},
         NEW p \in Running, p.todo = req[r].todo, p.of = req[r].of,
         Head(req[r].todo) = "company row" => p.body = req[r].body, Writes(r, p),
         NEW c, c = req[r].of, NEW b, b = req[r].body,
         cin' = [cin EXCEPT ![c] = b.cin], facts' = [facts EXCEPT ![c] = b.facts],
         unchecked' = Mark(unchecked, c, b.cin # None /\ ~req[r].sure),
         UNCHANGED <<kind, held, rest, calendar, made, faults, slipped>>,
         lagging' = IF Head(req[r].todo) = "account" THEN lagging ELSE lagging \cup {c}
  PROVE  ServerInv' /\ b \in SignUpBodies /\ c \in There' /\ There \subseteq There'
<1>1. /\ c \in Companies /\ Carries(req[r]) /\ (req[r].sure => Stands(req[r]))
      /\ lagging \subseteq Companies
  BY InFlight DEF ServerInv, ServerType
<1>2. b \in SignUpBodies
  BY <1>1 DEF Carries, SignUpSteps, Inserts
<1>3. PICK d : d = (b.cin # None /\ ~req[r].sure)
  OBVIOUS
<1>4. b.cin \in Named /\ b.facts \in Restated /\ d \in BOOLEAN
  BY <1>2, <1>3 DEF SignUpBodies
<1>5. ~d /\ b.cin # None => Holders(b.cin, c) = {}
  BY <1>1, <1>2, <1>3, NoHolders DEF Stands
<1>6. /\ lagging \subseteq lagging' /\ lagging' \subseteq Companies
      /\ Head(req[r].todo) \in EdgeWrites => c \in lagging'
  BY <1>1 DEF EdgeWrites
<1>7. unchecked' = Mark(unchecked, c, d)
  BY <1>3
<1>8. ServerInv'
  BY <1>4, <1>5, <1>6, <1>7, ProfileWritten
<1>9. c \in There' /\ There \subseteq There'
  <2>1. b.cin # Absent
    BY <1>4, ProfileAssumption DEF Named, Marks, None, Absent
  <2>2. \A d1 \in Companies : cin'[d1] = IF d1 = c THEN b.cin ELSE cin[d1]
    BY DEF ServerInv, ServerType
  <2> QED  BY <1>1, <2>1, <2>2 DEF There
<1> QED  BY <1>2, <1>8, <1>9

\* The other requests are at the steps they were at.
LEMMA OthersAt ==
  ASSUME ServerType, NEW r \in Requests, NEW n \in Running \cup Waiting \cup {NoRequest},
         Becomes(r, n) \/ Overtakes(r, n), NEW x \in Requests \ {r}, NEW s
  PROVE  /\ At(x, s)' <=> At(x, s)
         /\ At(x, s) => req'[x].body = req[x].body
<1>1. /\ req'[x].pc = req[x].pc
      /\ req[x].pc = "run" => req'[x].todo = req[x].todo /\ req'[x].body = req[x].body
  BY OthersKept
<1> QED  BY <1>1 DEF At

\* A step of one request, and what it does to the accounts.
LEMMA AccountStep ==
  ASSUME ServerInv, AccountInv, NEW r \in Requests,
         NEW n \in Running \cup Waiting \cup {NoRequest}, Becomes(r, n) \/ Overtakes(r, n),
         \A e \in Emails :
           /\ account[e].row # None => account'[e].row # None
           /\ account[e].of \in There => account'[e].of \in There'
           /\ Whole(e) => Whole(e)'
           /\ account'[e].row = "own" => account[e].row = "own" \/ Whole(e)'
           /\ account'[e].login /\ e \notin stranded' =>
                \/ Whole(e)' \/ UnderWay(r, e)'
                \/ account[e].login /\ e \notin stranded /\ ~UnderWay(r, e),
         n.pc = "run" /\ Head(n.todo) \in {"company row", "grant row"} => account'[n.body.email].row # None,
         n.pc = "run" /\ Head(n.todo) = "grant row" => account'[n.body.email].of \in There'
  PROVE  AccountInv'
<1>1. ServerType /\ RequestsInv
  BY DEF ServerInv
<1>2. req'[r] = n
  BY <1>1, OthersKept
<1>3. ASSUME NEW e \in Emails, account'[e].row = "own" PROVE Whole(e)'
  BY <1>3 DEF AccountInv
<1>4. ASSUME NEW e \in Emails, account'[e].login, e \notin stranded', ~Whole(e)'
      PROVE  \E x \in Requests : UnderWay(x, e)'
  <2>1. CASE UnderWay(r, e)'
    BY <2>1
  <2>2. CASE account[e].login /\ e \notin stranded /\ ~UnderWay(r, e)
    <3>1. ~Whole(e)
      BY <1>4
    <3>2. PICK x \in Requests : UnderWay(x, e)
      BY <2>2, <3>1 DEF AccountInv
    <3>3. x \in Requests \ {r}
      BY <2>2, <3>2
    <3>4. PICK s \in {"rpc", "undo"} \cup Inserts : At(x, s) /\ req[x].body.email = e
      BY <3>2 DEF UnderWay
    <3>5. At(x, s)' /\ req'[x].body.email = e
      BY <1>1, <3>3, <3>4, OthersAt
    <3> QED  BY <3>5 DEF UnderWay
  <2> QED  BY <1>4, <2>1, <2>2
<1>5. ASSUME NEW x \in Requests, NEW s \in {"company row", "grant row"}, At(x, s)'
      PROVE  /\ account'[req'[x].body.email].row # None
             /\ s = "grant row" => account'[req'[x].body.email].of \in There'
  <2>1. CASE x = r
    BY <1>2, <1>5, <2>1 DEF At
  <2>2. CASE x # r
    <3>1. At(x, s) /\ req'[x].body = req[x].body
      BY <1>1, <1>5, <2>2, OthersAt
    <3>2. account[req[x].body.email].row # None /\ (s = "grant row" => account[req[x].body.email].of \in There)
      BY <3>1 DEF AccountInv
    <3>3. req[x].pc = "run" /\ Head(req[x].todo) = s
      BY <3>1 DEF At
    <3>4. Carries(req[x])
      BY <1>1, <3>3, InFlight
    <3>5. req[x].body.email \in Emails
      BY <3>3, <3>4 DEF Carries, SignUpSteps, Inserts, SignUpBodies
    <3> QED  BY <3>1, <3>2, <3>5
  <2> QED  BY <2>1, <2>2
<1> QED  BY <1>3, <1>4, <1>5 DEF AccountInv

\* A step that is none of a sign-up's leaves the accounts as they are.
LEMMA AccountsKept ==
  ASSUME ServerInv, AccountInv, NEW r \in Requests,
         NEW n \in Running \cup Waiting \cup {NoRequest}, Becomes(r, n) \/ Overtakes(r, n),
         UNCHANGED people, There \subseteq There',
         \A e : ~UnderWay(r, e),
         n.pc = "run" => Head(n.todo) \notin {"company row", "grant row"}
  PROVE  AccountInv'
<1>1. \A e \in Emails : Whole(e) => Whole(e)'
  BY DEF people, Whole
<1>2. account' = account /\ stranded' = stranded
  BY DEF people
<1> QED  BY <1>1, <1>2, AccountStep

\* One account has changed.
LEMMA AccountIs ==
  ASSUME AccountType, NEW e \in Emails, NEW a \in Accounts, account' = [account EXCEPT ![e] = a]
  PROVE  /\ account' \in [Emails -> Accounts] /\ account[e] \in Accounts
         /\ account'[e] = a /\ \A x \in Emails \ {e} : account'[x] = account[x]
  BY DEF AccountType

\* It has become whole.
LEMMA AccountMade ==
  ASSUME AccountType, NEW e \in Emails, NEW c \in Companies, NEW v \in {"own", "managed"},
         account' = [account EXCEPT ![e] = [@ EXCEPT !.row = v, !.of = c, !.granted = TRUE]],
         stranded' = stranded, c \in There', There \subseteq There'
  PROVE  /\ AccountType'
         /\ \A x \in Emails :
              /\ account[x].row # None => account'[x].row # None
              /\ account[x].of \in There => account'[x].of \in There'
              /\ Whole(x) => Whole(x)'
              /\ account'[x].row = "own" => account[x].row = "own" \/ Whole(x)'
              /\ account'[x].login => Whole(x)' \/ (x # e /\ account[x].login)
<1>1. account[e] \in Accounts
  BY DEF AccountType
<1>2. PICK a : a = [account[e] EXCEPT !.row = v, !.of = c, !.granted = TRUE]
  OBVIOUS
<1>3. a \in Accounts /\ a.row = v /\ a.of = c /\ a.granted
  BY <1>1, <1>2 DEF Accounts
<1>4. account' = [account EXCEPT ![e] = a]
  BY <1>2
<1>5. account' \in [Emails -> Accounts] /\ account'[e] = a /\ \A x \in Emails \ {e} : account'[x] = account[x]
  BY <1>3, <1>4, AccountIs
<1>6. v # None
  BY DEF None
<1>7. Whole(e)' /\ account'[e].row # None /\ account'[e].of \in There'
  BY <1>3, <1>5, <1>6 DEF Whole
<1>8. AccountType'
  BY <1>5 DEF AccountType
<1>9. ASSUME NEW x \in Emails, x # e
      PROVE  account'[x] = account[x] /\ (Whole(x) => Whole(x)')
  BY <1>5, <1>9 DEF Whole
<1> QED  BY <1>7, <1>8, <1>9

LEMMA WriteAccountKeeps ==
  ASSUME ServerInv, AccountType, AccountInv, NEW r \in Requests, WriteAccount(r)
  PROVE  ServerInv' /\ AccountType' /\ AccountInv' /\ There \subseteq There'
<1>1. req[r].pc = "run" /\ Head(req[r].todo) = "account" /\ \A x : ~UnderWay(r, x)
  BY DEF WriteAccount, At, UnderWay, Inserts
<1>2. PICK q, c, b, e : q = req[r] /\ c = req[r].of /\ b = req[r].body /\ e = req[r].body.email
  OBVIOUS
<1>3. /\ ServerType /\ RequestsInv /\ q \in Running /\ Carries(q) /\ c \in Companies
      /\ faults \in Nat /\ lagging \subseteq Companies
  BY <1>1, <1>2, InFlight DEF ServerInv, ServerType
<1>4. CASE account[e].row # None
  <2>1. /\ Refuse(r) /\ UNCHANGED <<rows, people, kind, calendar, made, faults, lagging, unchecked, slipped>>
    BY <1>2, <1>4 DEF WriteAccount, rows, people
  <2>2. ServerInv'
    BY <1>1, <1>3, <2>1, RefusedKeeps
  <2>3. There \subseteq There'
    BY <2>1 DEF There, rows
  <2>4. PICK n : n = Ended(q, FALSE)
    OBVIOUS
  <2>5. n \in Waiting \cup {NoRequest} /\ n.pc # "run" /\ Becomes(r, n)
    BY <1>2, <1>3, <2>1, <2>4, EndedIs DEF Refuse, Becomes
  <2>6. AccountInv' /\ AccountType'
    BY <1>1, <2>1, <2>3, <2>5, AccountsKept DEF AccountType, people
  <2> QED  BY <2>2, <2>3, <2>6
<1>5. CASE account[e].row = None
  <2>1. PICK p : p = [q EXCEPT !.body = Nothing]
    OBVIOUS
  <2>2. p \in Running /\ p.todo = req[r].todo /\ p.of = req[r].of /\ Writes(r, p)
    BY <1>2, <1>3, <1>5, <2>1, Bare DEF WriteAccount, Wrote
  <2>3. /\ cin' = [cin EXCEPT ![c] = b.cin] /\ facts' = [facts EXCEPT ![c] = b.facts]
        /\ unchecked' = Mark(unchecked, c, b.cin # None /\ ~req[r].sure)
        /\ UNCHANGED <<kind, held, rest, calendar, made, faults, slipped, lagging, stranded>>
        /\ account' = [account EXCEPT ![e] = [@ EXCEPT !.row = "own", !.of = c, !.granted = TRUE]]
    BY <1>2, <1>5 DEF WriteAccount
  <2>4. ServerInv' /\ b \in SignUpBodies /\ c \in There' /\ There \subseteq There'
    BY <1>1, <1>2, <2>2, <2>3, SignUpWritten
  <2>5. e \in Emails
    BY <1>2, <2>4 DEF SignUpBodies
  <2>6. /\ AccountType'
        /\ \A x \in Emails :
              /\ account[x].row # None => account'[x].row # None
              /\ account[x].of \in There => account'[x].of \in There'
              /\ Whole(x) => Whole(x)'
              /\ account'[x].row = "own" => account[x].row = "own" \/ Whole(x)'
              /\ account'[x].login => Whole(x)' \/ (x # e /\ account[x].login)
    BY <1>3, <2>3, <2>4, <2>5, AccountMade
  <2>7. "account" \in RowWrites /\ "account" # "company row"
    BY DEF RowWrites
  <2>8. PICK n \in Running \cup Waiting \cup {NoRequest} :
          Overtakes(r, n) /\ (n.pc = "run" => <<"account", Head(n.todo)>> \in Follows)
    BY <1>1, <1>3, <2>2, <2>7, WritesOn
  <2>9. n.pc = "run" => Head(n.todo) = "plan"
    BY <2>8, NextStep
  <2>10. AccountInv'
    BY <1>1, <2>3, <2>6, <2>8, <2>9, AccountStep
  <2> QED  BY <2>4, <2>6, <2>10
<1> QED  BY <1>4, <1>5

\* The request of a sign-up has become n, and nobody's rows have changed.
LEMMA SignUpMoved ==
  ASSUME ServerInv, AccountType, AccountInv, NEW r \in Requests, req[r].pc = "run",
         Head(req[r].todo) \in SignUpSteps,
         NEW n \in Running \cup Waiting \cup {NoRequest}, Becomes(r, n),
         n.pc = "run" => Carries(n) /\ (n.sure => Stands(n)),
         UNCHANGED <<kind, rows, calendar, history>>, made' \in Nat, faults' \in Nat,
         AccountType', There \subseteq There' => AccountInv'
  PROVE  ServerInv' /\ AccountType' /\ AccountInv' /\ There \subseteq There'
<1>1. \A c \in Companies : ~Owes(req[r], c)
  BY DEF Owes, SignUpSteps, Inserts
<1>2. There \subseteq There'
  BY DEF There, rows
<1> QED  BY <1>1, <1>2, Moved

LEMMA CreateLoginKeeps ==
  ASSUME ServerInv, AccountType, AccountInv, NEW r \in Requests, CreateLogin(r)
  PROVE  ServerInv' /\ AccountType' /\ AccountInv' /\ There \subseteq There'
<1>1. /\ req[r].pc = "run" /\ Head(req[r].todo) = "login" /\ \A x : ~UnderWay(r, x)
      /\ "login" \in SignUpSteps
  BY DEF CreateLogin, At, UnderWay, Inserts, SignUpSteps
<1>2. PICK q, e : q = req[r] /\ e = req[r].body.email
  OBVIOUS
<1>3. /\ ServerType /\ RequestsInv /\ q \in Running /\ Carries(q) /\ (q.sure => Stands(q))
      /\ made' \in Nat /\ faults' \in Nat
  BY <1>1, <1>2, InFlight DEF ServerInv, ServerType, CreateLogin
<1>4. q.body \in SignUpBodies /\ e \in Emails
  BY <1>1, <1>2, <1>3 DEF Carries, SignUpBodies
<1>5. UNCHANGED <<kind, rows, calendar, made, faults, history, stranded>>
  BY DEF CreateLogin
<1>6. CASE account[e].login
  <2>1. PICK n : n = Ended(q, FALSE)
    OBVIOUS
  <2>2. n \in Waiting \cup {NoRequest} /\ n.pc # "run" /\ Becomes(r, n) /\ account' = account
    BY <1>2, <1>3, <1>6, <2>1, EndedIs DEF CreateLogin, Refuse, Becomes
  <2>3. AccountType'
    BY <1>5, <2>2 DEF AccountType
  <2>4. There \subseteq There' => AccountInv'
    BY <1>1, <1>5, <2>2, AccountsKept DEF people
  <2> QED  BY <1>1, <1>3, <1>5, <2>2, <2>3, <2>4, SignUpMoved
<1>7. CASE ~account[e].login
  <2>1. PICK n : n = Stepped(q)
    OBVIOUS
  <2>2. Becomes(r, n) /\ account' = [account EXCEPT ![e].login = TRUE]
    BY <1>2, <1>7, <2>1 DEF CreateLogin, Becomes
  <2>3. /\ n \in Running \cup Waiting \cup {NoRequest}
        /\ n.pc = "run" => /\ n \in Running /\ Carries(n) /\ n.of = q.of /\ n.body = q.body /\ n.sure = q.sure
                           /\ <<"login", Head(n.todo)>> \in Follows
        /\ n.pc # "run" => <<"login", "end">> \in Follows
    BY <1>1, <1>2, <1>3, <2>1, GoesOn
  <2>4. n.pc = "run" /\ Head(n.todo) = "rpc"
    <3>1. <<"login", "end">> \notin Follows
      BY DEF Follows
    <3> QED  BY <2>3, <3>1, NextStep
  <2>5. n.sure => Stands(n)
    BY <1>1, <1>2, <1>3, <2>3, <2>4 DEF Stands
  <2>6. PICK a : a = [account[e] EXCEPT !.login = TRUE]
    OBVIOUS
  <2>7. a \in Accounts /\ a.row = account[e].row /\ a.of = account[e].of /\ a.granted = account[e].granted
        /\ account' = [account EXCEPT ![e] = a]
    BY <1>4, <2>2, <2>6 DEF AccountType, Accounts
  <2>8. account' \in [Emails -> Accounts] /\ account'[e] = a /\ \A x \in Emails \ {e} : account'[x] = account[x]
    BY <1>4, <2>7, AccountIs
  <2>9. AccountType'
    BY <1>5, <2>8 DEF AccountType
  <2>10. ASSUME There \subseteq There' PROVE AccountInv'
    <3>1. \A x \in Emails : /\ account'[x].row = account[x].row /\ account'[x].of = account[x].of
                            /\ account'[x].granted = account[x].granted
                            /\ x # e => account'[x].login = account[x].login
      BY <2>7, <2>8
    <3>2. \A x \in Emails : Whole(x) => Whole(x)'
      BY <2>10, <3>1 DEF Whole
    <3>3. UnderWay(r, e)'
      <4>1. req'[r] = n
        BY <1>3, <2>2, <2>3, OthersKept
      <4>2. n.todo # <<>> /\ n.body.email = e
        BY <1>2, <2>3, <2>4 DEF Running
      <4> QED  BY <2>4, <4>1, <4>2 DEF UnderWay, At
    <3> QED  BY <1>1, <1>5, <2>2, <2>3, <2>4, <2>10, <3>1, <3>2, <3>3, AccountStep
  <2> QED  BY <1>1, <1>3, <1>5, <2>2, <2>3, <2>5, <2>9, <2>10, SignUpMoved
<1> QED  BY <1>6, <1>7

\* A sign-up turns to other steps; what it has read still stands.
LEMMA ThenIs ==
  ASSUME ServerInv, NEW r \in Requests, req[r].pc = "run", Head(req[r].todo) \in {"rpc"} \cup Inserts,
         NEW t, Then(r, t),
         \/ t = <<"undo">>
         \/ t = <<"user row", "company row", "grant row">> /\ Head(req[r].todo) = "rpc"
  PROVE  \E n \in Running :
           /\ Becomes(r, n) /\ n.pc = "run" /\ n.body = req[r].body /\ n.todo = t /\ t # <<>>
           /\ Head(t) \in {"user row", "undo"}
           /\ Carries(n) /\ (n.sure => Stands(n))
<1>1. PICK q : q = req[r]
  OBVIOUS
<1>2. q \in Running /\ Carries(q) /\ (q.sure => Stands(q))
  BY <1>1, InFlight DEF ServerInv
<1>3. /\ t # <<>> /\ InOrder(t) /\ "registration" \notin Ahead(t)
      /\ Head(t) \in {"user row", "undo"} /\ (Head(t) = "user row" => Head(req[r].todo) = "rpc")
  <2>1. CASE t = <<"undo">>
    <3>1. "undo" \in Steps /\ <<"undo", "end">> \in Follows
      BY DEF Steps, Follows
    <3> QED  BY <2>1, <3>1, OneStep
  <2>2. CASE t = <<"user row", "company row", "grant row">> /\ Head(req[r].todo) = "rpc"
    BY <2>2, Inserting
  <2> QED  BY <2>1, <2>2
<1>4. t \in Seq(Steps) \ {<<>>}
  BY <1>3 DEF InOrder
<1>5. PICK n : n = [q EXCEPT !.todo = t]
  OBVIOUS
<1>6. n \in Running /\ n.pc = "run" /\ n.body = q.body /\ n.todo = t /\ n.of = q.of /\ n.sure = q.sure
  BY <1>2, <1>4, <1>5 DEF Running
<1>7. Becomes(r, n)
  BY <1>1, <1>5 DEF Then, Becomes
<1>8. Carries(n)
  <2>1. kind = "onboarding" /\ q.body \in SignUpBodies
    BY <1>1, <1>2 DEF Carries, SignUpSteps, Inserts
  <2> QED  BY <1>3, <1>6, <2>1 DEF Carries
<1>9. n.sure => Stands(n)
  BY <1>1, <1>2, <1>3, <1>6 DEF Stands
<1> QED  BY <1>1, <1>3, <1>6, <1>7, <1>8, <1>9

\* The same, and the accounts with it.
LEMMA ThenKeeps ==
  ASSUME ServerInv, AccountType, AccountInv, NEW r \in Requests, req[r].pc = "run",
         Head(req[r].todo) \in {"rpc"} \cup Inserts,
         NEW t, Then(r, t),
         \/ t = <<"undo">>
         \/ t = <<"user row", "company row", "grant row">> /\ Head(req[r].todo) = "rpc",
         UNCHANGED <<kind, rows, calendar, made, history, people>>, faults' \in Nat
  PROVE  ServerInv' /\ AccountType' /\ AccountInv' /\ There \subseteq There'
<1>1. PICK n \in Running :
           /\ Becomes(r, n) /\ n.pc = "run" /\ n.body = req[r].body /\ n.todo = t /\ t # <<>>
           /\ Head(t) \in {"user row", "undo"}
           /\ Carries(n) /\ (n.sure => Stands(n))
  BY ThenIs, ZenonT(60)
<1>2. AccountType' /\ account' = account /\ stranded' = stranded
  BY DEF AccountType, people
<1>3. ASSUME There \subseteq There' PROVE AccountInv'
  <2>1. req'[r] = n
    BY <1>1, OthersKept DEF ServerInv
  <2>2. ASSUME NEW x, UnderWay(r, x) PROVE UnderWay(r, x)'
    <3>1. req[r].body.email = x
      BY <2>2 DEF UnderWay
    <3>2. At(r, Head(t))' /\ req'[r].body.email = x
      BY <1>1, <2>1, <3>1 DEF At
    <3>3. Head(t) \in {"rpc", "undo"} \cup Inserts
      BY <1>1 DEF Inserts
    <3> QED  BY <3>2, <3>3 DEF UnderWay
  <2>3. \A x \in Emails : Whole(x) => Whole(x)'
    BY <1>2, <1>3 DEF Whole
  <2>4. Head(n.todo) \notin {"company row", "grant row"}
    BY <1>1
  <2> QED  BY <1>1, <1>2, <1>3, <2>2, <2>3, <2>4, AccountStep
<1>4. Head(req[r].todo) \in SignUpSteps /\ made' \in Nat
  BY DEF SignUpSteps, ServerInv, ServerType
<1> QED  BY <1>1, <1>2, <1>3, <1>4, SignUpMoved

LEMMA RegisterTrialKeeps ==
  ASSUME ServerInv, AccountType, AccountInv, NEW r \in Requests, RegisterTrial(r)
  PROVE  ServerInv' /\ AccountType' /\ AccountInv' /\ There \subseteq There'
<1>1. req[r].pc = "run" /\ Head(req[r].todo) = "rpc"
  BY DEF RegisterTrial, At
<1>2. PICK q, c, b, e : q = req[r] /\ c = req[r].of /\ b = req[r].body /\ e = req[r].body.email
  OBVIOUS
<1>3. /\ ServerType /\ RequestsInv /\ q \in Running /\ Carries(q) /\ c \in Companies
      /\ faults \in Nat /\ lagging \subseteq Companies
  BY <1>1, <1>2, InFlight DEF ServerInv, ServerType
<1>4. CASE /\ Then(r, <<"user row", "company row", "grant row">>)
           /\ UNCHANGED <<cin, facts, account, unchecked, lagging>>
  <2>1. UNCHANGED <<kind, rows, calendar, made, history, people>> /\ faults' \in Nat
    BY <1>3, <1>4 DEF RegisterTrial, rows, history, people
  <2>2. PICK t : t = <<"user row", "company row", "grant row">>
    OBVIOUS
  <2>3. Then(r, t)
    BY <1>4, <2>2
  <2> QED  BY <1>1, <2>1, <2>2, <2>3, ThenKeeps
<1>5. CASE /\ account[e].row = None /\ Wrote(r)
           /\ cin'   = [cin   EXCEPT ![c] = b.cin]
           /\ facts' = [facts EXCEPT ![c] = b.facts]
           /\ account' = [account EXCEPT ![e] = [@ EXCEPT !.row = "managed", !.of = c, !.granted = TRUE]]
           /\ unchecked' = Mark(unchecked, c, b.cin # None /\ ~q.sure)
           /\ lagging'   = lagging \cup {c}
  <2>1. PICK p : p = [q EXCEPT !.body = Nothing]
    OBVIOUS
  <2>2. p \in Running /\ p.todo = req[r].todo /\ p.of = req[r].of /\ Writes(r, p)
    BY <1>2, <1>3, <1>5, <2>1, Bare DEF Wrote
  <2>3. UNCHANGED <<kind, held, rest, calendar, made, faults, slipped, stranded>>
    BY DEF RegisterTrial
  <2>4. ServerInv' /\ b \in SignUpBodies /\ c \in There' /\ There \subseteq There'
    <3>1. unchecked' = Mark(unchecked, c, b.cin # None /\ ~req[r].sure)
      BY <1>2, <1>5
    <3> QED  BY <1>1, <1>2, <1>5, <2>2, <2>3, <3>1, SignUpWritten
  <2>5. e \in Emails
    BY <1>2, <2>4 DEF SignUpBodies
  <2>6. /\ AccountType'
        /\ \A x \in Emails :
              /\ account[x].row # None => account'[x].row # None
              /\ account[x].of \in There => account'[x].of \in There'
              /\ Whole(x) => Whole(x)'
              /\ account'[x].row = "own" => account[x].row = "own" \/ Whole(x)'
              /\ account'[x].login => Whole(x)' \/ (x # e /\ account[x].login)
    BY <1>3, <1>5, <2>3, <2>4, <2>5, AccountMade
  <2>7. "rpc" \in RowWrites /\ "rpc" # "company row"
    BY DEF RowWrites, EdgeWrites
  <2>8. PICK n \in Running \cup Waiting \cup {NoRequest} :
          Overtakes(r, n) /\ (n.pc = "run" => <<"rpc", Head(n.todo)>> \in Follows)
    BY <1>1, <1>3, <2>2, <2>7, WritesOn
  <2>9. n.pc = "run" => Head(n.todo) = "end"
    BY <2>8, NextStep
  <2>10. \A x : UnderWay(r, x) => x = e
    BY <1>2 DEF UnderWay
  <2>11. AccountInv'
    BY <2>3, <2>6, <2>8, <2>9, <2>10, AccountStep
  <2> QED  BY <2>4, <2>6, <2>11
<1> QED  BY <1>2, <1>4, <1>5 DEF RegisterTrial

LEMMA InsertUserKeeps ==
  ASSUME ServerInv, AccountType, AccountInv, NEW r \in Requests, InsertUser(r)
  PROVE  ServerInv' /\ AccountType' /\ AccountInv' /\ There \subseteq There'
<1>1. /\ req[r].pc = "run" /\ Head(req[r].todo) = "user row"
      /\ "user row" \in SignUpSteps \cap Inserts
  BY DEF InsertUser, At, Inserts, SignUpSteps
<1>2. PICK q, e : q = req[r] /\ e = req[r].body.email
  OBVIOUS
<1>3. /\ ServerType /\ RequestsInv /\ q \in Running /\ Carries(q) /\ (q.sure => Stands(q))
      /\ made' \in Nat /\ faults' \in Nat
  BY <1>1, <1>2, InFlight DEF ServerInv, ServerType, InsertUser
<1>4. q.body \in SignUpBodies /\ e \in Emails
  BY <1>1, <1>2, <1>3 DEF Carries, SignUpBodies
<1>5. UNCHANGED <<kind, rows, calendar, made, faults, history, stranded>>
  BY DEF InsertUser
<1>6. CASE account[e].row # None
  <2>1. PICK t : t = <<"undo">>
    OBVIOUS
  <2>2. Then(r, t) /\ UNCHANGED people
    BY <1>2, <1>5, <1>6, <2>1 DEF InsertUser, people
  <2> QED  BY <1>1, <1>3, <1>5, <2>1, <2>2, ThenKeeps
<1>7. CASE account[e].row = None
  <2>1. PICK n : n = Stepped(q)
    OBVIOUS
  <2>2. Becomes(r, n) /\ account' = [account EXCEPT ![e] = [@ EXCEPT !.row = "managed"]]
    BY <1>2, <1>7, <2>1 DEF InsertUser, Becomes
  <2>3. /\ n \in Running \cup Waiting \cup {NoRequest}
        /\ n.pc = "run" => /\ n \in Running /\ Carries(n) /\ n.of = q.of /\ n.body = q.body /\ n.sure = q.sure
                           /\ <<"user row", Head(n.todo)>> \in Follows
        /\ n.pc # "run" => <<"user row", "end">> \in Follows
    BY <1>1, <1>2, <1>3, <2>1, GoesOn
  <2>4. n.pc = "run" /\ Head(n.todo) = "company row"
    <3>1. <<"user row", "end">> \notin Follows
      BY DEF Follows
    <3> QED  BY <2>3, <3>1, NextStep
  <2>5. n.sure => Stands(n)
    BY <1>1, <1>2, <1>3, <2>3, <2>4 DEF Stands
  <2>6. PICK a : a = [account[e] EXCEPT !.row = "managed"]
    OBVIOUS
  <2>7. a \in Accounts /\ a.row = "managed" /\ a.of = account[e].of /\ a.granted = account[e].granted
        /\ account' = [account EXCEPT ![e] = a]
    BY <1>4, <2>2, <2>6 DEF AccountType, Accounts
  <2>8. account' \in [Emails -> Accounts] /\ account'[e] = a /\ \A x \in Emails \ {e} : account'[x] = account[x]
    BY <1>4, <2>7, AccountIs
  <2>9. AccountType'
    BY <1>5, <2>8 DEF AccountType
  <2>10. ASSUME There \subseteq There' PROVE AccountInv'
    <3>1. "managed" # None
      BY DEF None
    <3>2. \A x \in Emails \ {e} : account'[x] = account[x] /\ (Whole(x) => Whole(x)')
      BY <2>8, <2>10 DEF Whole
    <3>3. UnderWay(r, e)' /\ \A x : UnderWay(r, x) => x = e
      <4>1. req'[r] = n
        BY <1>3, <2>2, <2>3, OthersKept
      <4>2. n.todo # <<>> /\ n.body.email = e
        BY <1>2, <2>3, <2>4 DEF Running
      <4> QED  BY <1>2, <2>4, <4>1, <4>2 DEF UnderWay, At, Inserts
    <3>4. ASSUME NEW x \in Emails
          PROVE  /\ account[x].row # None => account'[x].row # None
                 /\ account[x].of \in There => account'[x].of \in There'
                 /\ Whole(x) => Whole(x)'
                 /\ account'[x].row = "own" => account[x].row = "own" \/ Whole(x)'
                 /\ account'[x].login /\ x \notin stranded' =>
                      \/ Whole(x)' \/ UnderWay(r, x)'
                      \/ account[x].login /\ x \notin stranded /\ ~UnderWay(r, x)
      <4>1. CASE x = e
        BY <1>7, <2>7, <2>8, <2>10, <3>1, <3>3, <4>1 DEF Whole
      <4>2. CASE x # e
        BY <1>5, <2>10, <3>2, <3>3, <4>2
      <4> QED  BY <4>1, <4>2
    <3>5. account'[n.body.email].row # None
      BY <1>2, <2>3, <2>4, <2>7, <2>8, <3>1
    <3> QED  BY <2>2, <2>3, <2>4, <3>4, <3>5, AccountStep
  <2> QED  BY <1>1, <1>3, <1>5, <2>2, <2>3, <2>5, <2>9, <2>10, SignUpMoved
<1> QED  BY <1>6, <1>7

LEMMA InsertCompanyKeeps ==
  ASSUME ServerInv, AccountType, AccountInv, NEW r \in Requests, InsertCompany(r)
  PROVE  ServerInv' /\ AccountType' /\ AccountInv' /\ There \subseteq There'
<1>1. At(r, "company row") /\ req[r].pc = "run" /\ Head(req[r].todo) = "company row"
  BY DEF InsertCompany, At
<1>2. PICK q, c, b, e : q = req[r] /\ c = req[r].of /\ b = req[r].body /\ e = req[r].body.email
  OBVIOUS
<1>3. /\ ServerType /\ RequestsInv /\ q \in Running /\ Carries(q) /\ c \in Companies
      /\ lagging \subseteq Companies
  BY <1>1, <1>2, InFlight DEF ServerInv, ServerType
<1>4. /\ Writes(r, q)
      /\ cin' = [cin EXCEPT ![c] = b.cin] /\ facts' = [facts EXCEPT ![c] = b.facts]
      /\ account' = [account EXCEPT ![e].of = c]
      /\ unchecked' = Mark(unchecked, c, b.cin # None /\ ~q.sure)
      /\ lagging'   = lagging \cup {c}
      /\ UNCHANGED <<kind, held, rest, calendar, made, faults, slipped, stranded>>
  BY <1>2 DEF InsertCompany
<1>5. ServerInv' /\ b \in SignUpBodies /\ c \in There' /\ There \subseteq There'
  <2>1. unchecked' = Mark(unchecked, c, b.cin # None /\ ~req[r].sure)
    BY <1>2, <1>4
  <2> QED  BY <1>1, <1>2, <1>3, <1>4, <2>1, SignUpWritten
<1>6. e \in Emails /\ account[e].row # None
  BY <1>1, <1>2, <1>5 DEF SignUpBodies, AccountInv
<1>7. PICK a : a = [account[e] EXCEPT !.of = c]
  OBVIOUS
<1>8. /\ a \in Accounts /\ a.row = account[e].row /\ a.of = c /\ a.granted = account[e].granted
      /\ a.login = account[e].login /\ account' = [account EXCEPT ![e] = a]
  BY <1>3, <1>4, <1>6, <1>7 DEF AccountType, Accounts
<1>9. account' \in [Emails -> Accounts] /\ account'[e] = a /\ \A x \in Emails \ {e} : account'[x] = account[x]
  BY <1>6, <1>8, AccountIs
<1>10. AccountType'
  BY <1>4, <1>9 DEF AccountType
<1>11. "company row" \in RowWrites
  BY DEF RowWrites, EdgeWrites
<1>12. PICK n \in Running \cup Waiting \cup {NoRequest} :
         /\ Overtakes(r, n)
         /\ n.pc = "run" => n \in Running /\ n.body = b /\ <<"company row", Head(n.todo)>> \in Follows
         /\ n.pc # "run" => <<"company row", "end">> \in Follows
  BY <1>1, <1>2, <1>3, <1>4, <1>11, WritesOn
<1>13. n.pc = "run" /\ Head(n.todo) = "grant row"
  <2>1. <<"company row", "end">> \notin Follows
    BY DEF Follows
  <2> QED  BY <1>12, <2>1, NextStep
<1>14. UnderWay(r, e)' /\ \A x : UnderWay(r, x) => x = e
  <2>1. req'[r] = n
    BY <1>3, <1>12, OthersKept
  <2>2. n.todo # <<>> /\ n.body.email = e
    BY <1>2, <1>12, <1>13 DEF Running
  <2> QED  BY <1>2, <1>13, <2>1, <2>2 DEF UnderWay, At, Inserts
<1>15. ASSUME NEW x \in Emails
       PROVE  /\ account[x].row # None => account'[x].row # None
              /\ account[x].of \in There => account'[x].of \in There'
              /\ Whole(x) => Whole(x)'
              /\ account'[x].row = "own" => account[x].row = "own" \/ Whole(x)'
              /\ account'[x].login /\ x \notin stranded' =>
                   \/ Whole(x)' \/ UnderWay(r, x)'
                   \/ account[x].login /\ x \notin stranded /\ ~UnderWay(r, x)
  <2>1. CASE x = e
    BY <1>5, <1>8, <1>9, <1>14, <2>1 DEF Whole
  <2>2. CASE x # e
    BY <1>4, <1>5, <1>9, <1>14, <2>2 DEF Whole
  <2> QED  BY <2>1, <2>2
<1>16. account'[n.body.email].row # None /\ account'[n.body.email].of \in There'
  BY <1>2, <1>5, <1>6, <1>8, <1>9, <1>12, <1>13
<1>17. AccountInv'
  BY <1>12, <1>13, <1>15, <1>16, AccountStep
<1> QED  BY <1>5, <1>10, <1>17

LEMMA InsertGrantKeeps ==
  ASSUME ServerInv, AccountType, AccountInv, NEW r \in Requests, InsertGrant(r)
  PROVE  ServerInv' /\ AccountType' /\ AccountInv' /\ There \subseteq There'
<1>1. /\ At(r, "grant row") /\ req[r].pc = "run" /\ Head(req[r].todo) = "grant row"
      /\ "grant row" \in SignUpSteps
  BY DEF InsertGrant, At, Inserts, SignUpSteps
<1>2. PICK q, e : q = req[r] /\ e = req[r].body.email
  OBVIOUS
<1>3. /\ ServerType /\ RequestsInv /\ q \in Running /\ Carries(q)
      /\ made' \in Nat /\ faults' \in Nat
  BY <1>1, <1>2, InFlight DEF ServerInv, ServerType, InsertGrant
<1>4. e \in Emails /\ account[e].row # None /\ account[e].of \in There
  BY <1>1, <1>2, <1>3 DEF Carries, SignUpBodies, AccountInv
<1>5. UNCHANGED <<kind, rows, calendar, made, faults, history, stranded>>
  BY DEF InsertGrant
<1>6. PICK n : n = Stepped(q)
  OBVIOUS
<1>7. Becomes(r, n) /\ account' = [account EXCEPT ![e].granted = TRUE]
  BY <1>2, <1>6 DEF InsertGrant, Becomes
<1>8. /\ n \in Running \cup Waiting \cup {NoRequest}
      /\ n.pc = "run" => n \in Running /\ Carries(n) /\ <<"grant row", Head(n.todo)>> \in Follows
  BY <1>1, <1>2, <1>3, <1>6, GoesOn
<1>9. n.pc = "run" => Head(n.todo) = "end"
  BY <1>8, NextStep
<1>10. Stands(n) \/ n.pc # "run"
  BY <1>9 DEF Stands
<1>11. PICK a : a = [account[e] EXCEPT !.granted = TRUE]
  OBVIOUS
<1>12. /\ a \in Accounts /\ a.row = account[e].row /\ a.of = account[e].of /\ a.granted
       /\ account' = [account EXCEPT ![e] = a]
  BY <1>4, <1>7, <1>11 DEF AccountType, Accounts
<1>13. account' \in [Emails -> Accounts] /\ account'[e] = a /\ \A x \in Emails \ {e} : account'[x] = account[x]
  BY <1>4, <1>12, AccountIs
<1>14. AccountType'
  BY <1>5, <1>13 DEF AccountType
<1>15. ASSUME There \subseteq There' PROVE AccountInv'
  <2>1. \A x : UnderWay(r, x) => x = e
    BY <1>2 DEF UnderWay
  <2>2. ASSUME NEW x \in Emails
        PROVE  /\ account[x].row # None => account'[x].row # None
               /\ account[x].of \in There => account'[x].of \in There'
               /\ Whole(x) => Whole(x)'
               /\ account'[x].row = "own" => account[x].row = "own" \/ Whole(x)'
               /\ account'[x].login /\ x \notin stranded' =>
                    \/ Whole(x)' \/ UnderWay(r, x)'
                    \/ account[x].login /\ x \notin stranded /\ ~UnderWay(r, x)
    <3>1. CASE x = e
      BY <1>4, <1>12, <1>13, <1>15, <3>1 DEF Whole
    <3>2. CASE x # e
      BY <1>5, <1>13, <1>15, <2>1, <3>2 DEF Whole
    <3> QED  BY <3>1, <3>2
  <2> QED  BY <1>7, <1>8, <1>9, <2>2, AccountStep
<1> QED  BY <1>1, <1>3, <1>5, <1>7, <1>8, <1>10, <1>14, <1>15, SignUpMoved

LEMMA InsertFailsKeeps ==
  ASSUME ServerInv, AccountType, AccountInv, NEW r \in Requests, InsertFails(r)
  PROVE  ServerInv' /\ AccountType' /\ AccountInv' /\ There \subseteq There'
<1>1. req[r].pc = "run" /\ Head(req[r].todo) \in Inserts /\ faults' \in Nat
  BY DEF InsertFails, At, ServerInv, ServerType
<1>2. PICK t : t = <<"undo">>
  OBVIOUS
<1>3. Then(r, t) /\ UNCHANGED <<kind, rows, calendar, made, history, people>>
  BY <1>2 DEF InsertFails
<1> QED  BY <1>1, <1>2, <1>3, ThenKeeps

LEMMA TakeBackKeeps ==
  ASSUME ServerInv, AccountType, AccountInv, NEW r \in Requests, TakeBack(r)
  PROVE  ServerInv' /\ AccountType' /\ AccountInv' /\ There \subseteq There'
<1>1. req[r].pc = "run" /\ Head(req[r].todo) = "undo" /\ "undo" \in SignUpSteps
  BY DEF TakeBack, At, SignUpSteps
<1>2. PICK q, e : q = req[r] /\ e = req[r].body.email
  OBVIOUS
<1>3. /\ ServerType /\ RequestsInv /\ q \in Running /\ Carries(q)
      /\ made' \in Nat /\ faults' \in Nat
  BY <1>1, <1>2, InFlight DEF ServerInv, ServerType, TakeBack
<1>4. e \in Emails
  BY <1>1, <1>2, <1>3 DEF Carries, SignUpBodies
<1>5. UNCHANGED <<kind, rows, calendar, made, history>> /\ Refuse(r)
  BY DEF TakeBack
<1>6. PICK n : n = Ended(q, FALSE)
  OBVIOUS
<1>7. n \in Running \cup Waiting \cup {NoRequest} /\ n.pc # "run" /\ Becomes(r, n)
  BY <1>2, <1>3, <1>5, <1>6, EndedIs DEF Refuse, Becomes
<1>8. \A x : UnderWay(r, x) => x = e
  BY <1>2 DEF UnderWay
<1>9. CASE account' = [account EXCEPT ![e].login = FALSE] /\ stranded' = stranded
  <2>1. PICK a : a = [account[e] EXCEPT !.login = FALSE]
    OBVIOUS
  <2>2. /\ a \in Accounts /\ a.row = account[e].row /\ a.of = account[e].of /\ a.granted = account[e].granted
        /\ ~a.login /\ account' = [account EXCEPT ![e] = a]
    BY <1>4, <1>9, <2>1 DEF AccountType, Accounts
  <2>3. account' \in [Emails -> Accounts] /\ account'[e] = a /\ \A x \in Emails \ {e} : account'[x] = account[x]
    BY <1>4, <2>2, AccountIs
  <2>4. AccountType'
    BY <1>9, <2>3 DEF AccountType
  <2>5. ASSUME There \subseteq There' PROVE AccountInv'
    <3>1. ASSUME NEW x \in Emails
          PROVE  /\ account'[x].row = account[x].row /\ account'[x].of = account[x].of
                 /\ account'[x].granted = account[x].granted
                 /\ account'[x].login => x # e /\ account[x].login
      <4>1. CASE x = e
        BY <2>2, <2>3, <4>1
      <4>2. CASE x # e
        BY <2>3, <4>2
      <4> QED  BY <4>1, <4>2
    <3>2. \A x \in Emails : Whole(x) => Whole(x)'
      BY <2>5, <3>1 DEF Whole
    <3> QED  BY <1>7, <1>8, <1>9, <2>5, <3>1, <3>2, AccountStep
  <2> QED  BY <1>1, <1>3, <1>5, <1>7, <2>4, <2>5, SignUpMoved
<1>10. CASE stranded' = stranded \cup {e} /\ account' = account
  <2>1. AccountType'
    BY <1>4, <1>10 DEF AccountType
  <2>2. ASSUME There \subseteq There' PROVE AccountInv'
    <3>1. \A x \in Emails : Whole(x) => Whole(x)'
      BY <1>10, <2>2 DEF Whole
    <3> QED  BY <1>7, <1>8, <1>10, <2>2, <3>1, AccountStep
  <2> QED  BY <1>1, <1>3, <1>5, <1>7, <2>1, <2>2, SignUpMoved
<1> QED  BY <1>2, <1>9, <1>10 DEF TakeBack

LEMMA KilledKeeps ==
  ASSUME ServerInv, AccountType, AccountInv, NEW r \in Requests, Killed(r)
  PROVE  ServerInv' /\ AccountType' /\ AccountInv' /\ There \subseteq There'
<1>1. /\ Die(r) /\ account' = account /\ stranded' = stranded \cup {e \in Emails : SigningUp(r, e)}
      /\ req[r].pc = "run" /\ Refuse(r) /\ rows' = rows
  BY DEF Killed, Die
<1>2. ServerInv'
  BY <1>1, DieKeeps
<1>3. There \subseteq There'
  BY <1>1 DEF There, rows
<1>4. AccountType'
  BY <1>1 DEF AccountType
<1>5. PICK n : n = Ended(req[r], FALSE)
  OBVIOUS
<1>6. n \in Waiting \cup {NoRequest} /\ n.pc # "run" /\ Becomes(r, n)
  BY <1>1, <1>5, InFlight, EndedIs DEF ServerInv, Refuse, Becomes
<1>7. AccountInv'
  <2>1. \A e \in Emails : UnderWay(r, e) => e \in stranded'
    BY <1>1 DEF UnderWay, SigningUp
  <2>2. \A e \in Emails : Whole(e) => Whole(e)'
    BY <1>1, <1>3 DEF Whole
  <2> QED  BY <1>1, <1>3, <1>6, <2>1, <2>2, AccountStep
<1> QED  BY <1>2, <1>3, <1>4, <1>7

\* No company that is there disappears.
LEMMA CinWritten ==
  ASSUME ServerType, NEW c, NEW x \in Named, cin' = [cin EXCEPT ![c] = x]
  PROVE  There \subseteq There'
<1>1. x # Absent
  BY ProfileAssumption DEF Named, Marks, None, Absent
<1> QED  BY <1>1 DEF There, ServerType

LEMMA ThereGrows ==
  ASSUME ServerInv, NEW r \in Requests, Serve(r)
  PROVE  There \subseteq There'
<1>1. ServerType /\ RequestsInv
  BY DEF ServerInv
<1>2. ASSUME cin' = cin PROVE There \subseteq There'
  BY <1>2 DEF There
<1>3. CASE WriteProfile(r) \/ EdgeWriteProfile(r)
  <2>1. req[r].pc = "run" /\ Head(req[r].todo) \in {"checked", "profile", "edge profile"}
    BY <1>3 DEF WriteProfile, EdgeWriteProfile, At
  <2>2. req[r].body.cin \in Named
    BY <1>1, <2>1, InFlight DEF Carries, ProfileBodies
  <2>3. cin' = [cin EXCEPT ![req[r].of] = req[r].body.cin]
    BY <1>3 DEF WriteProfile, EdgeWriteProfile
  <2> QED  BY <1>1, <2>2, <2>3, CinWritten
<1>4. CASE WriteImport(r) \/ EdgeWriteImport(r)
  <2>1. req[r].pc = "run" /\ Head(req[r].todo) \in {"import", "edge import"}
    BY <1>4 DEF WriteImport, EdgeWriteImport, At
  <2>2. req[r].body.cin \in Cins \cup {"same"}
    BY <1>1, <2>1, InFlight DEF Carries, ImportBodies
  <2>3. cin' = IF req[r].body.cin = "same" THEN cin ELSE [cin EXCEPT ![req[r].of] = req[r].body.cin]
    BY <1>4 DEF WriteImport, EdgeWriteImport
  <2>4. CASE req[r].body.cin = "same"
    BY <1>2, <2>3, <2>4
  <2>5. CASE req[r].body.cin # "same"
    BY <1>1, <2>2, <2>3, <2>5, CinWritten DEF Named
  <2> QED  BY <2>4, <2>5
<1>5. CASE Plan(r) \/ Generate(r) \/ Die(r)
  BY <1>2, <1>5 DEF Plan, Generate, Die, rows
<1>6. CASE WriteRegistration(r) \/ WriteRemoval(r) \/ WriteDirectors(r) \/ WriteSignatories(r)
           \/ EdgeWriteSignatories(r) \/ EdgeWriteRegistration(r)
  BY <1>2, <1>6 DEF WriteRegistration, WriteRemoval, WriteDirectors, WriteSignatories,
                    EdgeWriteSignatories, EdgeWriteRegistration
<1> QED  BY <1>3, <1>4, <1>5, <1>6 DEF Serve

\* After a step of a profile or a calendar comes no insert.
LEMMA PlainlyOn ==
  ASSUME NEW t, InOrder(t), t # <<>>, Head(t) \in {"plan", "calendar", "checked", "profile"},
         NEW p \in Running, p.todo = t, Stepped(p).pc = "run"
  PROVE  Head(Stepped(p).todo) \notin {"company row", "grant row"}
<1>1. Stepped(p).todo = Tail(t) /\ Tail(t) # <<>>
  BY SteppedIs
<1>2. PICK b : b = Head(Tail(t))
  OBVIOUS
<1>3. <<Head(t), b>> \in Follows
  BY <1>1, <1>2, Tails
<1>4. b \in {"plan", "calendar", "registration", "end"}
  BY <1>3, NextStep, ZenonT(60)
<1> QED  BY <1>1, <1>2, <1>4

\* The steps that a new company's request takes for its profile and calendar.
LEMMA PlainStepKeeps ==
  ASSUME ServerInv, AccountType, AccountInv, NEW r \in Requests,
         Plan(r) \/ Generate(r) \/ WriteProfile(r), UNCHANGED people
  PROVE  ServerInv' /\ AccountType' /\ AccountInv' /\ There \subseteq There'
<1>1. Serve(r)
  BY DEF Serve
<1>2. ServerInv' /\ There \subseteq There'
  BY <1>1, ServeKeeps, ThereGrows
<1>3. AccountType'
  BY DEF AccountType, people
<1>4. /\ req[r].pc = "run" /\ Head(req[r].todo) \in {"plan", "calendar", "checked", "profile"}
      /\ \A e : ~UnderWay(r, e)
  BY DEF Plan, Generate, WriteProfile, At, UnderWay, Inserts
<1>5. PICK n : n = req'[r]
  OBVIOUS
<1>6. Becomes(r, n) \/ Overtakes(r, n)
  <2>1. req \in [Requests -> Running \cup Waiting \cup {NoRequest}]
    BY DEF ServerInv, ServerType
  <2>2. CASE Plan(r)
    BY <1>5, <2>1, <2>2 DEF Plan, Becomes
  <2>3. CASE Generate(r)
    BY <1>5, <2>3 DEF Generate, Writes, Overtakes
  <2>4. CASE WriteProfile(r)
    BY <1>5, <2>4 DEF WriteProfile, Wrote, Writes, Overtakes
  <2> QED  BY <2>2, <2>3, <2>4
<1>7. n \in Running \cup Waiting \cup {NoRequest}
  BY <1>2, <1>5 DEF ServerInv, ServerType
<1>8. ServerType /\ RequestsInv /\ req[r].pc = "run"
  BY <1>4 DEF ServerInv
<1>9. n.pc = "run" => Head(n.todo) \notin {"company row", "grant row"}
  <2>1. /\ req[r] \in Running /\ InOrder(req[r].todo) /\ req[r].todo # <<>>
        /\ Head(req[r].todo) \in {"plan", "calendar", "checked", "profile"}
    BY <1>4, <1>8, InFlight
  <2>2. \E p \in Running : p.todo = req[r].todo /\ n = Stepped(p)
    <3>1. CASE Plan(r)
      <4>1. PICK p : p = [req[r] EXCEPT !.plan = Profile(req[r].of), !.sure = TRUE]
        OBVIOUS
      <4>2. n = Stepped(p)
        BY <1>5, <3>1, <4>1 DEF Plan, ServerInv, ServerType
      <4>3. Profile(req[r].of) \in Profiles
        BY <1>8, InFlight DEF ServerType, Profile, Profiles
      <4>4. p \in Running /\ p.todo = req[r].todo
        BY <2>1, <4>1, <4>3 DEF Running
      <4> QED  BY <4>2, <4>4
    <3>2. CASE Generate(r)
      <4>1. PICK p : p = [[req[r] EXCEPT !.plan = Nothing] EXCEPT !.wrote = TRUE]
        OBVIOUS
      <4>2. n = Stepped(p)
        BY <1>5, <3>2, <4>1 DEF Generate, Writes
      <4>3. p \in Running /\ p.todo = req[r].todo
        BY <2>1, <4>1 DEF Running
      <4> QED  BY <4>2, <4>3
    <3>3. CASE WriteProfile(r)
      <4>1. PICK p : p = [[req[r] EXCEPT !.body = Nothing] EXCEPT !.wrote = TRUE]
        OBVIOUS
      <4>2. n = Stepped(p)
        BY <1>5, <3>3, <4>1 DEF WriteProfile, Wrote, Writes
      <4>3. p \in Running /\ p.todo = req[r].todo
        BY <2>1, <4>1 DEF Running, AllBodies
      <4> QED  BY <4>2, <4>3
    <3> QED  BY <3>1, <3>2, <3>3
  <2> QED  BY <2>1, <2>2, PlainlyOn
<1>10. AccountInv'
  BY <1>2, <1>4, <1>6, <1>7, <1>9, AccountsKept
<1> QED  BY <1>2, <1>3, <1>10

\* Every step on a request of somebody who comes in.
LEMMA ServingKeeps ==
  ASSUME ServerInv, AccountType, AccountInv, NEW r \in Requests, Serving(r)
  PROVE  ServerInv' /\ AccountType' /\ AccountInv' /\ There \subseteq There'
BY PlainStepKeeps, WriteAccountKeeps, CreateLoginKeeps, RegisterTrialKeeps, InsertUserKeeps,
   InsertCompanyKeeps, InsertGrantKeeps, InsertFailsKeeps, TakeBackKeeps, KilledKeeps DEF Serving

\* Where nobody signs up, the accounts stay as they are.
LEMMA NobodySignsUp ==
  ASSUME ServerInv, ServerInv', AccountType, AccountInv, kind # "onboarding", kind' = kind,
         UNCHANGED people, There \subseteq There'
  PROVE  AccountType' /\ AccountInv'
<1>1. account' = account /\ stranded' = stranded
  BY DEF people
<1>2. ASSUME NEW r \in Requests, NEW s \in SignUpSteps PROVE ~At(r, s) /\ ~At(r, s)'
  <2>1. At(r, s) => FALSE
    <3> SUFFICES ASSUME At(r, s) PROVE FALSE
      OBVIOUS
    <3>1. req[r].pc = "run" /\ Head(req[r].todo) = s
      BY DEF At
    <3>2. Carries(req[r])
      BY <3>1 DEF ServerInv, RequestsInv
    <3> QED  BY <3>1, <3>2 DEF Carries
  <2>2. At(r, s)' => FALSE
    <3> SUFFICES ASSUME At(r, s)' PROVE FALSE
      OBVIOUS
    <3>1. req'[r].pc = "run" /\ Head(req'[r].todo) = s
      BY DEF At
    <3>2. Carries(req[r])'
      BY <3>1 DEF ServerInv, RequestsInv
    <3> QED  BY <3>1, <3>2 DEF Carries
  <2> QED  BY <2>1, <2>2
<1>3. \A r \in Requests : \A e : ~UnderWay(r, e)
  BY <1>2 DEF UnderWay, SignUpSteps
<1>4. \A e \in Emails : Whole(e) => Whole(e)'
  BY <1>1 DEF Whole
<1>5. \A r \in Requests : ~At(r, "company row")' /\ ~At(r, "grant row")'
  BY <1>2 DEF SignUpSteps, Inserts
<1>6. AccountType'
  BY <1>1 DEF AccountType
<1>7. AccountInv'
  BY <1>1, <1>3, <1>4, <1>5 DEF AccountInv
<1> QED  BY <1>6, <1>7
-----------------------------------------------------------------------------
(* The form. *)

\* Where the server stays as it is.
LEMMA ServerStays ==
  ASSUME ServerInv, UNCHANGED server
  PROVE  ServerInv' /\ There' = There /\ kind' = kind
<1>1. /\ kind' = kind /\ cin' = cin /\ facts' = facts /\ held' = held /\ rest' = rest
      /\ calendar' = calendar /\ req' = req /\ made' = made /\ faults' = faults
      /\ lagging' = lagging /\ unchecked' = unchecked /\ slipped' = slipped
  BY DEF server, rows, history
<1>2. There' = There /\ \A c : Profile(c)' = Profile(c)
  BY <1>1 DEF There, Profile
<1>3. ServerType'
  BY <1>1 DEF ServerInv, ServerType
<1>4. RequestsInv'
  <2>1. ASSUME NEW q PROVE Carries(q) => Carries(q)'
    BY <1>1 DEF Carries
  <2>2. ASSUME NEW q PROVE Stands(q) => Stands(q)'
    <3>1. \A x, d : Holders(x, d)' = Holders(x, d) /\ (CinTaken(x, d)' <=> CinTaken(x, d))
      BY <1>1 DEF Holders, CinTaken
    <3> QED  BY <1>2, <3>1 DEF Stands
  <2> QED  BY <1>1, <2>1, <2>2 DEF ServerInv, RequestsInv
<1>5. CalendarInv'
  BY <1>1, <1>2 DEF ServerInv, CalendarInv, Owes
<1>6. CinHeldOnce' /\ EntryInv'
  BY <1>1, ProfilesKept, EntriesKept DEF ServerInv
<1> QED  BY <1>1, <1>2, <1>3, <1>4, <1>5, <1>6 DEF ServerInv

\* Where the form stays as it is.
LEMMA FormStays ==
  ASSUME FormType, FormInv, UNCHANGED <<page, asked, section, calls>>, There \subseteq There'
  PROVE  FormType' /\ FormInv'
<1>1. FormType'
  BY DEF FormType
<1>2. FormInv'
  BY DEF FormInv
<1> QED  BY <1>1, <1>2

\* What the user does to the profile in the form, and what the register answers.
LEMMA PageMoves ==
  ASSUME ServerInv, FormType, FormInv, There' = There,
         \/ Open \/ Leave \/ Jump \/ Blur \/ TypeFacts
         \/ \E x \in Cins \cup {None} : TypeCin(x)
         \/ \E x \in asked : Answered(x)
  PROVE  FormType' /\ FormInv'
<1>0. page \in [on : Companies \cup {Nowhere}, cin : Named, facts : Restated]
  BY DEF FormType
<1>1. None \notin Cins /\ Typed \notin Cins /\ Typed \in Restated /\ None \in Named
  BY ProfileAssumption DEF Marks, Named, Restated
<1>2. CASE Open
  <2>1. PICK c \in There : page' = [on |-> c, cin |-> cin[c], facts |-> facts[c]]
    BY <1>2 DEF Open
  <2>2. /\ cin[c] \in Named /\ facts[c] \in Restated /\ c \in Companies
    BY DEF There, ServerInv, ServerType
  <2>3. \E n \in Numbers \cup {None} : section' = [Blank EXCEPT !.typed = n]
    BY <1>2 DEF Open
  <2>4. asked' = asked /\ calls' = calls
    BY <1>2 DEF Open
  <2>5. section' \in Sections /\ section'.session = None /\ section'.verified = None
    BY <2>3 DEF Blank, Sections
  <2>6. FormType'
    BY <2>1, <2>2, <2>4, <2>5 DEF FormType
  <2>7. FormInv'
    BY <2>1, <2>2, <2>4, <2>5 DEF FormInv
  <2> QED  BY <2>6, <2>7
<1>3. CASE Leave
  <2>1. page' = Closed /\ asked' = {} /\ section' = Blank /\ calls' = {}
    BY <1>3 DEF Leave
  <2>2. Blank \in Sections /\ Blank.session = None /\ Blank.verified = None
    BY DEF Blank, Sections
  <2>3. /\ Closed \in [on : Companies \cup {Nowhere}, cin : Named, facts : Restated]
        /\ Closed.on = Nowhere /\ Closed.cin = None
    BY <1>1 DEF Closed
  <2>4. FormType'
    BY <2>1, <2>2, <2>3 DEF FormType
  <2>5. FormInv'
    BY <1>1, <2>1, <2>2, <2>3 DEF FormInv
  <2> QED  BY <2>4, <2>5
<1>4. CASE Jump
  <2>1. PICK c \in There : page' = [page EXCEPT !.on = c]
    BY <1>4 DEF Jump
  <2>2. asked' = asked /\ section' = section /\ calls' = calls
    BY <1>4 DEF Jump
  <2>3. c \in Companies
    BY DEF There
  <2>4. FormType'
    BY <1>0, <2>1, <2>2, <2>3 DEF FormType
  <2>5. page'.cin = page.cin /\ page'.facts = page.facts
    BY <1>0, <2>1
  <2>6. FormInv'
    BY <2>2, <2>5 DEF FormInv
  <2> QED  BY <2>4, <2>6
<1>5. CASE Blur
  <2>1. asked' = asked \cup {page.cin} /\ page.cin # None
    BY <1>5 DEF Blur
  <2>2. page' = page /\ section' = section /\ calls' = calls
    BY <1>5 DEF Blur
  <2>3. page.cin \in Cins
    BY <1>0, <2>1 DEF Named
  <2>4. FormType'
    BY <2>1, <2>2, <2>3 DEF FormType
  <2>5. FormInv'
    BY <2>2 DEF FormInv
  <2> QED  BY <2>4, <2>5
<1>6. CASE TypeFacts
  <2>1. page' = [page EXCEPT !.facts = Typed] /\ asked' = asked /\ section' = section /\ calls' = calls
    BY <1>6 DEF TypeFacts
  <2>2. page'.facts = Typed /\ page'.on = page.on
    BY <1>0, <2>1
  <2>3. page' \in [on : Companies \cup {Nowhere}, cin : Named, facts : Restated]
    BY <1>0, <1>1, <2>1
  <2>4. FormType'
    BY <2>1, <2>2, <2>3 DEF FormType
  <2>5. FormInv'
    BY <1>1, <2>1, <2>2 DEF FormInv
  <2> QED  BY <2>4, <2>5
<1>7. ASSUME NEW x \in Cins \cup {None}, TypeCin(x) PROVE FormType' /\ FormInv'
  <2>1. /\ page' = [page EXCEPT !.cin = x]
        /\ asked' = IF x = None THEN asked ELSE asked \cup {x}
        /\ section' = section /\ calls' = calls
    BY <1>7 DEF TypeCin
  <2>2. page'.on = page.on /\ page'.cin = x
    BY <1>0, <2>1
  <2>3. page' \in [on : Companies \cup {Nowhere}, cin : Named, facts : Restated]
    BY <1>0, <2>1 DEF Named
  <2>4. FormType'
    BY <2>1, <2>2, <2>3 DEF FormType
  <2>5. FormInv'
    BY <1>1, <2>1, <2>2 DEF FormInv
  <2> QED  BY <2>4, <2>5
<1>8. ASSUME NEW x \in asked, Answered(x) PROVE FormType' /\ FormInv'
  <2>1. asked' = asked \ {x} /\ section' = section /\ calls' = calls /\ x \in Cins
    BY <1>8 DEF Answered, FormType
  <2>2. CASE page' = page
    BY <2>1, <2>2 DEF FormType, FormInv
  <2>3. CASE page' = [page EXCEPT !.facts = x]
    <3>1. page'.on = page.on /\ page'.cin = page.cin /\ page'.facts = x
      BY <1>0, <2>3
    <3>2. page' \in [on : Companies \cup {Nowhere}, cin : Named, facts : Restated]
      BY <1>0, <2>1, <2>3 DEF Restated
    <3>3. FormType'
      BY <2>1, <3>1, <3>2 DEF FormType
    <3>4. FormInv'
      BY <2>1, <3>1 DEF FormInv
    <3> QED  BY <3>3, <3>4
  <2> QED  BY <1>8, <2>2, <2>3 DEF Answered
<1> QED  BY <1>2, <1>3, <1>4, <1>5, <1>6, <1>7, <1>8

\* What the section on registrations does, and what the register answers it.
LEMMA SectionMoves ==
  ASSUME FormType, FormInv, There' = There,
         \/ StartSession \/ SendCaptcha \/ Cancel \/ Clear
         \/ \E n \in Numbers : TypeNumber(n)
         \/ \E k \in calls : SessionOpened(k) \/ EntryReturned(k) \/ CallFailed(k)
  PROVE  FormType' /\ FormInv'
<1>1. section \in Sections /\ calls \subseteq Asking
  BY DEF FormType
<1>2. None \notin Numbers /\ Hollow \notin Numbers /\ None # Hollow
  BY ProfileAssumption DEF Marks, None, Hollow
<1>3. ASSUME NEW k \in Asking
      PROVE  /\ k.number \in Numbers
             /\ k.ask = "entry" => k.session \in Numbers /\ k.slip \in BOOLEAN
  BY <1>3 DEF Asking
<1>4. page' = page /\ asked' = asked
  BY DEF StartSession, SendCaptcha, Cancel, Clear, TypeNumber, SessionOpened, EntryReturned, CallFailed
<1>5. ASSUME section' \in Sections, calls' \subseteq Asking PROVE FormType'
  BY <1>4, <1>5 DEF FormType
<1>6. CASE StartSession
  <2>1. /\ section' = section /\ section.typed # None
        /\ calls' = {[ask |-> "session", number |-> section.typed]}
    BY <1>6 DEF StartSession
  <2>2. [ask |-> "session", number |-> section.typed] \in Asking
    BY <1>1, <2>1 DEF Asking, Sections
  <2>3. FormInv'
    BY <1>4, <2>1 DEF FormInv
  <2> QED  BY <1>1, <1>5, <2>1, <2>2, <2>3
<1>7. CASE SendCaptcha
  <2>1. /\ section' = section /\ section.typed # None /\ section.session # None
    BY <1>7 DEF SendCaptcha
  <2>2. PICK k : k = [ask |-> "entry", session |-> section.session, number |-> section.typed, slip |-> section.slip]
    OBVIOUS
  <2>3. calls' = calls \cup {k}
    BY <1>7, <2>2 DEF SendCaptcha
  <2>4. k \in Asking
    BY <1>1, <2>1, <2>2 DEF Asking, Sections
  <2>5. ~k.slip => k.session = k.number
    BY <2>1, <2>2 DEF FormInv
  <2>6. FormInv'
    BY <1>4, <2>1, <2>3, <2>5 DEF FormInv
  <2> QED  BY <1>1, <1>5, <2>1, <2>3, <2>4, <2>6
<1>8. CASE Cancel
  <2>1. section' = [section EXCEPT !.session = None, !.slip = FALSE] /\ calls' = calls
    BY <1>8 DEF Cancel
  <2>2. section' \in Sections /\ section'.session = None
    BY <1>1, <2>1 DEF Sections
  <2>3. section'.verified = section.verified /\ section'.entry = section.entry /\ section'.doubt = section.doubt
    BY <1>1, <2>1 DEF Sections
  <2>4. FormInv'
    BY <1>4, <2>1, <2>2, <2>3 DEF FormInv
  <2> QED  BY <1>1, <1>5, <2>1, <2>2, <2>4
<1>9. CASE Clear
  <2>1. section' = [section EXCEPT !.verified = None, !.entry = None, !.doubt = FALSE] /\ calls' = calls
    BY <1>9 DEF Clear
  <2>2. section' \in Sections /\ section'.verified = None
    BY <1>1, <2>1 DEF Sections
  <2>3. section'.session = section.session /\ section'.typed = section.typed /\ section'.slip = section.slip
    BY <1>1, <2>1 DEF Sections
  <2>4. FormInv'
    BY <1>4, <2>1, <2>2, <2>3 DEF FormInv
  <2> QED  BY <1>1, <1>5, <2>1, <2>2, <2>4
<1>10. ASSUME NEW n \in Numbers, TypeNumber(n) PROVE FormType' /\ FormInv'
  <2>1. section' = [section EXCEPT !.typed = n] /\ calls' = calls /\ section.session = None
    BY <1>10 DEF TypeNumber, FieldThere
  <2>2. section' \in Sections
    BY <1>1, <2>1 DEF Sections
  <2>3. /\ section'.session = None /\ section'.verified = section.verified
        /\ section'.entry = section.entry /\ section'.doubt = section.doubt
    BY <1>1, <2>1 DEF Sections
  <2>4. FormInv'
    BY <1>4, <2>1, <2>3 DEF FormInv
  <2> QED  BY <1>1, <1>5, <2>1, <2>2, <2>4
<1>11. ASSUME NEW k \in calls, SessionOpened(k) PROVE FormType' /\ FormInv'
  <2>1. /\ calls' = calls \ {k}
        /\ section' = [section EXCEPT !.session = k.number, !.slip = k.number # section.typed]
    BY <1>11 DEF SessionOpened
  <2>2. section' \in Sections
    BY <1>1, <1>3, <2>1 DEF Sections
  <2>3. /\ section'.session = k.number /\ section'.typed = section.typed
        /\ section'.slip <=> k.number # section.typed
        /\ section'.verified = section.verified
        /\ section'.entry = section.entry /\ section'.doubt = section.doubt
    BY <1>1, <2>1 DEF Sections
  <2>4. FormInv'
    BY <1>4, <2>1, <2>3 DEF FormInv
  <2> QED  BY <1>1, <1>5, <2>1, <2>2, <2>4
<1>12. ASSUME NEW k \in calls, EntryReturned(k) PROVE FormType' /\ FormInv'
  <2>1. k.ask = "entry" /\ calls' = calls \ {k}
    BY <1>12 DEF EntryReturned
  <2>2. k.number \in Numbers /\ k.session \in Numbers /\ k.slip \in BOOLEAN
    BY <1>1, <1>3, <2>1
  <2>3. PICK n \in {k.session, k.number} : \E what \in Outcomes[kind] \cap Entered :
          \E label \in {k.number} \cup (IF kind = "udyam" /\ what = "found" THEN {n} ELSE {}) :
            section' = [section EXCEPT !.verified = label, !.entry = IF what = "hollow" THEN Hollow ELSE n,
                                       !.session = None, !.doubt = k.slip]
    BY <1>12 DEF EntryReturned
  <2>4. PICK what \in Outcomes[kind] \cap Entered :
          \E label \in {k.number} \cup (IF kind = "udyam" /\ what = "found" THEN {n} ELSE {}) :
            section' = [section EXCEPT !.verified = label, !.entry = IF what = "hollow" THEN Hollow ELSE n,
                                       !.session = None, !.doubt = k.slip]
    BY <2>3
  <2>5. PICK label \in {k.number, n} :
            section' = [section EXCEPT !.verified = label, !.entry = IF what = "hollow" THEN Hollow ELSE n,
                                       !.session = None, !.doubt = k.slip]
    BY <2>4
  <2>6. PICK x \in {Hollow, n} : x = IF what = "hollow" THEN Hollow ELSE n
    OBVIOUS
  <2>7. label \in Numbers /\ x \in Numbers \cup {Hollow} /\ (~k.slip => x \in {Hollow, label})
    BY <1>12, <2>1, <2>2, <2>5, <2>6 DEF FormInv
  <2>8. section' \in Sections
    BY <1>1, <2>2, <2>5, <2>6, <2>7 DEF Sections
  <2>9. section'.session = None /\ section'.verified = label /\ section'.entry = x /\ section'.doubt = k.slip
    BY <1>1, <2>5, <2>6 DEF Sections
  <2>10. FormInv'
    <3>1. \A j \in calls' : j.ask = "entry" /\ ~j.slip => j.session = j.number
      BY <2>1 DEF FormInv
    <3> QED  BY <1>2, <2>7, <2>9, <3>1 DEF FormInv
  <2> QED  BY <1>1, <1>5, <2>1, <2>8, <2>10
<1>13. ASSUME NEW k \in calls, CallFailed(k) PROVE FormType' /\ FormInv'
  <2>1. section' = section /\ calls' = calls \ {k}
    BY <1>13 DEF CallFailed
  <2>2. FormInv'
    BY <1>4, <2>1 DEF FormInv
  <2> QED  BY <1>1, <1>5, <2>1, <2>2
<1> QED  BY <1>6, <1>7, <1>8, <1>9, <1>10, <1>11, <1>12, <1>13

\* Where a request begins nothing else changes.
LEMMA BeginsOnly ==
  ASSUME NEW r, NEW c, NEW t, NEW b, NEW w, Begin(r, c, t, b, w)
  PROVE  There' = There /\ kind' = kind
  BY DEF Begin, There, rows

\* The requests the form makes.
LEMMA FormAsks ==
  ASSUME ServerInv, FormType, FormInv, NEW r \in Requests,
         Save(r) \/ ImportFile(r) \/ SaveVerified(r) \/ SaveUnverified(r) \/ RemoveNumber(r) \/ StaffRow(r)
  PROVE  ServerInv' /\ FormType' /\ FormInv' /\ There' = There /\ kind' = kind
<1>1. /\ page \in [on : Companies \cup {Nowhere}, cin : Named, facts : Restated]
      /\ section \in Sections
  BY DEF FormType
<1>2. page.on \in Companies /\ page.on # Nowhere
  <2>1. page.on # Nowhere
    BY DEF Save, ImportFile, SaveVerified, SaveUnverified, RemoveNumber, StaffRow,
           OnProfile, OnRegistrations, Input
  <2> QED  BY <1>1, <2>1
<1>3. PICK c \in Companies : c = page.on
  BY <1>2
<1>4. UNCHANGED <<page, asked, section, calls>>
  BY DEF Save, ImportFile, SaveVerified, SaveUnverified, RemoveNumber, StaffRow
<1>5. CASE Save(r)
  <2>1. PICK b : b = Body(page.cin, page.facts)
    OBVIOUS
  <2>2. b \in ProfileBodies
    BY <1>1, <2>1 DEF Body, ProfileBodies, FormInv
  <2>3. Update(r, c, b, TRUE) \/ EdgeUpdate(r, c, b, TRUE)
    BY <1>3, <1>5, <2>1 DEF Save
  <2>4. ServerInv'
    BY <2>2, <2>3, UpdateBegins, EdgeUpdateBegins
  <2>5. There' = There /\ kind' = kind
    BY <2>3, BeginsOnly DEF Update, EdgeUpdate
  <2> QED  BY <2>4, <2>5, <1>4, FormStays
<1>6. CASE ImportFile(r)
  <2>1. CASE \E extract \in SUBSET Cins, full \in BOOLEAN : Import(r, c, extract, full, TRUE)
    <3>1. PICK extract \in SUBSET Cins, full \in BOOLEAN : Import(r, c, extract, full, TRUE)
      BY <2>1
    <3>2. ServerInv'
      BY <3>1, ImportBegins
    <3>3. There' = There /\ kind' = kind
      BY <3>1, BeginsOnly DEF Import
    <3> QED  BY <3>2, <3>3, <1>4, FormStays
  <2>2. CASE \E x \in Cins : EdgeImport(r, c, x, TRUE)
    <3>1. PICK x \in Cins : EdgeImport(r, c, x, TRUE)
      BY <2>2
    <3>2. ServerInv'
      BY <3>1, EdgeImportBegins
    <3>3. There' = There /\ kind' = kind
      BY <3>1, BeginsOnly DEF EdgeImport
    <3> QED  BY <3>2, <3>3, <1>4, FormStays
  <2> QED  BY <1>3, <1>6, <2>1, <2>2 DEF ImportFile
<1>7. ASSUME NEW e \in Entries, ~e.slip => e.facts \in {Typed, Hollow, e.number}, Add(r, e)
      PROVE  ServerInv' /\ FormType' /\ FormInv' /\ There' = There /\ kind' = kind
  <2>1. PICK t \in {Sync \o <<"registration">> \o Sync, <<"edge registration">>, <<"edge certificate">>} :
          Begin(r, c, t, e, TRUE)
    BY <1>3, <1>7 DEF Add, Register, EdgeRegister
  <2>2. ServerInv'
    BY <1>7, <2>1, RegisterBegins
  <2>3. There' = There /\ kind' = kind
    BY <2>1, BeginsOnly
  <2> QED  BY <2>2, <2>3, <1>4, FormStays
<1>8. CASE SaveVerified(r)
  <2>1. PICK e : e = Entry(section.verified, section.entry, section.doubt)
    OBVIOUS
  <2>2. section.verified # None /\ section.entry # None
    BY <1>8 DEF SaveVerified, FormInv
  <2>3. e \in Entries
    BY <1>1, <2>1, <2>2 DEF Entry, Entries, Sections
  <2>4. ~e.slip => e.facts \in {Typed, Hollow, e.number}
    BY <2>1, <2>2 DEF Entry, FormInv
  <2>5. Add(r, e)
    BY <1>8, <2>1 DEF SaveVerified
  <2> QED  BY <1>7, <2>3, <2>4, <2>5
<1>9. CASE SaveUnverified(r)
  <2>1. PICK e : e = Entry(section.typed, Typed, FALSE)
    OBVIOUS
  <2>2. section.typed # None /\ Add(r, e)
    BY <1>9, <2>1 DEF SaveUnverified
  <2>3. e \in Entries /\ e.facts = Typed
    BY <1>1, <2>1, <2>2 DEF Entry, Entries, Sections
  <2> QED  BY <1>7, <2>2, <2>3
<1>10. CASE RemoveNumber(r)
  <2>1. PICK m \in Numbers : Remove(r, c, m, TRUE)
    BY <1>3, <1>10 DEF RemoveNumber
  <2>2. ServerInv'
    BY <2>1, RemoveBegins
  <2>3. There' = There /\ kind' = kind
    BY <2>1, BeginsOnly DEF Remove
  <2> QED  BY <2>2, <2>3, <1>4, FormStays
<1>11. CASE StaffRow(r)
  <2>1. Staff(r, c, TRUE)
    BY <1>3, <1>11 DEF StaffRow
  <2>2. ServerInv'
    BY <2>1, StaffBegins
  <2>3. There' = There /\ kind' = kind
    BY <2>1, BeginsOnly DEF Staff
  <2> QED  BY <2>2, <2>3, <1>4, FormStays
<1> QED  BY <1>5, <1>6, <1>8, <1>9, <1>10, <1>11

\* A request whose answer has been read.
LEMMA AnswerRead ==
  ASSUME ServerInv, NEW r \in Requests, req[r].pc = "answer", req' = [req EXCEPT ![r] = NoRequest],
         UNCHANGED <<kind, rows, calendar, made, history>>, faults' \in Nat
  PROVE  ServerInv' /\ There' = There
<1>1. NoRequest.pc # "run" /\ NoRequest \in Running \cup Waiting \cup {NoRequest} /\ Becomes(r, NoRequest)
  BY DEF NoRequest, Becomes
<1>2. \A c \in Companies : ~Owes(req[r], c)
  BY DEF Owes
<1>3. made' \in Nat
  BY DEF ServerInv, ServerType
<1>4. ServerInv'
  BY <1>1, <1>2, <1>3, Moved
<1> QED  BY <1>4 DEF There, rows

LEMMA ReturnedKeeps ==
  ASSUME ServerInv, FormType, FormInv, NEW r \in Requests, Returned(r)
  PROVE  ServerInv' /\ FormType' /\ FormInv' /\ There' = There /\ kind' = kind
<1>1. /\ req[r].pc = "answer" /\ req' = [req EXCEPT ![r] = NoRequest]
      /\ UNCHANGED <<kind, rows, calendar, made, history, page, asked, calls>>
  BY DEF Returned
<1>2. faults' \in Nat
  BY DEF Returned, ServerInv, ServerType
<1>3. ServerInv' /\ There' = There
  BY <1>1, <1>2, AnswerRead
<1>4. section \in Sections
  BY DEF FormType
<1>5. \/ section' = section \/ section' = Blank \/ section' = [Blank EXCEPT !.typed = section.typed]
      \/ section' = [section EXCEPT !.typed = None]
  <2>1. CASE UNCHANGED section
    BY <2>1
  <2>2. ASSUME section' = CASE req[r].saved = "entry" /\ kind = "gst" -> Blank
                           [] req[r].saved = "entry" -> [Blank EXCEPT !.typed = section.typed]
                           [] req[r].saved = "typed" /\ kind = "gst" -> [section EXCEPT !.typed = None]
                           [] req[r].saved = "removal" /\ kind = "udyam" -> [section EXCEPT !.typed = None]
                           [] OTHER -> section
        PROVE  \/ section' = section \/ section' = Blank \/ section' = [Blank EXCEPT !.typed = section.typed]
               \/ section' = [section EXCEPT !.typed = None]
    <3>1. CASE req[r].saved = "entry" /\ kind = "gst"
      BY <2>2, <3>1
    <3>2. CASE req[r].saved = "entry" /\ kind # "gst"
      BY <2>2, <3>2
    <3>3. CASE req[r].saved # "entry"
      BY <2>2, <3>3
    <3> QED  BY <3>1, <3>2, <3>3
  <2> QED  BY <2>1, <2>2 DEF Returned
<1>6. section' \in Sections
  <2>1. CASE section' = section
    BY <1>4, <2>1
  <2>2. CASE section' = Blank
    BY <2>2 DEF Blank, Sections
  <2>3. CASE section' = [Blank EXCEPT !.typed = section.typed]
    BY <1>4, <2>3 DEF Blank, Sections
  <2>4. CASE section' = [section EXCEPT !.typed = None]
    BY <1>4, <2>4 DEF Sections
  <2> QED  BY <1>5, <2>1, <2>2, <2>3, <2>4
<1>7. FormType'
  BY <1>1, <1>3, <1>6 DEF FormType
<1>8. /\ section'.session # None /\ section'.typed # None => section' = section
      /\ section'.verified # None => /\ section'.verified = section.verified /\ section'.entry = section.entry
                                     /\ section'.doubt = section.doubt
  <2>1. CASE section' = section
    BY <2>1
  <2>2. CASE section' = Blank
    BY <2>2 DEF Blank
  <2>3. CASE section' = [Blank EXCEPT !.typed = section.typed]
    BY <2>3 DEF Blank
  <2>4. CASE section' = [section EXCEPT !.typed = None]
    BY <1>4, <2>4 DEF Sections
  <2> QED  BY <1>5, <2>1, <2>2, <2>3, <2>4
<1>9. FormInv'
  BY <1>1, <1>8 DEF FormInv
<1> QED  BY <1>1, <1>3, <1>7, <1>9

\* Every step of the form, of its requests and of the requests of others.
LEMMA FormKeeps ==
  ASSUME ServerInv, FormType, FormInv, FormNext
  PROVE  ServerInv' /\ FormType' /\ FormInv' /\ There \subseteq There' /\ kind' = kind
<1>1. CASE User \/ Registry
  <2>1. UNCHANGED server
    BY <1>1 DEF User, Registry, Open, Leave, Jump, Blur, TypeFacts, StartSession, SendCaptcha, Cancel, Clear,
                TypeCin, TypeNumber, Answered, SessionOpened, EntryReturned, CallFailed
  <2>2. ServerInv' /\ There' = There /\ kind' = kind
    BY <2>1, ServerStays
  <2>3. CASE \/ Open \/ Leave \/ Jump \/ Blur \/ TypeFacts
             \/ \E x \in Cins \cup {None} : TypeCin(x)
             \/ \E x \in asked : Answered(x)
    BY <2>2, <2>3, PageMoves
  <2>4. CASE \/ StartSession \/ SendCaptcha \/ Cancel \/ Clear
             \/ \E n \in Numbers : TypeNumber(n)
             \/ \E k \in calls : SessionOpened(k) \/ EntryReturned(k) \/ CallFailed(k)
    BY <2>2, <2>4, SectionMoves
  <2> QED  BY <1>1, <2>3, <2>4 DEF User, Registry
<1>2. ASSUME NEW r \in Requests,
             Save(r) \/ ImportFile(r) \/ SaveVerified(r) \/ SaveUnverified(r) \/ RemoveNumber(r) \/ StaffRow(r)
      PROVE  ServerInv' /\ FormType' /\ FormInv' /\ There \subseteq There' /\ kind' = kind
  BY <1>2, FormAsks
<1>3. ASSUME NEW r \in Requests, Returned(r)
      PROVE  ServerInv' /\ FormType' /\ FormInv' /\ There \subseteq There' /\ kind' = kind
  BY <1>3, ReturnedKeeps
<1>4. ASSUME NEW r \in Requests, Others(r), UNCHANGED browser
      PROVE  ServerInv' /\ FormType' /\ FormInv' /\ There \subseteq There' /\ kind' = kind
  <2>1. ServerInv'
    BY <1>4, OthersKeep
  <2>2. There' = There /\ kind' = kind
    BY <1>4, BeginsOnly DEF Others, ByOthers, Create, Update, EdgeUpdate, Import, EdgeImport, Staff,
                            Register, Remove, EdgeImportCertificate
  <2> QED  BY <1>4, <2>1, <2>2, FormStays DEF browser
<1>5. ASSUME NEW r \in Requests, Serve(r), UNCHANGED browser
      PROVE  ServerInv' /\ FormType' /\ FormInv' /\ There \subseteq There' /\ kind' = kind
  <2>1. ServerInv' /\ There \subseteq There'
    BY <1>5, ServeKeeps, ThereGrows
  <2>2. kind' = kind
    BY <1>5 DEF Serve, Plan, Generate, WriteProfile, WriteImport, WriteRegistration, WriteRemoval, WriteDirectors,
                WriteSignatories, EdgeWriteSignatories, EdgeWriteProfile, EdgeWriteImport,
                EdgeWriteRegistration, Die
  <2> QED  BY <1>5, <2>1, <2>2, FormStays DEF browser
<1> QED  BY <1>1, <1>2, <1>3, <1>4, <1>5 DEF FormNext

-----------------------------------------------------------------------------
(* The pages where companies come in. *)

\* A request that begins leaves the accounts as they are.
LEMMA AccountsBegin ==
  ASSUME ServerInv, ServerInv', AccountType, AccountInv, NEW r \in Requests, NEW c, NEW t, NEW b, NEW w,
         Begin(r, c, t, b, w), Head(t) \notin {"company row", "grant row"}, UNCHANGED people
  PROVE  AccountType' /\ AccountInv' /\ There' = There
<1>1. PICK n : n = Begun(c, t, b, w)
  OBVIOUS
<1>2. req' = [req EXCEPT ![r] = n]
  BY <1>1 DEF Begin, Begun
<1>3. n.todo = t /\ Becomes(r, n)
  BY <1>1, <1>2 DEF Begun, Becomes
<1>4. n \in Running \cup Waiting \cup {NoRequest}
  <2>1. /\ req \in [Requests -> Running \cup Waiting \cup {NoRequest}]
        /\ req' \in [Requests -> Running \cup Waiting \cup {NoRequest}]
    BY DEF ServerInv, ServerType
  <2>2. req'[r] = n
    BY <1>2, <2>1
  <2> QED  BY <2>1, <2>2
<1>5. \A e : ~UnderWay(r, e)
  <2>1. req[r] = NoRequest
    BY DEF Begin
  <2>2. NoRequest.pc # "run"
    BY DEF NoRequest
  <2> QED  BY <2>1, <2>2 DEF UnderWay, At
<1>6. There' = There
  BY BeginsOnly
<1>7. AccountInv'
  BY <1>3, <1>4, <1>5, <1>6, AccountsKept
<1>8. AccountType'
  BY DEF AccountType, people
<1> QED  BY <1>6, <1>7, <1>8

LEMMA SignUpKeeps ==
  ASSUME ServerInv, AccountType, AccountInv, kind = "onboarding", NEW r \in Requests, NEW e \in Emails,
         NEW b \in ProfileBodies, NEW w \in BOOLEAN,
         SignUp(r, e, b, w) \/ EdgeSignUp(r, e, b, w), UNCHANGED people
  PROVE  ServerInv' /\ AccountType' /\ AccountInv' /\ There' = There
<1>1. ServerInv'
  BY SignUpBegins
<1>2. PICK c, d : \/ Begin(r, c, <<"account">> \o Sync, d, w)
                  \/ Begin(r, c, <<"login", "rpc">>, d, w)
  BY DEF SignUp, EdgeSignUp
<1>3. PICK t \in {<<"account">> \o Sync, <<"login", "rpc">>} : Begin(r, c, t, d, w)
  BY <1>2
<1>4. Head(t) \in {"account", "login"}
  <2>1. CASE t = <<"account">> \o Sync
    BY <2>1, ThenSync
  <2>2. CASE t = <<"login", "rpc">>
    BY <2>2
  <2> QED  BY <1>3, <2>1, <2>2
<1> QED  BY <1>1, <1>3, <1>4, AccountsBegin

\* What the pages send, and are told, leaves the accounts as they are.
LEMMA PagesAsk ==
  ASSUME ServerInv, AccountType, AccountInv, DoorType, SheetInv, kind = "onboarding", NEW r \in Requests,
         SubmitSignUp(r) \/ SubmitNew(r) \/ Elsewhere(r) \/ Admitted(r)
  PROVE  ServerInv' /\ AccountType' /\ AccountInv' /\ There' = There
<1>0. UNCHANGED people
  BY DEF SubmitSignUp, SubmitNew, Elsewhere, Admitted
<1>1. sheet \in Sheets
  BY DEF DoorType
<1>2. CASE SubmitSignUp(r)
  <2>1. PICK b \in Sent(sheet), e \in Emails : SignUp(r, e, b, TRUE) \/ EdgeSignUp(r, e, b, TRUE)
    BY <1>2 DEF SubmitSignUp
  <2>2. b \in ProfileBodies
    <3>1. sheet.facts \in Restated /\ sheet.cin \in Named
      BY <1>1, <1>2 DEF SubmitSignUp, Sheets
    <3>2. CASE b = Body(sheet.cin, sheet.facts)
      BY <3>1, <3>2 DEF Body, ProfileBodies
    <3>3. CASE b = Body(None, sheet.facts)
      BY <3>1, <3>3 DEF Body, ProfileBodies, Named
    <3> QED  BY <2>1, <3>2, <3>3 DEF Sent
  <2> QED  BY <1>0, <2>1, <2>2, SignUpKeeps
<1>3. CASE SubmitNew(r)
  <2>1. PICK b : b = Body(sheet.cin, sheet.facts)
    OBVIOUS
  <2>2. PICK c \in Fresh : Begin(r, c, <<"profile">> \o Sync, b, TRUE)
    BY <1>3, <2>1 DEF SubmitNew
  <2>3. sheet.at = "new" /\ sheet.facts # None
    BY <1>3 DEF SubmitNew, NewPage
  <2>4. b \in ProfileBodies
    BY <1>1, <2>1, <2>3 DEF Body, ProfileBodies, Sheets, SheetInv
  <2>5. c \in Companies
    BY DEF Fresh
  <2>6. ServerInv'
    BY <2>2, <2>4, <2>5, ProfileBegins
  <2>7. Head(<<"profile">> \o Sync) = "profile"
    BY ThenSync
  <2> QED  BY <1>0, <2>2, <2>6, <2>7, AccountsBegin
<1>4. CASE Elsewhere(r)
  <2>1. PICK b \in Bodies, e \in Emails : SignUp(r, e, b, FALSE) \/ EdgeSignUp(r, e, b, FALSE)
    BY <1>4 DEF Elsewhere
  <2>2. b \in ProfileBodies
    <3>1. CASE b = Body(None, Typed)
      BY <3>1 DEF Body, ProfileBodies, Named, Restated
    <3>2. CASE \E x \in Cins : b = Body(x, x)
      BY <3>2 DEF Body, ProfileBodies, Named, Restated
    <3> QED  BY <2>1, <3>1, <3>2 DEF Bodies
  <2> QED  BY <1>0, <2>1, <2>2, SignUpKeeps
<1>5. CASE Admitted(r)
  <2>1. /\ req[r].pc = "answer" /\ req' = [req EXCEPT ![r] = NoRequest]
        /\ UNCHANGED <<kind, rows, calendar, made, faults, history>>
    BY <1>5 DEF Admitted
  <2>2. faults' \in Nat
    BY <2>1 DEF ServerInv, ServerType
  <2>3. ServerInv' /\ There' = There
    BY <2>1, <2>2, AnswerRead
  <2>4. NoRequest.pc # "run" /\ Becomes(r, NoRequest) /\ \A e : ~UnderWay(r, e)
    BY <2>1 DEF NoRequest, Becomes, UnderWay, At
  <2>5. AccountInv'
    BY <1>0, <2>3, <2>4, AccountsKept
  <2>6. AccountType'
    BY <1>0 DEF people, AccountType
  <2> QED  BY <2>3, <2>5, <2>6
<1> QED  BY <1>2, <1>3, <1>4, <1>5

\* The question that goes with a form.
LEMMA Asked ==
  ASSUME NEW f \in Sheets, f.cin # None
  PROVE  Question(f) \in [cin : Cins, form : Sheets] /\ Question(f).form = f
<1>1. f.cin \in Cins
  BY DEF Sheets, Named
<1> QED  BY <1>1 DEF Question

\* What is typed into the pages, and filled in by answers and documents.
LEMMA DoorMoves ==
  ASSUME DoorType, SheetInv,
         \/ OpenPage \/ BlurCin
         \/ \E x \in Cins \cup {None} : TypeNewCin(x) \/ (x # None /\ Document(x))
         \/ \E f \in {None, Typed} : TypeName(f)
         \/ \E k \in asks : SignUpAnswered(k) \/ NewAnswered(k)
  PROVE  DoorType' /\ SheetInv'
<1>1. /\ None \notin Cins /\ Typed \notin Cins /\ None # Typed
      /\ Nowhere # "new" /\ Nowhere # "sign-up"
  BY ProfileAssumption DEF Marks, None, Typed, Nowhere
<1>2. /\ sheet \in Sheets /\ asks \subseteq [cin : Cins, form : Sheets]
      /\ sheet.cin \in Named /\ sheet.facts \in Restated \cup {None} /\ sheet.tick \in Restated \cup {None}
      /\ sheet.at \in {Nowhere, "sign-up", "new"}
  BY DEF DoorType, Sheets
<1>3. CASE OpenPage
  <2>1. PICK at \in {"sign-up", "new"} : sheet' = [NoForm EXCEPT !.at = at]
    BY <1>3 DEF OpenPage
  <2>2. asks' = {}
    BY <1>3 DEF OpenPage, SheetInv
  <2>3. sheet' \in Sheets /\ sheet'.at = at /\ sheet'.cin = None
    BY <2>1 DEF NoForm, Sheets, Named
  <2>4. DoorType'
    BY <2>2, <2>3 DEF DoorType
  <2>5. SheetInv'
    BY <1>1, <2>2, <2>3 DEF SheetInv
  <2> QED  BY <2>4, <2>5
<1>4. CASE BlurCin
  <2>1. sheet' = sheet /\ asks' = asks \cup {Question(sheet)} /\ sheet.cin # None
    BY <1>4 DEF BlurCin
  <2>2. Question(sheet) \in [cin : Cins, form : Sheets] /\ Question(sheet).form = sheet
    BY <1>2, <2>1, Asked
  <2>3. DoorType'
    BY <2>1, <2>2 DEF DoorType
  <2>4. SheetInv'
    BY <2>1, <2>2 DEF SheetInv
  <2> QED  BY <2>3, <2>4
<1>5. ASSUME NEW x \in Cins \cup {None}, TypeNewCin(x) PROVE DoorType' /\ SheetInv'
  <2>1. PICK fill \in {sheet.facts} \cup (IF SignUpPage /\ sheet.facts = None THEN {sheet.tick} ELSE {}) :
          LET form == [sheet EXCEPT !.cin = x, !.facts = fill, !.tick = None] IN
          /\ sheet' = form
          /\ asks'  = IF x = None THEN asks
                      ELSE asks \cup {Question(IF SignUpPage THEN form ELSE [sheet EXCEPT !.cin = x])}
    BY <1>5 DEF TypeNewCin
  <2>2. fill \in Restated \cup {None} /\ x \in Named /\ sheet.at # Nowhere
    BY <1>2, <1>5 DEF TypeNewCin, Named
  <2>3. sheet' = [sheet EXCEPT !.cin = x, !.facts = fill, !.tick = None]
    BY <2>1
  <2>4. /\ sheet' \in Sheets /\ sheet'.at = sheet.at /\ sheet'.cin = x /\ sheet'.facts = fill
    BY <1>2, <2>2, <2>3 DEF Sheets
  <2>5. PICK f : f = IF SignUpPage THEN sheet' ELSE [sheet EXCEPT !.cin = x]
    OBVIOUS
  <2>6. asks' = IF x = None THEN asks ELSE asks \cup {Question(f)}
    BY <2>1, <2>5
  <2>7. f \in Sheets /\ f.at = sheet.at /\ f.cin = x
    <3>1. CASE SignUpPage
      BY <2>4, <2>5, <3>1
    <3>2. CASE ~SignUpPage
      BY <1>2, <2>2, <2>5, <3>2 DEF Sheets, Named
    <3> QED  BY <3>1, <3>2
  <2>8. x # None => Question(f) \in [cin : Cins, form : Sheets] /\ Question(f).form = f
    BY <2>7, Asked
  <2>9. asks' \subseteq [cin : Cins, form : Sheets] /\ \A k \in asks' : k.form.at = sheet.at
    BY <1>2, <2>6, <2>7, <2>8 DEF SheetInv
  <2>10. DoorType'
    BY <2>4, <2>9 DEF DoorType
  <2>11. SheetInv'
    BY <2>2, <2>4, <2>9 DEF SheetInv
  <2> QED  BY <2>10, <2>11
<1>6. ASSUME NEW y \in Cins, Document(y) PROVE DoorType' /\ SheetInv'
  <2>1. PICK x : x = IF sheet.cin = None THEN y ELSE sheet.cin
    OBVIOUS
  <2>2. PICK f : f = IF sheet.facts = None THEN y ELSE sheet.facts
    OBVIOUS
  <2>3. asks' = asks /\ sheet' = [sheet EXCEPT !.cin = x, !.facts = f] /\ sheet.at = "new"
    BY <1>6, <2>1, <2>2 DEF Document, NewPage
  <2>4. x \in Named /\ f \in Restated \cup {None}
    BY <1>2, <2>1, <2>2 DEF Named, Restated
  <2>5. /\ sheet' \in Sheets /\ sheet'.at = sheet.at /\ sheet'.cin = x /\ sheet'.facts = f
    BY <1>2, <2>3, <2>4 DEF Sheets
  <2>6. DoorType'
    BY <1>2, <2>3, <2>5 DEF DoorType
  <2>7. SheetInv'
    BY <1>1, <2>3, <2>5 DEF SheetInv
  <2> QED  BY <2>6, <2>7
<1>7. ASSUME NEW f \in {None, Typed}, TypeName(f) PROVE DoorType' /\ SheetInv'
  <2>1. PICK k : k = IF sheet.cin = None THEN None ELSE sheet.tick
    OBVIOUS
  <2>2. sheet' = [sheet EXCEPT !.facts = f, !.tick = k] /\ asks' = asks /\ sheet.at # Nowhere
    BY <1>7, <2>1 DEF TypeName
  <2>3. f \in Restated \cup {None} /\ k \in Restated \cup {None} /\ f \notin Cins
    BY <1>1, <1>2, <2>1 DEF Restated
  <2>4. sheet' \in Sheets /\ sheet'.at = sheet.at /\ sheet'.cin = sheet.cin /\ sheet'.facts = f
    BY <1>2, <2>2, <2>3 DEF Sheets
  <2>5. DoorType'
    BY <1>2, <2>2, <2>4 DEF DoorType
  <2>6. SheetInv'
    BY <2>2, <2>3, <2>4 DEF SheetInv
  <2> QED  BY <2>5, <2>6
<1>8. ASSUME NEW k \in asks, SignUpAnswered(k) PROVE DoorType' /\ SheetInv'
  <2>1. asks' = asks \ {k} /\ sheet.at = "sign-up"
    BY <1>8 DEF SignUpAnswered, SignUpPage
  <2>2. k.form \in Sheets /\ k.cin \in Cins /\ k.form.at = sheet.at /\ k.form.facts \in Restated \cup {None}
    BY <1>2 DEF SheetInv, Sheets
  <2>3. CASE sheet' = sheet
    BY <2>1, <2>3 DEF DoorType, SheetInv
  <2>4. CASE sheet' # sheet
    <3>1. PICK master \in Outcomes.mca \cap Entered :
            LET fill == IF k.form.facts = None /\ master = "found" THEN k.cin ELSE k.form.facts IN
            sheet' = [k.form EXCEPT !.facts = fill, !.tick = IF master = "found" THEN k.cin ELSE k.form.facts]
      BY <1>8, <2>4 DEF SignUpAnswered
    <3>2. PICK f, m : /\ f = IF k.form.facts = None /\ master = "found" THEN k.cin ELSE k.form.facts
                      /\ m = IF master = "found" THEN k.cin ELSE k.form.facts
      OBVIOUS
    <3>3. sheet' = [k.form EXCEPT !.facts = f, !.tick = m]
      BY <3>1, <3>2
    <3>4. f \in Restated \cup {None} /\ m \in Restated \cup {None}
      BY <2>2, <3>2 DEF Restated
    <3>5. sheet' \in Sheets /\ sheet'.at = sheet.at
      BY <2>2, <3>3, <3>4 DEF Sheets
    <3>6. DoorType'
      BY <1>2, <2>1, <3>5 DEF DoorType
    <3>7. SheetInv'
      BY <1>1, <2>1, <3>5 DEF SheetInv
    <3> QED  BY <3>6, <3>7
  <2> QED  BY <2>3, <2>4
<1>9. ASSUME NEW k \in asks, NewAnswered(k) PROVE DoorType' /\ SheetInv'
  <2>1. asks' = asks \ {k} /\ sheet.at = "new" /\ k.cin \in Cins
    BY <1>2, <1>9 DEF NewAnswered, NewPage
  <2>2. CASE sheet' = sheet
    BY <2>1, <2>2 DEF DoorType, SheetInv
  <2>3. CASE sheet' # sheet
    <3>1. sheet' = [sheet EXCEPT !.facts = k.cin]
      BY <1>9, <2>3 DEF NewAnswered
    <3>2. k.cin \in Restated \cup {None}
      BY <2>1 DEF Restated
    <3>3. /\ sheet' \in Sheets /\ sheet'.at = sheet.at /\ sheet'.cin = sheet.cin /\ sheet'.facts = k.cin
      BY <1>2, <3>1, <3>2 DEF Sheets
    <3>4. DoorType'
      BY <1>2, <2>1, <3>3 DEF DoorType
    <3>5. SheetInv'
      BY <1>1, <2>1, <3>3 DEF SheetInv
    <3> QED  BY <3>4, <3>5
  <2> QED  BY <2>2, <2>3
<1> QED  BY <1>3, <1>4, <1>5, <1>6, <1>7, <1>8, <1>9

-----------------------------------------------------------------------------
(* The companies, from first to last. *)

LEMMA StartsTyped ==
  ASSUME ProfileInit
  PROVE  ServerType
<1>1. cin \in [Companies -> Named \cup {Absent}]
  BY DEF ProfileInit, Named
<1>2. facts \in [Companies -> Restated]
  BY DEF ProfileInit, Restated
<1>3. held \in [Companies -> [Numbers -> HeldOf]]
  BY DEF ProfileInit, HeldOf
<1>4. rest \in [Companies -> BOOLEAN]
  BY DEF ProfileInit
<1>5. \A c \in Companies : Profile(c) \in Profiles
  BY <1>2, <1>3, <1>4 DEF Profile, Profiles
<1>6. calendar \in [Companies -> Profiles]
  BY <1>5 DEF ProfileInit
<1>7. req \in [Requests -> Running \cup Waiting \cup {NoRequest}]
  BY DEF ProfileInit
<1>8. kind \in {"profile", "gst", "udyam", "onboarding"} /\ made \in Nat /\ faults \in Nat
  BY DEF ProfileInit
<1>9. lagging = {} /\ unchecked = {} /\ slipped = {}
  BY DEF ProfileInit
<1> QED  BY <1>1, <1>2, <1>3, <1>4, <1>6, <1>7, <1>8, <1>9 DEF ServerType

LEMMA Starts ==
  ASSUME OnboardingInit
  PROVE  OnboardingInv
<1>1. ProfileInit /\ FormInit
  BY DEF OnboardingInit, FormInit
<1>2. ServerType
  BY <1>1, StartsTyped
<1>3. NoRequest.pc # "run"
  BY DEF NoRequest
<1>4. \A r \in Requests : req[r].pc # "run"
  BY <1>1, <1>3 DEF ProfileInit
<1>5. RequestsInv
  BY <1>4 DEF RequestsInv
<1>6. CalendarInv
  <2>1. \A c \in Companies : calendar[c] = Profile(c)
    BY <1>1 DEF ProfileInit
  <2> QED  BY <2>1 DEF CalendarInv, There
<1>7. CinHeldOnce
  <2>1. \A c, d \in Companies : c # d /\ cin[c] = cin[d] => cin[c] \notin Cins
    BY <1>1 DEF ProfileInit
  <2>2. \A c \in There : cin[c] # None => cin[c] \in Cins
    BY <1>2 DEF ServerType, There, Named
  <2> QED  BY <2>1, <2>2 DEF CinHeldOnce, There
<1>8. EntryInv
  <2>1. PICK e : held = [c \in Companies |-> [n \in Numbers |-> IF e = <<c, n>> THEN n ELSE None]]
    BY <1>1 DEF ProfileInit
  <2>2. \A c \in Companies, n \in Numbers : held[c][n] \in {None, n}
    BY <2>1
  <2> QED  BY <2>2 DEF EntryInv
<1>9. FormType
  <2>1. page = Closed /\ asked = {} /\ section = Blank /\ calls = {}
    BY <1>1 DEF FormInit
  <2>2. Blank \in Sections
    BY DEF Blank, Sections
  <2>3. /\ Closed \in [on : Companies \cup {Nowhere}, cin : Named, facts : Restated]
        /\ Closed.on = Nowhere
    BY DEF Closed, Named, Restated
  <2> QED  BY <2>1, <2>2, <2>3 DEF FormType
<1>10. FormInv
  <2>1. page = Closed /\ section = Blank /\ calls = {}
    BY <1>1 DEF FormInit
  <2>2. Blank.session = None /\ Blank.verified = None
    BY DEF Blank
  <2>3. Closed.cin = None /\ None \notin Cins
    BY ProfileAssumption DEF Closed, Marks
  <2> QED  BY <2>1, <2>2, <2>3 DEF FormInv
<1>11. account = [e \in Emails |-> Nobody] /\ stranded = {} /\ sheet = NoForm /\ asks = {}
  BY DEF OnboardingInit
<1>12. Nobody \in Accounts /\ ~Nobody.login /\ Nobody.row # "own"
  BY DEF Nobody, Accounts, None
<1>13. AccountType
  BY <1>11, <1>12 DEF AccountType
<1>14. AccountInv
  <2>1. \A r \in Requests : \A s : ~At(r, s)
    BY <1>4 DEF At
  <2> QED  BY <1>11, <1>12, <2>1 DEF AccountInv
<1>15. NoForm \in Sheets /\ NoForm.at = Nowhere /\ NoForm.cin = None /\ Nowhere # "new"
  BY DEF NoForm, Sheets, Named, Nowhere
<1>16. DoorType /\ SheetInv
  BY <1>11, <1>15 DEF DoorType, SheetInv
<1>17. ServerInv
  BY <1>2, <1>5, <1>6, <1>7, <1>8 DEF ServerInv
<1> QED  BY <1>9, <1>10, <1>13, <1>14, <1>16, <1>17 DEF OnboardingInv

LEMMA DoorStays ==
  ASSUME DoorType, SheetInv, UNCHANGED door
  PROVE  DoorType' /\ SheetInv'
<1>1. sheet' = sheet /\ asks' = asks
  BY DEF door
<1> QED  BY <1>1 DEF DoorType, SheetInv

\* Whoever the form has to do with, nobody is coming in.
LEMMA FormOnly ==
  ASSUME OnboardingInv, kind # "onboarding", FormNext, UNCHANGED <<people, door>>
  PROVE  OnboardingInv'
<1>1. ServerInv' /\ FormType' /\ FormInv' /\ There \subseteq There' /\ kind' = kind
  BY FormKeeps DEF OnboardingInv
<1>2. AccountType' /\ AccountInv'
  BY <1>1, NobodySignsUp DEF OnboardingInv
<1>3. DoorType' /\ SheetInv'
  BY DoorStays DEF OnboardingInv
<1> QED  BY <1>1, <1>2, <1>3 DEF OnboardingInv

LEMMA ComingIn ==
  ASSUME OnboardingInv, kind = "onboarding", OnboardingNext
  PROVE  OnboardingInv'
<1>0. ServerInv /\ FormType /\ FormInv /\ AccountType /\ AccountInv /\ DoorType /\ SheetInv
  BY DEF OnboardingInv
<1>1. ASSUME UNCHANGED <<server, people, page, asked, section, calls>>, DoorType', SheetInv'
      PROVE  OnboardingInv'
  <2>1. ServerInv' /\ There' = There
    BY <1>0, <1>1, ServerStays
  <2>2. FormType' /\ FormInv'
    BY <1>0, <1>1, <2>1, FormStays
  <2>3. account' = account /\ stranded' = stranded /\ req' = req
    BY <1>1 DEF people, server
  <2>4. AccountType'
    BY <1>0, <2>3 DEF AccountType
  <2>5. AccountInv'
    BY <1>0, <2>1, <2>3 DEF AccountInv, Whole, UnderWay, At
  <2> QED  BY <1>1, <2>1, <2>2, <2>4, <2>5 DEF OnboardingInv
<1>2. CASE \/ OpenPage \/ BlurCin
           \/ \E x \in Cins \cup {None} : TypeNewCin(x) \/ (x # None /\ Document(x))
           \/ \E f \in {None, Typed} : TypeName(f)
           \/ \E k \in asks : SignUpAnswered(k) \/ NewAnswered(k)
  <2>1. DoorType' /\ SheetInv'
    BY <1>0, <1>2, DoorMoves
  <2>2. UNCHANGED <<server, people, page, asked, section, calls>>
    BY <1>2 DEF OpenPage, BlurCin, TypeNewCin, Document, TypeName, SignUpAnswered, NewAnswered
  <2> QED  BY <1>1, <2>1, <2>2
<1>3. ASSUME NEW r \in Requests, SubmitSignUp(r) \/ SubmitNew(r) \/ Admitted(r)
                                 \/ (Elsewhere(r) /\ UNCHANGED <<browser, door>>)
      PROVE  OnboardingInv'
  <2>1. ServerInv' /\ AccountType' /\ AccountInv' /\ There' = There
    BY <1>0, <1>3, PagesAsk
  <2>2. UNCHANGED <<page, asked, section, calls>>
    BY <1>3 DEF SubmitSignUp, SubmitNew, Admitted, browser
  <2>3. FormType' /\ FormInv'
    BY <1>0, <2>1, <2>2, FormStays
  <2>4. UNCHANGED door \/ (sheet' = NoForm /\ asks' = {})
    BY <1>3 DEF SubmitSignUp, SubmitNew, Admitted, door
  <2>5. CASE UNCHANGED door
    BY <1>0, <2>1, <2>3, <2>5, DoorStays DEF OnboardingInv
  <2>6. CASE sheet' = NoForm /\ asks' = {}
    <3>1. NoForm \in Sheets /\ NoForm.at = Nowhere /\ NoForm.cin = None /\ Nowhere # "new"
      BY DEF NoForm, Sheets, Named, Nowhere
    <3>2. DoorType' /\ SheetInv'
      BY <2>6, <3>1 DEF DoorType, SheetInv
    <3> QED  BY <2>1, <2>3, <3>2 DEF OnboardingInv
  <2> QED  BY <2>4, <2>5, <2>6
<1>4. ASSUME NEW r \in Requests, Serving(r), UNCHANGED <<browser, door>>
      PROVE  OnboardingInv'
  <2>1. ServerInv' /\ AccountType' /\ AccountInv' /\ There \subseteq There'
    BY <1>0, <1>4, ServingKeeps
  <2>2. FormType' /\ FormInv'
    BY <1>0, <1>4, <2>1, FormStays DEF browser
  <2>3. DoorType' /\ SheetInv'
    BY <1>0, <1>4, DoorStays
  <2> QED  BY <2>1, <2>2, <2>3 DEF OnboardingInv
<1> QED  BY <1>2, <1>3, <1>4 DEF OnboardingNext

\* The inductive invariant of the companies: what requests carry and have read, whose
\* calendar is owed, what the forms hold, and who of those that sign up is under way.
THEOREM CompaniesInductive == CompaniesSpec => []OnboardingInv
<1>1. OnboardingInit => OnboardingInv
  BY Starts
<1>2. OnboardingInv /\ [CompaniesNext]_all => OnboardingInv'
  <2> SUFFICES ASSUME OnboardingInv, [CompaniesNext]_all PROVE OnboardingInv'
    OBVIOUS
  <2>1. CASE kind # "onboarding" /\ FormNext /\ UNCHANGED <<people, door>>
    BY <2>1, FormOnly
  <2>2. CASE kind = "onboarding" /\ OnboardingNext
    BY <2>2, ComingIn
  <2>3. CASE UNCHANGED all
    <3>1. ServerInv /\ FormType /\ FormInv /\ AccountType /\ AccountInv /\ DoorType /\ SheetInv
      BY DEF OnboardingInv
    <3>2. UNCHANGED server /\ UNCHANGED <<page, asked, section, calls>> /\ UNCHANGED <<people, door>>
      BY <2>3 DEF all, desk, browser
    <3>3. ServerInv' /\ There' = There
      BY <3>1, <3>2, ServerStays
    <3>4. FormType' /\ FormInv' /\ DoorType' /\ SheetInv'
      BY <3>1, <3>2, <3>3, FormStays, DoorStays
    <3>5. account' = account /\ stranded' = stranded /\ req' = req
      BY <3>2 DEF people, server
    <3>6. AccountType' /\ AccountInv'
      BY <3>1, <3>3, <3>5 DEF AccountType, AccountInv, Whole, UnderWay, At
    <3> QED  BY <3>3, <3>4, <3>6 DEF OnboardingInv
  <2> QED  BY <2>1, <2>2, <2>3 DEF CompaniesNext
<1> QED  BY <1>1, <1>2, PTL DEF CompaniesSpec

\* "A profile change can change what applies, so the calendar is rebuilt on every
\* update" (companies.routes.ts): once no request is on a company its calendar is that
\* of its profile, but for a generation overtaken, a writer dead or an edge function.
THEOREM CalendarsMatch == CompaniesSpec => []CalendarFollows
<1>1. OnboardingInv => CalendarFollows
  <2> SUFFICES ASSUME OnboardingInv, NEW c \in There \ lagging, AtRest(c)
               PROVE  calendar[c] = Profile(c)
    BY DEF CalendarFollows
  <2>1. \A r \in Requests : ~Owes(req[r], c)
    BY DEF AtRest, Owes
  <2> QED  BY <2>1 DEF OnboardingInv, ServerInv, CalendarInv
<1> QED  BY <1>1, CompaniesInductive, PTL

\* "CIN is already registered to another company" (updateCompany): two companies have
\* one CIN only where one took it unchecked, or where its check was overtaken.
THEOREM CinUnique == CompaniesSpec => []CinHeldOnce
<1>1. OnboardingInv => CinHeldOnce
  BY DEF OnboardingInv, ServerInv
<1> QED  BY <1>1, CompaniesInductive, PTL

\* What a register said of a number is kept with the number of the registration, unless
\* the number was changed while the session for it was opened.
THEOREM EntriesStay == CompaniesSpec => []EntryOfTheNumber
<1>1. OnboardingInv => EntryOfTheNumber
  BY DEF OnboardingInv, ServerInv, EntryInv, EntryOfTheNumber, There
<1> QED  BY <1>1, CompaniesInductive, PTL

\* Whoever can sign in has a user row, a company and the grant on it once no sign-up
\* with the address is in flight, whichever steps of whichever sign-ups failed.
THEOREM AccountsWhole == CompaniesSpec => []AccountHasItsCompany
<1>1. OnboardingInv => AccountHasItsCompany
  <2> SUFFICES ASSUME OnboardingInv, NEW e \in Emails \ stranded,
                      account[e].login \/ account[e].row = "own",
                      ~(\E r \in Requests : SigningUp(r, e))
               PROVE  Whole(e)
    BY DEF AccountHasItsCompany, Whole
  <2>1. \A r \in Requests : ~UnderWay(r, e)
    BY DEF SigningUp, UnderWay
  <2> QED  BY <2>1 DEF OnboardingInv, AccountInv
<1> QED  BY <1>1, CompaniesInductive, PTL
=============================================================================
