--------------------- MODULE MarketplacePurchaseProofs ---------------------
(***************************************************************************)
(* What TLAPS proves of MarketplacePurchase, for every set of requests,    *)
(* price, take rate, refund schedule and number of failures.               *)
(***************************************************************************)
EXTENDS MarketplacePurchase, FiniteSetTheorems, TLAPS

----------------------------------------------------------------------------
(* The split. *)

LEMMA QuotientBound ==
  ASSUME NEW g \in Nat, NEW p \in 0..100
  PROVE  (g * p) \div 100 \in 0..g
<1>1. g * p \in Nat /\ g * p <= g * 100
  BY SMT
<1> QED
  BY <1>1, SMT

\* compute_split: the platform fee is a non-negative amount that never exceeds
\* the price, so the creator's net is never negative.
THEOREM SplitConserves ==
  ASSUME NEW gross \in Nat, NEW rate \in 0..100
  PROVE  PlatformFee(gross, rate) \in 0..gross
<1> DEFINE fee == (gross * rate) \div 100
<1>1. fee \in 0..gross
  BY QuotientBound
<1>2. Smaller(MinFee, gross) \in 0..gross
  BY DEF Smaller, MinFee
<1> QED
  BY <1>1, <1>2 DEF PlatformFee, MinFee, MinFeeCeiling

LEMMA GrossPositive ==
  ASSUME NEW c \in Charge
  PROVE  Gross(c) \in Nat /\ Gross(c) > 0
BY PricesPositive, InvoicePositive DEF Charge, Gross

----------------------------------------------------------------------------
(* The ledger. *)

\* post_double_entry adds the positive transactions whose key is new, and
\* nothing else.
LEMMA PostAdds ==
  ASSUME NEW b, NEW txs
  PROVE  /\ b \subseteq PostDoubleEntry(b, txs)
         /\ PostDoubleEntry(b, txs) \subseteq b \cup txs
         /\ \A t \in PostDoubleEntry(b, txs) \ b : t.amount > 0
         /\ \A t \in txs : t.amount > 0 /\ ~ Posted(b, t.key)
                             => t \in PostDoubleEntry(b, txs)
BY DEF PostDoubleEntry

LEMMA LegKeys ==
  ASSUME NEW r, NEW e
  PROVE  /\ \A t \in PurchaseLegs(r, e) : t.key \in {<<e, "fee">>, <<e, "creator">>}
         /\ \A t \in RefundLegs(r, e) : t.key \in {<<e, "fee">>, <<e, "creator">>}
BY DEF PurchaseLegs, RefundLegs, Transaction

\* What one delivery may add to the ledger: transactions keyed by its event.
LEMMA DeliverAdds ==
  ASSUME NEW e, Deliver(e)
  PROVE  /\ book \subseteq book'
         /\ \A t \in book' \ book : t.key \in {e} \X {"evt", "fee", "creator"}
<1> DEFINE Kept(b) == /\ book \subseteq b
                      /\ \A t \in b \ book :
                           t.key \in {e} \X {"evt", "fee", "creator"}
<1>1. Kept(book)
  OBVIOUS
<1>2. Kept(PostDoubleEntry(book, PurchaseLegs(e.obj, e)))
  <2> DEFINE legs == PurchaseLegs(e.obj, e)
  <2>1. \A t \in legs : t.key \in {e} \X {"evt", "fee", "creator"}
    BY LegKeys
  <2> HIDE DEF legs
  <2>2. Kept(PostDoubleEntry(book, legs))
    BY <2>1, PostAdds
  <2> QED
    BY <2>2 DEF legs
<1>3. Kept(PostDoubleEntry(book, SubscriptionRefundLeg(e)))
  <2> DEFINE leg == SubscriptionRefundLeg(e)
  <2>1. \A t \in leg : t.key \in {e} \X {"evt", "fee", "creator"}
    BY DEF SubscriptionRefundLeg, Transaction
  <2> HIDE DEF leg
  <2>2. Kept(PostDoubleEntry(book, leg))
    BY <2>1, PostAdds
  <2> QED
    BY <2>2 DEF leg
<1>4. Kept(PostDoubleEntry(PostDoubleEntry(book, SubscriptionRefundLeg(e)),
                           RefundLegs(e.obj, e)))
  <2> DEFINE reversed == PostDoubleEntry(book, SubscriptionRefundLeg(e))
  <2>1. /\ reversed \subseteq PostDoubleEntry(reversed, RefundLegs(e.obj, e))
        /\ PostDoubleEntry(reversed, RefundLegs(e.obj, e))
             \subseteq reversed \cup RefundLegs(e.obj, e)
    BY PostAdds
  <2>2. \A t \in RefundLegs(e.obj, e) : t.key \in {e} \X {"evt", "fee", "creator"}
    BY LegKeys
  <2> HIDE DEF reversed
  <2>3. Kept(reversed)
    BY <1>3 DEF reversed
  <2>4. Kept(PostDoubleEntry(reversed, RefundLegs(e.obj, e)))
    BY <2>1, <2>2, <2>3
  <2> QED
    BY <2>4 DEF reversed
<1>5. Kept(PostDoubleEntry(book, SubscriptionPaymentLeg(e, Gross(e.obj))))
  <2> DEFINE leg == SubscriptionPaymentLeg(e, Gross(e.obj))
  <2>1. \A t \in leg : t.key \in {e} \X {"evt", "fee", "creator"}
    BY DEF SubscriptionPaymentLeg, Transaction
  <2> HIDE DEF leg
  <2>2. Kept(PostDoubleEntry(book, leg))
    BY <2>1, PostAdds
  <2> QED
    BY <2>2 DEF leg
<1> HIDE DEF Kept
<1>6. \/ book' = book
      \/ book' = PostDoubleEntry(book, PurchaseLegs(e.obj, e))
      \/ book' = PostDoubleEntry(book, SubscriptionRefundLeg(e))
      \/ book' = PostDoubleEntry(PostDoubleEntry(book, SubscriptionRefundLeg(e)),
                                 RefundLegs(e.obj, e))
      \/ book' = PostDoubleEntry(book, SubscriptionPaymentLeg(e, Gross(e.obj)))
  BY DEF Deliver, Dispatch, MarkPurchaseCompleted, MarkPurchaseFailed,
         HandleChargeRefunded, HandleInvoicePaid
<1>7. Kept(book')
  BY <1>1, <1>2, <1>3, <1>4, <1>5, <1>6
<1> QED
  BY <1>7 DEF Kept

\* What one delivery may do to the purchase table.
LEMMA DeliverRow ==
  ASSUME NEW e, Deliver(e)
  PROVE  \/ UNCHANGED row
         \/ /\ Visible(e.obj)
            /\ row[e.obj].status \in {"pending", "completed"}
            /\ e.type = "payment_intent.succeeded"
            /\ row' = [row EXCEPT ![e.obj].status = "completed",
                                  ![e.obj].completed_at = "set"]
         \/ /\ Visible(e.obj)
            /\ row[e.obj].status = "pending"
            /\ row' = [row EXCEPT ![e.obj].status = "failed"]
         \/ /\ Visible(e.obj)
            /\ e.type = "charge.refunded"
            /\ row' = [row EXCEPT ![e.obj] = RefundedRow(e.obj, e.n)]
<1>1. CASE ~ Fresh(e)
  BY <1>1 DEF Deliver
<1>2. CASE e.type = "payment_intent.succeeded" /\ MarkPurchaseCompleted(e)
  BY <1>2 DEF MarkPurchaseCompleted
<1>3. CASE MarkPurchaseFailed(e)
  BY <1>3 DEF MarkPurchaseFailed
<1>4. CASE e.type = "charge.refunded" /\ HandleChargeRefunded(e)
  BY <1>4 DEF HandleChargeRefunded
<1>5. CASE HandleInvoicePaid(e)
  BY <1>5 DEF HandleInvoicePaid
<1> QED
  BY <1>1, <1>2, <1>3, <1>4, <1>5 DEF Deliver, Dispatch

----------------------------------------------------------------------------
(* Type correctness. *)

LEMMA RowTypes ==
  ASSUME TypeOK, NEW e \in Event, Deliver(e)
  PROVE  row' \in [Request -> Row]
<1>0. row \in [Request -> Row] /\ (Visible(e.obj) => row[e.obj] \in Row)
  BY DEF TypeOK, Visible
<1>1. CASE UNCHANGED row
  BY <1>0, <1>1
<1>2. CASE /\ Visible(e.obj)
           /\ row' = [row EXCEPT ![e.obj].status = "completed",
                                 ![e.obj].completed_at = "set"]
  <2>1. [row[e.obj] EXCEPT !.status = "completed", !.completed_at = "set"] \in Row
    BY <1>0, <1>2 DEF Row, Status
  <2> QED
    BY <1>0, <1>2, <2>1
<1>3. CASE /\ Visible(e.obj)
           /\ row' = [row EXCEPT ![e.obj].status = "failed"]
  <2>1. [row[e.obj] EXCEPT !.status = "failed"] \in Row
    BY <1>0, <1>3 DEF Row, Status
  <2> QED
    BY <1>0, <1>3, <2>1
<1>4. CASE /\ Visible(e.obj)
           /\ row' = [row EXCEPT ![e.obj] = RefundedRow(e.obj, e.n)]
  <2>1. Gross(e.obj) \in Nat /\ e.n \in Nat /\ row[e.obj] \in Row
    BY <1>0, <1>4, GrossPositive DEF Event, Visible, Charge
  <2>2. Smaller(row[e.obj].refunded + e.n, Gross(e.obj)) \in Nat
    BY <2>1 DEF Smaller, Row
  <2>3. (IF row[e.obj].refunded + e.n >= Gross(e.obj)
         THEN "refunded" ELSE row[e.obj].status) \in Status
    BY <2>1 DEF Row, Status
  <2>4. RefundedRow(e.obj, e.n) \in Row
    BY <2>1, <2>2, <2>3 DEF RefundedRow, Row
  <2> QED
    BY <1>0, <1>4, <2>4
<1> QED
  BY <1>1, <1>2, <1>3, <1>4, DeliverRow

\* Every table and every request record keeps its shape.
THEOREM TypeCorrect == Spec => []TypeOK
<1>1. Init => TypeOK
  BY GrossPositive DEF Init, TypeOK, PC, Row, NoRow, Status, NoReply
<1>2. TypeOK /\ [Next]_vars => TypeOK'
  <2> SUFFICES ASSUME TypeOK, [Next]_vars PROVE TypeOK'
    OBVIOUS
  <2> USE DEF TypeOK, requestVars, stripeVars, webhookVars, gateVars
  <2>1. CASE UNCHANGED vars
    BY <2>1 DEF vars
  <2>2. ASSUME NEW r \in Request, RequestStep(r) PROVE TypeOK'
    <3>1. CASE CheckRequest(r)
      BY <3>1 DEF CheckRequest, Winner, PC
    <3>2. CASE RequireOnboardedCreator(r)
      BY <3>2 DEF RequireOnboardedCreator, PC
    <3>3. CASE CreateIntent(r)
      <4>1. Gross(r) \in Nat
        BY GrossPositive DEF Charge
      <4>2. ASSUME NEW rate \in TakeRate
            PROVE  PlatformFee(Gross(r), rate) \in Nat
        BY <4>1, SplitConserves, TakeRateIsPercent
      <4> QED
        BY <3>3, <4>2 DEF CreateIntent, PC
    <3>4. CASE InsertRow(r)
      <4>1. [status |-> "pending", fee |-> quote[r], refunded |-> 0,
             completed_at |-> "null"] \in Row
        BY DEF Row, Status
      <4> QED
        BY <3>4, <4>1, SMTT(30) DEF InsertRow, Winner, PC
    <3>5. CASE Crash(r)
      BY <3>5 DEF Crash, PC
    <3> QED
      BY <2>2, <3>1, <3>2, <3>3, <3>4, <3>5 DEF RequestStep
  <2>3. CASE StripeStep
    <3>1. ASSUME NEW r \in Request, PaymentSucceeds(r) PROVE TypeOK'
      BY <3>1 DEF PaymentSucceeds, Emit, Event, EventType, Charge
    <3>2. ASSUME NEW r \in Request, PaymentFails(r) PROVE TypeOK'
      BY <3>2 DEF PaymentFails, Emit, Event, EventType, Charge
    <3>3. ASSUME NEW i \in Invoice, InvoicePaid(i) PROVE TypeOK'
      BY <3>3 DEF InvoicePaid, Emit, Event, EventType, Charge
    <3>4. ASSUME NEW c \in Charge, RefundCharge(c) PROVE TypeOK'
      BY <3>4, RefundStepPositive DEF RefundCharge, Emit, Event, EventType
    <3>5. ASSUME NEW l \in ListingOf, Delist(l) PROVE TypeOK'
      BY <3>5 DEF Delist
    <3>6. ASSUME NEW creator \in CreatorOf, DisableCharges(creator) PROVE TypeOK'
      BY <3>6 DEF DisableCharges
    <3> QED
      BY <2>3, <3>1, <3>2, <3>3, <3>4, <3>5, <3>6 DEF StripeStep
  <2>4. ASSUME NEW e \in sent, Deliver(e) PROVE TypeOK'
    <3>1. row' \in [Request -> Row]
      BY <2>4, RowTypes
    <3>2. \A t \in book' : t.key \in Event \X {"evt", "fee", "creator"}
      BY <2>4, DeliverAdds
    <3>3. seen' \subseteq sent'
      BY <2>4 DEF Deliver
    <3> QED
      BY <2>4, <3>1, <3>2, <3>3 DEF Deliver
  <2> QED
    BY <2>1, <2>2, <2>3, <2>4 DEF Next
<1> QED
  BY <1>1, <1>2, PTL DEF Spec

----------------------------------------------------------------------------
(* The inductive invariant.  The three properties the runs check are not   *)
(* inductive alone: they rest on what a request that has not replied may   *)
(* have stored, on what an emitted event says about Stripe, and on which   *)
(* events the ledger and the completed rows come from.                     *)

UnrepliedHasNoRow ==
  \A r \in Request : pc[r] # "replied" => row[r] = NoRow

EventsAreEarned ==
  \A e \in sent :
    /\ e.type = "payment_intent.succeeded" =>
         e.obj \in Request \cap captured /\ e.n = 0
    /\ e.type = "charge.refunded" => e.obj \in captured /\ e.n > 0

LedgerComesFromSeen == \A t \in book : t.key[1] \in seen

CompletedWasSeen ==
  \A r \in Request :
    /\ row[r].completed_at = "set" => SaleEvent(r) \in seen
    /\ row[r].status = "completed" => row[r].completed_at = "set"
    /\ row[r].status = "absent" => row[r] = NoRow

IInv ==
  /\ UnrepliedHasNoRow
  /\ OneRowPerKey
  /\ EventsAreEarned
  /\ LedgerComesFromSeen
  /\ CompletedWasSeen
  /\ LedgerMirrorsCompletion
  /\ RefundBounds

LEMMA LegsDependOnFee ==
  ASSUME NEW r, NEW e, row'[r].fee = row[r].fee
  PROVE  PurchaseLegs(r, e)' = PurchaseLegs(r, e)
BY DEF PurchaseLegs, CreatorNet

LEMMA IInvInit == Init => IInv
<1> SUFFICES ASSUME Init PROVE IInv
  OBVIOUS
<1>1. \A r \in Request : Gross(r) # 0
  BY GrossPositive DEF Charge
<1>2. \A r \in Request : row[r] = NoRow /\ ~ HasRow(r)
  BY DEF Init, HasRow, NoRow
<1>3. RefundBounds
  BY <1>1, <1>2, GrossPositive DEF RefundBounds, NoRow, Charge
<1>4. LedgerMirrorsCompletion
  BY <1>2 DEF Init, LedgerMirrorsCompletion, Credits, NoRow
<1>5. UnrepliedHasNoRow /\ OneRowPerKey /\ CompletedWasSeen
  BY <1>2 DEF UnrepliedHasNoRow, OneRowPerKey, CompletedWasSeen, NoRow
<1>6. EventsAreEarned /\ LedgerComesFromSeen
  BY DEF Init, EventsAreEarned, LedgerComesFromSeen
<1> QED
  BY <1>3, <1>4, <1>5, <1>6 DEF IInv

\* Every conjunct but the first two constrains only these tables.
LEMMA IInvRowsKept ==
  ASSUME IInv, UNCHANGED <<row, sent, captured, seen, book>>,
         \A r \in Request : pc[r] = "replied" => pc'[r] = "replied"
  PROVE  IInv'
<1>1. UnrepliedHasNoRow'
  BY DEF IInv, UnrepliedHasNoRow
<1>2. OneRowPerKey' /\ EventsAreEarned' /\ LedgerComesFromSeen'
  BY DEF IInv, OneRowPerKey, HasRow, EventsAreEarned, LedgerComesFromSeen
<1>3. CompletedWasSeen' /\ RefundBounds'
  BY DEF IInv, CompletedWasSeen, RefundBounds, HasRow
<1>4. LedgerMirrorsCompletion'
  BY LegsDependOnFee DEF IInv, LedgerMirrorsCompletion, Credits
<1> QED
  BY <1>1, <1>2, <1>3, <1>4 DEF IInv

LEMMA IInvInsertRow ==
  ASSUME TypeOK, IInv, NEW r \in Request, InsertRow(r), Winner(r) = {},
         row' = [row EXCEPT ![r] = [status |-> "pending", fee |-> quote[r],
                                    refunded |-> 0, completed_at |-> "null"]]
  PROVE  IInv'
<1>1. /\ UNCHANGED <<sent, captured, seen, book>>
      /\ pc[r] = "intent"
      /\ pc' = [pc EXCEPT ![r] = "replied"]
  BY DEF InsertRow, stripeVars, webhookVars
<1>2. row[r] = NoRow
  BY <1>1 DEF IInv, UnrepliedHasNoRow
<1>3. /\ row'[r].status = "pending" /\ row'[r].refunded = 0
      /\ row'[r].completed_at = "null"
      /\ \A s \in Request \ {r} : row'[s] = row[s]
  BY DEF TypeOK
<1>4. UnrepliedHasNoRow'
  BY <1>1, <1>3 DEF TypeOK, IInv, UnrepliedHasNoRow
<1>5. OneRowPerKey'
  BY <1>3 DEF IInv, OneRowPerKey, HasRow, Winner, SameKey
<1>6. EventsAreEarned' /\ LedgerComesFromSeen'
  BY <1>1 DEF IInv, EventsAreEarned, LedgerComesFromSeen
<1>7. CompletedWasSeen'
  BY <1>1, <1>3 DEF IInv, CompletedWasSeen
<1>8. LedgerMirrorsCompletion'
  <2> SUFFICES ASSUME NEW s \in Request
               PROVE  Credits(s)' =
                        IF row'[s].completed_at = "set"
                        THEN {t \in PurchaseLegs(s, SaleEvent(s))' : t.amount > 0}
                        ELSE {}
    BY DEF LedgerMirrorsCompletion, SaleEvent
  <2>1. Credits(s)' = Credits(s)
    BY <1>1 DEF Credits, SaleEvent
  <2>2. CASE s = r
    BY <2>1, <2>2, <1>2, <1>3 DEF IInv, LedgerMirrorsCompletion, NoRow
  <2>3. CASE s # r
    <3>1. PurchaseLegs(s, SaleEvent(s))' = PurchaseLegs(s, SaleEvent(s))
      BY <2>3, <1>3, LegsDependOnFee DEF SaleEvent
    <3> QED
      BY <2>1, <2>3, <3>1, <1>3 DEF IInv, LedgerMirrorsCompletion
  <2> QED
    BY <2>2, <2>3
<1>9. RefundBounds'
  <2>1. Gross(r) \in Nat /\ Gross(r) > 0
    BY GrossPositive DEF Charge
  <2> QED
    BY <2>1, <1>3 DEF IInv, RefundBounds, HasRow
<1> QED
  BY <1>4, <1>5, <1>6, <1>7, <1>8, <1>9 DEF IInv

LEMMA IInvRequestStep ==
  ASSUME TypeOK, IInv, NEW r \in Request, RequestStep(r)
  PROVE  IInv'
<1> USE DEF requestVars, stripeVars, webhookVars, TypeOK
<1>1. CASE CheckRequest(r)
  BY <1>1, IInvRowsKept DEF CheckRequest
<1>2. CASE RequireOnboardedCreator(r)
  BY <1>2, IInvRowsKept DEF RequireOnboardedCreator
<1>3. CASE CreateIntent(r)
  BY <1>3, IInvRowsKept DEF CreateIntent
<1>4. CASE InsertRow(r)
  BY <1>4, IInvInsertRow, IInvRowsKept DEF InsertRow
<1>5. CASE Crash(r)
  BY <1>5, IInvRowsKept DEF Crash
<1> QED
  BY <1>1, <1>2, <1>3, <1>4, <1>5 DEF RequestStep

\* Stripe changes no table of the program; an event it emits is earned.
LEMMA IInvStripeStep ==
  ASSUME TypeOK, IInv, StripeStep
  PROVE  IInv'
<1>1. UNCHANGED <<pc, row, seen, book>> /\ captured \subseteq captured'
  BY DEF StripeStep, PaymentSucceeds, PaymentFails, InvoicePaid, RefundCharge,
         Delist, DisableCharges, requestVars, webhookVars, stripeVars
<1>2. EventsAreEarned'
  <2>1. ASSUME NEW r \in Request, PaymentSucceeds(r) PROVE EventsAreEarned'
    BY <2>1 DEF PaymentSucceeds, Emit, IInv, EventsAreEarned
  <2>2. ASSUME NEW r \in Request, PaymentFails(r) PROVE EventsAreEarned'
    BY <2>2 DEF PaymentFails, Emit, IInv, EventsAreEarned
  <2>3. ASSUME NEW i \in Invoice, InvoicePaid(i) PROVE EventsAreEarned'
    BY <2>3 DEF InvoicePaid, Emit, IInv, EventsAreEarned
  <2>4. ASSUME NEW c \in Charge, RefundCharge(c) PROVE EventsAreEarned'
    <3>1. \A a \in RefundStep : refunded[c] + a > 0
      BY RefundStepPositive DEF TypeOK
    <3> QED
      BY <2>4, <3>1 DEF RefundCharge, Emit, IInv, EventsAreEarned
  <2>5. CASE UNCHANGED <<sent, captured>>
    BY <2>5 DEF IInv, EventsAreEarned
  <2> QED
    BY <2>1, <2>2, <2>3, <2>4, <2>5
    DEF StripeStep, Delist, DisableCharges, stripeVars
<1>3. UnrepliedHasNoRow' /\ OneRowPerKey' /\ LedgerComesFromSeen'
  BY <1>1 DEF IInv, UnrepliedHasNoRow, OneRowPerKey, HasRow, LedgerComesFromSeen
<1>4. CompletedWasSeen' /\ RefundBounds'
  BY <1>1 DEF IInv, CompletedWasSeen, RefundBounds, HasRow
<1>5. LedgerMirrorsCompletion'
  BY <1>1, LegsDependOnFee DEF IInv, LedgerMirrorsCompletion, Credits
<1> QED
  BY <1>2, <1>3, <1>4, <1>5 DEF IInv

\* The same, row by row and field by field.
LEMMA DeliverOneRow ==
  ASSUME TypeOK, NEW e \in sent, Deliver(e), NEW s \in Request
  PROVE  \/ row'[s] = row[s]
         \/ /\ s = e.obj /\ HasRow(s)
            /\ e.type = "payment_intent.succeeded"
            /\ row[s].status \in {"pending", "completed"}
            /\ row'[s] = [row[s] EXCEPT !.status = "completed",
                                        !.completed_at = "set"]
         \/ /\ s = e.obj /\ HasRow(s)
            /\ row[s].status = "pending"
            /\ row'[s] = [row[s] EXCEPT !.status = "failed"]
         \/ /\ s = e.obj /\ HasRow(s)
            /\ e.type = "charge.refunded"
            /\ row'[s] = RefundedRow(s, e.n)
<1>1. row \in [Request -> Row]
  BY DEF TypeOK
<1>2. CASE UNCHANGED row
  BY <1>2
<1>3. CASE /\ Visible(e.obj)
           /\ row[e.obj].status \in {"pending", "completed"}
           /\ e.type = "payment_intent.succeeded"
           /\ row' = [row EXCEPT ![e.obj].status = "completed",
                                 ![e.obj].completed_at = "set"]
  BY <1>1, <1>3 DEF Visible
<1>4. CASE /\ Visible(e.obj)
           /\ row[e.obj].status = "pending"
           /\ row' = [row EXCEPT ![e.obj].status = "failed"]
  BY <1>1, <1>4 DEF Visible
<1>5. CASE /\ Visible(e.obj)
           /\ e.type = "charge.refunded"
           /\ row' = [row EXCEPT ![e.obj] = RefundedRow(e.obj, e.n)]
  BY <1>1, <1>5 DEF Visible
<1> QED
  BY <1>2, <1>3, <1>4, <1>5, DeliverRow

LEMMA DeliverFields ==
  ASSUME TypeOK, NEW e \in sent, Deliver(e), NEW s \in Request
  PROVE  /\ row'[s].fee = row[s].fee
         /\ ~ HasRow(s) => row'[s] = row[s]
         /\ HasRow(s) => row'[s].status # "absent"
         /\ \/ row'[s].completed_at = row[s].completed_at
            \/ /\ e.type = "payment_intent.succeeded" /\ e.obj = s
               /\ row'[s].completed_at = "set"
         /\ row'[s].status = "completed" =>
              \/ row[s].status = "completed"
              \/ row'[s].completed_at = "set"
<1>1. row[s] \in Row
  BY DEF TypeOK
<1>2. CASE row'[s] = row[s]
  BY <1>2 DEF HasRow
<1>3. CASE /\ s = e.obj /\ HasRow(s)
           /\ e.type = "payment_intent.succeeded"
           /\ row'[s] = [row[s] EXCEPT !.status = "completed",
                                       !.completed_at = "set"]
  BY <1>1, <1>3 DEF Row
<1>4. CASE /\ s = e.obj /\ HasRow(s)
           /\ row'[s] = [row[s] EXCEPT !.status = "failed"]
  BY <1>1, <1>4 DEF Row
<1>5. CASE HasRow(s) /\ row'[s] = RefundedRow(s, e.n)
  <2>1. /\ row'[s].fee = row[s].fee
        /\ row'[s].completed_at = row[s].completed_at
        /\ row'[s].status \in {"refunded", row[s].status}
    BY <1>1, <1>5 DEF RefundedRow, Row
  <2> QED
    BY <1>5, <2>1 DEF HasRow
<1> QED
  BY <1>2, <1>3, <1>4, <1>5, DeliverOneRow

\* A fresh success event of a purchase is that purchase's SaleEvent, none of
\* whose transactions is in the ledger yet.
LEMMA FreshSale ==
  ASSUME TypeOK, IInv, NEW e \in sent, Fresh(e),
         e.type = "payment_intent.succeeded"
  PROVE  /\ e.obj \in Request
         /\ e = SaleEvent(e.obj)
         /\ Credits(e.obj) = {}
         /\ row[e.obj].completed_at # "set"
<1>1. e.obj \in Request /\ e.n = 0 /\ e \in Event
  BY DEF IInv, EventsAreEarned, TypeOK
<1>2. e = SaleEvent(e.obj)
  BY <1>1 DEF SaleEvent, Event
<1>3. Credits(e.obj) = {}
  BY <1>2 DEF Credits, Fresh, IInv, LedgerComesFromSeen
<1>4. row[e.obj].completed_at # "set"
  BY <1>1, <1>2 DEF Fresh, IInv, CompletedWasSeen
<1> QED
  BY <1>1, <1>2, <1>3, <1>4

\* A stale delivery, a success event, and any other event in turn.
LEMMA DeliverStale ==
  ASSUME IInv, NEW e, Deliver(e), ~ Fresh(e)
  PROVE  IInv'
BY IInvRowsKept DEF Deliver, requestVars, stripeVars

\* The ledger mirrors the completed rows after any fresh delivery.
LEMMA DeliverMirrors ==
  ASSUME TypeOK, IInv, NEW e \in sent, Fresh(e), Deliver(e)
  PROVE  LedgerMirrorsCompletion'
<1> SUFFICES ASSUME NEW s \in Request
             PROVE  Credits(s)' =
                      IF row'[s].completed_at = "set"
                      THEN {t \in PurchaseLegs(s, SaleEvent(s))' : t.amount > 0}
                      ELSE {}
  BY DEF LedgerMirrorsCompletion, SaleEvent
<1>1. row'[s].fee = row[s].fee
  BY DeliverFields
<1>2. PurchaseLegs(s, SaleEvent(s))' = PurchaseLegs(s, SaleEvent(s))
  BY <1>1, LegsDependOnFee DEF SaleEvent
<1>3. Credits(s) = IF row[s].completed_at = "set"
                   THEN {t \in PurchaseLegs(s, SaleEvent(s)) : t.amount > 0}
                   ELSE {}
  BY DEF IInv, LedgerMirrorsCompletion
<1>4. CASE e # SaleEvent(s)
  <2>1. Credits(s)' = Credits(s)
    BY <1>4, DeliverAdds DEF Credits, SaleEvent
  <2>2. row'[s].completed_at = row[s].completed_at
    <3>1. e.type = "payment_intent.succeeded" => e.obj # s
      BY <1>4, FreshSale
    <3> QED
      BY <3>1, DeliverFields
  <2> QED
    BY <2>1, <2>2, <1>2, <1>3
<1>5. CASE e = SaleEvent(s)
  <2>1. /\ e.type = "payment_intent.succeeded" /\ e.obj = s
        /\ Credits(s) = {} /\ row[s].completed_at # "set"
    BY <1>5, FreshSale DEF SaleEvent
  <2>2. MarkPurchaseCompleted(e)
    BY <2>1 DEF Deliver, Dispatch
  <2>3. CASE ~ (Visible(s) /\ row[s].status \in {"pending", "completed"})
    <3>1. UNCHANGED <<row, book>>
      BY <2>1, <2>2, <2>3 DEF MarkPurchaseCompleted
    <3> QED
      BY <2>1, <3>1 DEF Credits, SaleEvent
  <2>4. CASE Visible(s) /\ row[s].status \in {"pending", "completed"}
    <3>1. /\ row'[s].completed_at = "set"
          /\ book' = PostDoubleEntry(book, PurchaseLegs(s, e))
      <4>1. /\ row' = [row EXCEPT ![s].status = "completed",
                                  ![s].completed_at = "set"]
            /\ book' = PostDoubleEntry(book, PurchaseLegs(s, e))
        BY <2>1, <2>2, <2>4 DEF MarkPurchaseCompleted
      <4> QED
        BY <4>1 DEF TypeOK, Row
    <3>2. \A t \in PurchaseLegs(s, e) : t.key[1] = e /\ ~ Posted(book, t.key)
      <4>1. \A t \in PurchaseLegs(s, e) : t.key[1] = e
        BY LegKeys
      <4>2. \A t \in book : t.key[1] # e
        BY <2>1, <1>5 DEF Credits
      <4> QED
        BY <4>1, <4>2 DEF Posted
    <3>3. book' = book \cup {t \in PurchaseLegs(s, e) : t.amount > 0}
      BY <3>1, <3>2 DEF PostDoubleEntry
    <3>4. Credits(s)' = {t \in PurchaseLegs(s, e) : t.amount > 0}
      BY <2>1, <3>2, <3>3, <1>5 DEF Credits, SaleEvent
    <3> QED
      BY <3>1, <3>4, <1>2, <1>5
  <2> QED
    BY <2>3, <2>4
<1> QED
  BY <1>4, <1>5

LEMMA DeliverRefundBounds ==
  ASSUME TypeOK, IInv, NEW e \in sent, Deliver(e)
  PROVE  RefundBounds'
<1> SUFFICES ASSUME NEW s \in Request
             PROVE  /\ row'[s].refunded <= Gross(s)
                    /\ HasRow(s)' => (row'[s].status = "refunded")
                                     = (row'[s].refunded = Gross(s))
  BY DEF RefundBounds
<1>1. /\ row[s] \in Row /\ Gross(s) \in Nat /\ Gross(s) > 0 /\ e.n \in Nat
      /\ row \in [Request -> Row]
  BY GrossPositive DEF Charge, TypeOK, Event
<1>2. /\ row[s].refunded <= Gross(s)
      /\ HasRow(s) => (row[s].status = "refunded")
                      = (row[s].refunded = Gross(s))
  BY DEF IInv, RefundBounds
<1>3. CASE row'[s] = row[s]
  BY <1>2, <1>3 DEF HasRow
<1>4. CASE /\ HasRow(s) /\ row[s].status \in {"pending", "completed"}
           /\ row'[s] = [row[s] EXCEPT !.status = "completed",
                                       !.completed_at = "set"]
  BY <1>1, <1>2, <1>4 DEF Row
<1>5. CASE /\ HasRow(s) /\ row[s].status = "pending"
           /\ row'[s] = [row[s] EXCEPT !.status = "failed"]
  BY <1>1, <1>2, <1>5 DEF Row
<1>6. CASE HasRow(s) /\ row'[s] = RefundedRow(s, e.n)
  <2>1. /\ row'[s].refunded = Smaller(row[s].refunded + e.n, Gross(s))
        /\ row'[s].status = IF row[s].refunded + e.n >= Gross(s)
                            THEN "refunded" ELSE row[s].status
    BY <1>1, <1>6 DEF RefundedRow, Row
  <2>2. CASE row[s].refunded + e.n >= Gross(s)
    BY <1>1, <2>1, <2>2 DEF Smaller, Row
  <2>3. CASE ~ (row[s].refunded + e.n >= Gross(s))
    <3>1. row[s].refunded # Gross(s) /\ row[s].status # "refunded"
      BY <1>1, <1>2, <1>6, <2>3 DEF Row
    <3>2. /\ row'[s].refunded = row[s].refunded + e.n
          /\ row'[s].refunded < Gross(s)
      BY <1>1, <2>1, <2>3 DEF Smaller, Row
    <3> QED
      BY <1>1, <2>1, <2>3, <3>1, <3>2 DEF Row
  <2> QED
    BY <2>2, <2>3
<1> QED
  BY <1>3, <1>4, <1>5, <1>6, DeliverOneRow

LEMMA IInvDeliver ==
  ASSUME TypeOK, IInv, NEW e \in sent, Fresh(e), Deliver(e)
  PROVE  IInv'
<1>1. UNCHANGED <<pc, captured, sent>> /\ seen' = seen \cup {e}
  BY DEF Deliver, requestVars, stripeVars
<1>2. \A s \in Request : HasRow(s)' <=> HasRow(s)
  BY DeliverFields DEF HasRow
<1>3. UnrepliedHasNoRow'
  BY <1>1, DeliverFields DEF IInv, UnrepliedHasNoRow, NoRow, HasRow
<1>4. OneRowPerKey'
  BY <1>2 DEF IInv, OneRowPerKey
<1>5. EventsAreEarned'
  BY <1>1 DEF IInv, EventsAreEarned
<1>6. LedgerComesFromSeen'
  BY <1>1, DeliverAdds DEF IInv, LedgerComesFromSeen
<1>7. CompletedWasSeen'
  <2> SUFFICES ASSUME NEW s \in Request
               PROVE  /\ row'[s].completed_at = "set" => SaleEvent(s) \in seen'
                      /\ row'[s].status = "completed" =>
                           row'[s].completed_at = "set"
                      /\ row'[s].status = "absent" => row'[s] = NoRow
    BY DEF CompletedWasSeen, SaleEvent
  <2>1. /\ row[s].completed_at = "set" => SaleEvent(s) \in seen
        /\ row[s].status = "completed" => row[s].completed_at = "set"
        /\ row[s].status = "absent" => row[s] = NoRow
    BY DEF IInv, CompletedWasSeen
  <2>2. e.type = "payment_intent.succeeded" /\ e.obj = s => e = SaleEvent(s)
    BY FreshSale
  <2> QED
    BY <1>1, <2>1, <2>2, DeliverFields DEF HasRow
<1> QED
  BY <1>3, <1>4, <1>5, <1>6, <1>7, DeliverMirrors, DeliverRefundBounds DEF IInv

LEMMA IInvNext == TypeOK /\ IInv /\ [Next]_vars => IInv'
<1> SUFFICES ASSUME TypeOK, IInv, [Next]_vars PROVE IInv'
  OBVIOUS
<1>1. CASE UNCHANGED vars
  BY <1>1, IInvRowsKept DEF vars, requestVars, stripeVars, webhookVars
<1>2. CASE \E r \in Request : RequestStep(r)
  BY <1>2, IInvRequestStep
<1>3. CASE StripeStep
  BY <1>3, IInvStripeStep
<1>4. CASE \E e \in sent : Deliver(e)
  BY <1>4, IInvDeliver, DeliverStale
<1> QED
  BY <1>1, <1>2, <1>3, <1>4 DEF Next

THEOREM Inductive == Spec => []IInv
<1>1. Init => IInv
  BY IInvInit
<1>2. TypeOK /\ IInv /\ [Next]_vars => IInv'
  BY IInvNext
<1> QED
  BY <1>1, <1>2, TypeCorrect, PTL DEF Spec

----------------------------------------------------------------------------
(* The properties. *)

\* However many requests with one key run side by side, create_purchase_intent
\* stores one row for them.
THEOREM OneRowPerKeyHolds == Spec => []OneRowPerKey
<1>1. IInv => OneRowPerKey
  BY DEF IInv
<1> QED
  BY <1>1, Inductive, PTL

\* process_stripe_webhook credits the platform and the creator exactly when it
\* completes the purchase, exactly once and in full.
THEOREM LedgerMirrorsCompletionHolds == Spec => []LedgerMirrorsCompletion
<1>1. IInv => LedgerMirrorsCompletion
  BY DEF IInv
<1> QED
  BY <1>1, Inductive, PTL

\* mark_purchase_refunded never records more than the price, and "refunded"
\* means that the whole price is recorded.
THEOREM RefundBoundsHolds == Spec => []RefundBounds
<1>1. IInv => RefundBounds
  BY DEF IInv
<1> QED
  BY <1>1, Inductive, PTL

----------------------------------------------------------------------------
(* Sums.  MapThenSumSet is a fold, a recursive function chosen by its      *)
(* equation.  That the equation has a solution, and only one, is shown by  *)
(* exhibiting it: the sum of the weights of a set is the number of its     *)
(* units, the pairs of an element and a natural number below its weight.   *)

Units(w, s) == {p \in s \X Nat : p[2] < w[p[1]]}
Weight(w, s) == Cardinality(Units(w, s))
First(s) == CHOOSE x \in s : TRUE

\* The units of one element are as many as its weight.
LEMMA UnitsOfOne ==
  ASSUME NEW w, NEW x, w[x] \in Nat
  PROVE  IsFiniteSet(Units(w, {x})) /\ Cardinality(Units(w, {x})) = w[x]
<1> DEFINE I == 0 .. (w[x] - 1)
           b == [i \in I |-> <<x, i>>]
<1>1. IsFiniteSet(I) /\ Cardinality(I) = w[x]
  <2>1. /\ 0 \in Int /\ w[x] - 1 \in Int
        /\ (IF 0 > w[x] - 1 THEN 0 ELSE w[x] - 1 - 0 + 1) = w[x]
    OBVIOUS
  <2> QED
    BY <2>1, FS_Interval
<1>2. Units(w, {x}) = {<<x, i>> : i \in I}
  <2>1. \A i \in Nat : i < w[x] <=> i \in I
    OBVIOUS
  <2>2. \A i \in I : i \in Nat
    OBVIOUS
  <2> HIDE DEF I
  <2> QED
    BY <2>1, <2>2 DEF Units
<1>3. b \in Bijection(I, Units(w, {x}))
  <2> HIDE DEF I
  <2>1. b \in [I -> Units(w, {x})]
    BY <1>2
  <2>2. \A i, j \in I : b[i] = b[j] => i = j
    OBVIOUS
  <2>3. \A u \in Units(w, {x}) : \E i \in I : b[i] = u
    BY <1>2
  <2> HIDE DEF b
  <2> QED
    BY <2>1, <2>2, <2>3 DEF Bijection, Injection, Surjection, IsInjective
<1> QED
  BY <1>1, <1>3, FS_Bijection DEF ExistsBijection

\* Putting one element back adds its weight.
LEMMA UnitsOfMore ==
  ASSUME NEW w, NEW s, NEW x \in s, w[x] \in Nat,
         IsFiniteSet(Units(w, s \ {x}))
  PROVE  /\ IsFiniteSet(Units(w, s))
         /\ Weight(w, s) = w[x] + Weight(w, s \ {x})
<1>1. Units(w, s) = Units(w, {x}) \cup Units(w, s \ {x})
  BY DEF Units
<1>2. Units(w, {x}) \cap Units(w, s \ {x}) = {}
  BY DEF Units
<1>3. IsFiniteSet(Units(w, {x})) /\ Cardinality(Units(w, {x})) = w[x]
  BY UnitsOfOne
<1>4. Cardinality(Units(w, s \ {x})) \in Nat
  BY FS_CardinalityType
<1> DEFINE one == Units(w, {x})
           rest == Units(w, s \ {x})
<1>5. /\ IsFiniteSet(one \cup rest)
      /\ Cardinality(one \cup rest) =
           Cardinality(one) + Cardinality(rest) - Cardinality(one \cap rest)
  <2>1. IsFiniteSet(one) /\ IsFiniteSet(rest)
    BY <1>3
  <2> HIDE DEF one, rest
  <2> QED
    BY <2>1, FS_Union
<1>6. Cardinality(one \cap rest) = 0
  BY <1>2, FS_EmptySet
<1> QED
  BY <1>1, <1>3, <1>4, <1>5, <1>6 DEF Weight

\* A smallest set among the subsets of a finite set.
LEMMA SmallestSubset ==
  ASSUME NEW S, IsFiniteSet(S), NEW T, T \subseteq SUBSET S, T # {}
  PROVE  \E s \in T : \A u \in T : ~ (u \subseteq s /\ u # s)
<1>1. IsWellFoundedOn(StrictSubsetOrdering(S), SUBSET S)
  BY FS_StrictSubsetOrderingWellFounded, FS_FiniteSubsetsOfFinite
<1>2. \E s \in T : \A u \in T : ~ (<<u, s>> \in StrictSubsetOrdering(S))
  BY <1>1, WFMin
<1> QED
  BY <1>2 DEF StrictSubsetOrdering

\* Were some subset's units infinite, a smallest such subset would have an
\* element to take out.
LEMMA UnitsFinite ==
  ASSUME NEW S, IsFiniteSet(S), NEW w, \A x \in S : w[x] \in Nat
  PROVE  \A s \in SUBSET S : IsFiniteSet(Units(w, s))
<1> DEFINE T == {s \in SUBSET S : ~ IsFiniteSet(Units(w, s))}
<1> SUFFICES ASSUME T # {} PROVE FALSE
  OBVIOUS
<1>1. PICK s \in T : \A u \in T : ~ (u \subseteq s /\ u # s)
  <2>1. T \subseteq SUBSET S
    OBVIOUS
  <2> HIDE DEF T
  <2> QED
    BY <2>1, SmallestSubset
<1>2. CASE s = {}
  <2>1. Units(w, s) = {}
    BY <1>2 DEF Units
  <2> QED
    BY <2>1, FS_EmptySet
<1>3. CASE s # {}
  <2>1. PICK x \in s : TRUE
    BY <1>3
  <2>2. IsFiniteSet(Units(w, s \ {x}))
    BY <1>1
  <2>3. w[x] \in Nat
    OBVIOUS
  <2> QED
    BY <2>2, <2>3, UnitsOfMore
<1> QED
  BY <1>2, <1>3

\* A weight is what its elements add up to, in any order.
LEMMA WeightAdds ==
  ASSUME NEW S, IsFiniteSet(S), NEW w, \A x \in S : w[x] \in Nat,
         NEW s \in SUBSET S
  PROVE  /\ Weight(w, s) \in Nat
         /\ Weight(w, {}) = 0
         /\ \A x \in s : Weight(w, s) = w[x] + Weight(w, s \ {x})
<1>1. IsFiniteSet(Units(w, s))
  BY UnitsFinite
<1>2. Units(w, {}) = {}
  BY DEF Units
<1>3. ASSUME NEW x \in s PROVE Weight(w, s) = w[x] + Weight(w, s \ {x})
  <2>1. IsFiniteSet(Units(w, s \ {x}))
    BY UnitsFinite
  <2> QED
    BY <2>1, UnitsOfMore
<1> QED
  BY <1>1, <1>2, <1>3, FS_EmptySet, FS_CardinalityType DEF Weight

\* The equation of the fold that sums the weights of the subsets of S.
Sums(g, w, S) ==
  g = [s \in SUBSET S |->
         IF s = {} THEN 0 ELSE w[First(s)] + g[s \ {First(s)}]]

\* The weights solve the equation, and any other solution agrees with them.
LEMMA FoldIsWeight ==
  ASSUME NEW S, IsFiniteSet(S), NEW w, \A x \in S : w[x] \in Nat
  PROVE  /\ Sums([s \in SUBSET S |-> Weight(w, s)], w, S)
         /\ \A g : Sums(g, w, S) => g[S] = Weight(w, S)
<1>1. ASSUME NEW s \in SUBSET S, s # {}
      PROVE  /\ First(s) \in s
             /\ Weight(w, s) = w[First(s)] + Weight(w, s \ {First(s)})
  <2>1. First(s) \in s
    BY <1>1 DEF First
  <2> QED
    BY <2>1, WeightAdds
<1>2. Weight(w, {}) = 0
  BY WeightAdds
<1>3. Sums([s \in SUBSET S |-> Weight(w, s)], w, S)
  <2> DEFINE h == [s \in SUBSET S |-> Weight(w, s)]
  <2>1. ASSUME NEW s \in SUBSET S
        PROVE  h[s] = IF s = {} THEN 0
                      ELSE w[First(s)] + h[s \ {First(s)}]
    BY <1>1, <1>2
  <2> QED
    BY <2>1 DEF Sums
<1>4. ASSUME NEW g, Sums(g, w, S) PROVE g[S] = Weight(w, S)
  <2> DEFINE T == {s \in SUBSET S : g[s] # Weight(w, s)}
  <2> SUFFICES ASSUME T # {} PROVE FALSE
    OBVIOUS
  <2>1. PICK s \in T : \A u \in T : ~ (u \subseteq s /\ u # s)
    <3>1. T \subseteq SUBSET S
      OBVIOUS
    <3> HIDE DEF T
    <3> QED
      BY <3>1, SmallestSubset
  <2>2. g[s] = IF s = {} THEN 0 ELSE w[First(s)] + g[s \ {First(s)}]
    BY <1>4 DEF Sums
  <2>3. s # {}
    BY <1>2, <2>2
  <2>4. /\ First(s) \in s
        /\ Weight(w, s) = w[First(s)] + Weight(w, s \ {First(s)})
    BY <1>1, <2>3
  <2>5. g[s \ {First(s)}] = Weight(w, s \ {First(s)})
    BY <2>1, <2>4
  <2> QED
    BY <2>2, <2>3, <2>4, <2>5
<1> QED
  BY <1>3, <1>4


\* MapThenSumSet of the field "n" is a weight.
RefundOf(S) == [x \in S |-> x.n]
RefundTotal(S) == MapThenSumSet(LAMBDA e : e.n, S)

LEMMA RefundTotalIsWeight ==
  ASSUME NEW S, IsFiniteSet(S), \A x \in S : x.n \in Nat
  PROVE  RefundTotal(S) = Weight(RefundOf(S), S)
<1> DEFINE Body(g) == [s \in SUBSET S |->
             IF s = {} THEN 0
             ELSE (CHOOSE x \in s : TRUE).n + g[s \ {CHOOSE x \in s : TRUE}]]
           fold == CHOOSE g : g = Body(g)
<1>1. RefundTotal(S) = fold[S]
  BY DEF RefundTotal, MapThenSumSet, MapThenFoldSet
<1>2. \A x \in S : RefundOf(S)[x] = x.n
  BY DEF RefundOf
<1>3. ASSUME NEW g PROVE Sums(g, RefundOf(S), S) <=> g = Body(g)
  <2>1. \A s \in SUBSET S : s # {} =>
          RefundOf(S)[First(s)] = (CHOOSE x \in s : TRUE).n
    BY <1>2 DEF First
  <2>2. Body(g) = [s \in SUBSET S |->
                     IF s = {} THEN 0
                     ELSE RefundOf(S)[First(s)] + g[s \ {First(s)}]]
    BY <2>1 DEF First
  <2> QED
    BY <2>2 DEF Sums
<1>4. \E g : Sums(g, RefundOf(S), S)
  BY <1>2, FoldIsWeight
<1> HIDE DEF Body
<1>5. \E g : g = Body(g)
  BY <1>3, <1>4
<1>6. fold = Body(fold)
  BY <1>5
<1>7. Sums(fold, RefundOf(S), S)
  BY <1>3, <1>6
<1> QED
  BY <1>1, <1>2, <1>7, FoldIsWeight

\* One more event adds its amount.
LEMMA RefundTotalAdds ==
  ASSUME NEW S, IsFiniteSet(S), \A x \in S : x.n \in Nat
  PROVE  /\ RefundTotal(S) \in Nat
         /\ RefundTotal({}) = 0
         /\ \A x : x \notin S /\ x.n \in Nat =>
              RefundTotal(S \cup {x}) = RefundTotal(S) + x.n
<1>1. RefundTotal(S) = Weight(RefundOf(S), S) /\ RefundTotal(S) \in Nat
  <2>1. \A x \in S : RefundOf(S)[x] \in Nat
    BY DEF RefundOf
  <2> QED
    BY <2>1, RefundTotalIsWeight, WeightAdds
<1>2. RefundTotal({}) = 0
  BY FS_EmptySet, RefundTotalIsWeight, WeightAdds
<1>3. ASSUME NEW x, x \notin S, x.n \in Nat
      PROVE  RefundTotal(S \cup {x}) = RefundTotal(S) + x.n
  <2> DEFINE R == S \cup {x}
  <2>1. IsFiniteSet(R) /\ x \in R /\ R \ {x} = S /\ S \in SUBSET R
    BY <1>3, FS_AddElement
  <2>2. \A y \in R : y.n \in Nat
    BY <1>3
  <2>3. RefundTotal(R) = Weight(RefundOf(R), R)
    <3> HIDE DEF R
    <3> QED
      BY <2>1, <2>2, RefundTotalIsWeight
  <2>4. \A y \in R : RefundOf(R)[y] = y.n
    BY DEF RefundOf
  <2>5. Weight(RefundOf(R), R) = x.n + Weight(RefundOf(R), S)
    <3> HIDE DEF R
    <3>1. Weight(RefundOf(R), R) = RefundOf(R)[x] + Weight(RefundOf(R), R \ {x})
      BY <2>1, <2>2, <2>4, WeightAdds
    <3> QED
      BY <3>1, <2>1, <2>4
  <2>6. Weight(RefundOf(R), S) = Weight(RefundOf(S), S)
    <3>1. \A y \in S : RefundOf(R)[y] = RefundOf(S)[y]
      BY DEF RefundOf
    <3>2. Units(RefundOf(R), S) = Units(RefundOf(S), S)
      <4> HIDE DEF R
      <4> QED
        BY <3>1 DEF Units
    <3> QED
      BY <3>2 DEF Weight
  <2> QED
    BY <1>1, <1>3, <2>3, <2>5, <2>6
<1> QED
  BY <1>1, <1>2, <1>3

\* MapThenSumSet of the field "amount" is a weight.
PostedOf(S) == [x \in S |-> x.amount]
PostedTotal(S) == MapThenSumSet(LAMBDA t : t.amount, S)

LEMMA PostedTotalIsWeight ==
  ASSUME NEW S, IsFiniteSet(S), \A x \in S : x.amount \in Nat
  PROVE  PostedTotal(S) = Weight(PostedOf(S), S)
<1> DEFINE Body(g) == [s \in SUBSET S |->
             IF s = {} THEN 0
             ELSE (CHOOSE x \in s : TRUE).amount + g[s \ {CHOOSE x \in s : TRUE}]]
           fold == CHOOSE g : g = Body(g)
<1>1. PostedTotal(S) = fold[S]
  BY DEF PostedTotal, MapThenSumSet, MapThenFoldSet
<1>2. \A x \in S : PostedOf(S)[x] = x.amount
  BY DEF PostedOf
<1>3. ASSUME NEW g PROVE Sums(g, PostedOf(S), S) <=> g = Body(g)
  <2>1. \A s \in SUBSET S : s # {} =>
          PostedOf(S)[First(s)] = (CHOOSE x \in s : TRUE).amount
    BY <1>2 DEF First
  <2>2. Body(g) = [s \in SUBSET S |->
                     IF s = {} THEN 0
                     ELSE PostedOf(S)[First(s)] + g[s \ {First(s)}]]
    BY <2>1 DEF First
  <2> QED
    BY <2>2 DEF Sums
<1>4. \E g : Sums(g, PostedOf(S), S)
  BY <1>2, FoldIsWeight
<1> HIDE DEF Body
<1>5. \E g : g = Body(g)
  BY <1>3, <1>4
<1>6. fold = Body(fold)
  BY <1>5
<1>7. Sums(fold, PostedOf(S), S)
  BY <1>3, <1>6
<1> QED
  BY <1>1, <1>2, <1>7, FoldIsWeight

\* One more transaction adds its amount.
LEMMA PostedTotalAdds ==
  ASSUME NEW S, IsFiniteSet(S), \A x \in S : x.amount \in Nat
  PROVE  /\ PostedTotal(S) \in Nat
         /\ PostedTotal({}) = 0
         /\ \A x : x \notin S /\ x.amount \in Nat =>
              PostedTotal(S \cup {x}) = PostedTotal(S) + x.amount
<1>1. PostedTotal(S) = Weight(PostedOf(S), S) /\ PostedTotal(S) \in Nat
  <2>1. \A x \in S : PostedOf(S)[x] \in Nat
    BY DEF PostedOf
  <2> QED
    BY <2>1, PostedTotalIsWeight, WeightAdds
<1>2. PostedTotal({}) = 0
  BY FS_EmptySet, PostedTotalIsWeight, WeightAdds
<1>3. ASSUME NEW x, x \notin S, x.amount \in Nat
      PROVE  PostedTotal(S \cup {x}) = PostedTotal(S) + x.amount
  <2> DEFINE R == S \cup {x}
  <2>1. IsFiniteSet(R) /\ x \in R /\ R \ {x} = S /\ S \in SUBSET R
    BY <1>3, FS_AddElement
  <2>2. \A y \in R : y.amount \in Nat
    BY <1>3
  <2>3. PostedTotal(R) = Weight(PostedOf(R), R)
    <3> HIDE DEF R
    <3> QED
      BY <2>1, <2>2, PostedTotalIsWeight
  <2>4. \A y \in R : PostedOf(R)[y] = y.amount
    BY DEF PostedOf
  <2>5. Weight(PostedOf(R), R) = x.amount + Weight(PostedOf(R), S)
    <3> HIDE DEF R
    <3>1. Weight(PostedOf(R), R) = PostedOf(R)[x] + Weight(PostedOf(R), R \ {x})
      BY <2>1, <2>2, <2>4, WeightAdds
    <3> QED
      BY <3>1, <2>1, <2>4
  <2>6. Weight(PostedOf(R), S) = Weight(PostedOf(S), S)
    <3>1. \A y \in S : PostedOf(R)[y] = PostedOf(S)[y]
      BY DEF PostedOf
    <3>2. Units(PostedOf(R), S) = Units(PostedOf(S), S)
      <4> HIDE DEF R
      <4> QED
        BY <3>1 DEF Units
    <3> QED
      BY <3>2 DEF Weight
  <2> QED
    BY <1>1, <1>3, <2>3, <2>5, <2>6
<1> QED
  BY <1>1, <1>2, <1>3

----------------------------------------------------------------------------
(* Refunds.  What a refund event finds in the ledger and in its row rests  *)
(* on more than IInv: that a captured charge was answered first, so a row  *)
(* is never inserted after its refunds; that Stripe refunds no more than   *)
(* the price; and that the fee a row stores lies within it.                *)

SecretsAreOwn ==
  \A r, s \in Request : reply[s].secret = r => s = r /\ pc[r] = "replied"

CapturedReplied == \A r \in captured \cap Request : pc[r] = "replied"

RefundsWithinPrice ==
  /\ \A c \in Charge : refunded[c] <= Gross(c)
  /\ \A e \in sent : e.type = "charge.refunded" => e.n <= Gross(e.obj)

FeesWithinPrice ==
  \A r \in Request : quote[r] <= Gross(r) /\ row[r].fee <= Gross(r)

Shares(e) == {t \in book : t.key[1] = e /\ t.key[2] # "evt"}
SharesAreLegs ==
  \A r \in Request : \A e \in RefundEvents(r) :
    Shares(e) = IF Visible(r) THEN {t \in RefundLegs(r, e) : t.amount > 0}
                ELSE {}

RefundsCounted ==
  \A r \in Request :
    Visible(r) =>
      row[r].refunded = Smaller(Gross(r), RefundTotal(RefundEvents(r)))

RInv ==
  /\ IsFiniteSet(seen)
  /\ SecretsAreOwn
  /\ CapturedReplied
  /\ RefundsWithinPrice
  /\ FeesWithinPrice
  /\ SharesAreLegs
  /\ RefundsCounted

\* Nothing was refunded, seen or booked at the start.
LEMMA RInvInit == Init => RInv
<1> SUFFICES ASSUME Init PROVE RInv
  OBVIOUS
<1>1. IsFiniteSet(seen)
  BY FS_EmptySet DEF Init
<1>2. SecretsAreOwn
  BY ChargesDisjoint DEF Init, SecretsAreOwn, NoReply
<1>3. CapturedReplied
  BY DEF Init, CapturedReplied
<1>4. RefundsWithinPrice
  BY GrossPositive DEF Init, RefundsWithinPrice
<1>5. FeesWithinPrice
  BY GrossPositive DEF Init, FeesWithinPrice, NoRow, Charge
<1>6. SharesAreLegs /\ RefundsCounted
  BY DEF Init, SharesAreLegs, RefundsCounted, RefundEvents, Visible, HasRow, NoRow
<1> QED
  BY <1>1, <1>2, <1>3, <1>4, <1>5, <1>6 DEF RInv

\* A request with refund events was answered before.
LEMMA RefundedReplied ==
  ASSUME TypeOK, IInv, RInv, NEW r \in Request, NEW e \in RefundEvents(r)
  PROVE  pc[r] = "replied" /\ e \in sent
BY DEF TypeOK, IInv, EventsAreEarned, RInv, CapturedReplied, RefundEvents

\* A refund is split by the fee the row stores and nothing else of it.
LEMMA RefundLegsDependOnFee ==
  ASSUME NEW r, NEW e, row'[r].fee = row[r].fee
  PROVE  RefundLegs(r, e)' = RefundLegs(r, e)
BY DEF RefundLegs

\* The conjuncts about the refund events need only these tables, and a row
\* that appears has no refund events yet.
LEMMA RInvTablesKept ==
  ASSUME TypeOK, IInv, RInv, UNCHANGED <<seen, book>>,
         \A r \in Request : RefundEvents(r) # {} => row'[r] = row[r],
         \A r \in Request : Visible(r)' /\ ~ Visible(r) => row'[r].refunded = 0,
         \A r \in Request : Visible(r) => row'[r] = row[r]
  PROVE  (IsFiniteSet(seen) /\ SharesAreLegs /\ RefundsCounted)'
<1>1. \A r \in Request : RefundEvents(r)' = RefundEvents(r)
  BY DEF RefundEvents
<1>2. IsFiniteSet(seen)'
  BY DEF RInv
<1>3. SharesAreLegs'
  <2> SUFFICES ASSUME NEW r \in Request, NEW e \in RefundEvents(r)'
               PROVE  Shares(e)' = IF Visible(r)'
                                   THEN {t \in RefundLegs(r, e)' : t.amount > 0}
                                   ELSE {}
    BY DEF SharesAreLegs
  <2>1. e \in RefundEvents(r) /\ row'[r] = row[r]
    BY <1>1
  <2>2. Visible(r)' <=> Visible(r)
    BY <2>1 DEF Visible, HasRow
  <2>3. RefundLegs(r, e)' = RefundLegs(r, e)
    BY <2>1, RefundLegsDependOnFee
  <2>4. Shares(e)' = Shares(e)
    BY DEF Shares
  <2> QED
    BY <2>1, <2>2, <2>3, <2>4 DEF RInv, SharesAreLegs
<1>4. RefundsCounted'
  <2> SUFFICES ASSUME NEW r \in Request, Visible(r)'
               PROVE  row'[r].refunded =
                        Smaller(Gross(r), RefundTotal(RefundEvents(r)'))
    BY DEF RefundsCounted
  <2>1. CASE Visible(r)
    BY <1>1, <2>1 DEF RInv, RefundsCounted
  <2>2. CASE ~ Visible(r)
    <3>1. RefundEvents(r) = {} /\ row'[r].refunded = 0
      BY <2>2 DEF Visible, HasRow
    <3>2. RefundTotal({}) = 0
      BY FS_EmptySet, RefundTotalAdds
    <3> QED
      BY <1>1, <3>1, <3>2, GrossPositive DEF Smaller, Charge
  <2> QED
    BY <2>1, <2>2
<1> QED
  BY <1>2, <1>3, <1>4

\* A request that inserts its row has not been answered yet.
LEMMA RInvRequestStep ==
  ASSUME TypeOK, IInv, RInv, NEW r \in Request, RequestStep(r)
  PROVE  RInv'
<1>1. /\ UNCHANGED <<seen, book, captured, refunded, sent>>
      /\ \A s \in Request : pc[s] = "replied" => pc'[s] = "replied" /\ s # r
  BY DEF RequestStep, CheckRequest, RequireOnboardedCreator, CreateIntent,
         InsertRow, Crash, stripeVars, webhookVars, TypeOK
<1>2. \/ UNCHANGED row
      \/ /\ pc[r] = "intent"
         /\ row' = [row EXCEPT ![r] = [status |-> "pending", fee |-> quote[r],
                                       refunded |-> 0, completed_at |-> "null"]]
  BY DEF RequestStep, CheckRequest, RequireOnboardedCreator, CreateIntent,
         InsertRow, Crash
<1>3. \/ UNCHANGED reply
      \/ \E s \in Request : reply' = [reply EXCEPT ![r] = [row |-> s, secret |-> Nobody]]
      \/ /\ pc'[r] = "replied"
         /\ \E s \in Request : reply' = [reply EXCEPT ![r] = [row |-> s, secret |-> r]]
  BY DEF RequestStep, CheckRequest, RequireOnboardedCreator, CreateIntent,
         InsertRow, Crash, Winner, TypeOK
<1>4. \/ UNCHANGED quote
      \/ \E rate \in TakeRate :
           quote' = [quote EXCEPT ![r] = PlatformFee(Gross(r), rate)]
  BY DEF RequestStep, CheckRequest, RequireOnboardedCreator, CreateIntent,
         InsertRow, Crash
<1>5. Gross(r) \in Nat /\ Gross(r) > 0
  BY GrossPositive DEF Charge
<1>6. SecretsAreOwn'
  BY <1>1, <1>3, ChargesDisjoint DEF RInv, SecretsAreOwn, TypeOK
<1>7. CapturedReplied'
  BY <1>1 DEF RInv, CapturedReplied
<1>8. RefundsWithinPrice'
  BY <1>1 DEF RInv, RefundsWithinPrice
<1>9. FeesWithinPrice'
  <2>1. \A s \in Request : quote'[s] <= Gross(s)
    <3>1. ASSUME NEW rate \in TakeRate
          PROVE  PlatformFee(Gross(r), rate) <= Gross(r)
      <4>1. PlatformFee(Gross(r), rate) \in 0 .. Gross(r)
        BY <1>5, SplitConserves, TakeRateIsPercent
      <4> QED
        BY <1>5, <4>1
    <3> QED
      BY <1>4, <3>1 DEF RInv, FeesWithinPrice, TypeOK
  <2>2. \A s \in Request : row'[s].fee <= Gross(s)
    BY <1>2 DEF RInv, FeesWithinPrice, TypeOK
  <2> QED
    BY <2>1, <2>2 DEF FeesWithinPrice
<1>10. (IsFiniteSet(seen) /\ SharesAreLegs /\ RefundsCounted)'
  <2>1. \A s \in Request : RefundEvents(s) # {} => row'[s] = row[s]
    BY <1>1, <1>2, RefundedReplied DEF TypeOK
  <2>2. \A s \in Request : Visible(s) => row'[s] = row[s]
    BY <1>2 DEF TypeOK, IInv, UnrepliedHasNoRow, Visible, HasRow, NoRow
  <2>3. \A s \in Request : Visible(s)' /\ ~ Visible(s) => row'[s].refunded = 0
    BY <1>2 DEF TypeOK, Visible, HasRow
  <2> QED
    BY <1>1, <2>1, <2>2, <2>3, RInvTablesKept
<1> QED
  BY <1>6, <1>7, <1>8, <1>9, <1>10 DEF RInv

\* Stripe captures only what somebody holds the secret of, and refunds no more
\* than was captured.
LEMMA RInvStripeStep ==
  ASSUME TypeOK, IInv, RInv, StripeStep
  PROVE  RInv'
<1>1. UNCHANGED <<pc, quote, reply, row, seen, book>>
  BY DEF StripeStep, PaymentSucceeds, PaymentFails, InvoicePaid, RefundCharge,
         Delist, DisableCharges, requestVars, webhookVars, stripeVars
<1>2. SecretsAreOwn' /\ FeesWithinPrice'
  BY <1>1 DEF RInv, SecretsAreOwn, FeesWithinPrice
<1>3. CapturedReplied'
  <2>1. ASSUME NEW r \in Request, PaymentSucceeds(r) PROVE CapturedReplied'
    BY <1>1, <2>1 DEF PaymentSucceeds, HoldsSecret, RInv, SecretsAreOwn,
                      CapturedReplied
  <2>2. ASSUME NEW i \in Invoice, InvoicePaid(i) PROVE CapturedReplied'
    BY <1>1, <2>2, ChargesDisjoint DEF InvoicePaid, RInv, CapturedReplied
  <2>3. CASE UNCHANGED captured
    BY <1>1, <2>3 DEF RInv, CapturedReplied
  <2> QED
    BY <2>1, <2>2, <2>3 DEF StripeStep, PaymentFails, RefundCharge, Delist,
                            DisableCharges, stripeVars
<1>4. RefundsWithinPrice'
  <2>1. ASSUME NEW c \in Charge, RefundCharge(c) PROVE RefundsWithinPrice'
    BY <2>1 DEF RefundCharge, Emit, RInv, RefundsWithinPrice, TypeOK
  <2>2. CASE /\ UNCHANGED refunded
             /\ \A e \in sent' : e \in sent \/ e.type # "charge.refunded"
    BY <2>2 DEF RInv, RefundsWithinPrice
  <2> QED
    BY <2>1, <2>2 DEF StripeStep, PaymentSucceeds, PaymentFails, InvoicePaid,
                      Emit, Delist, DisableCharges, stripeVars
<1>5. (IsFiniteSet(seen) /\ SharesAreLegs /\ RefundsCounted)'
  BY <1>1, RInvTablesKept DEF Visible, HasRow
<1> QED
  BY <1>2, <1>3, <1>4, <1>5 DEF RInv

\* Adding up, with a cap at the price.
LEMMA CapAdds ==
  ASSUME NEW g \in Nat, NEW a \in Nat, NEW b \in Nat
  PROVE  Smaller(Smaller(g, a) + b, g) = Smaller(g, a + b)
BY DEF Smaller

\* mark_purchase_refunded adds the amount of a fresh event to the row.
LEMMA DeliverCounts ==
  ASSUME TypeOK, IInv, RInv, NEW e \in sent, Fresh(e), Deliver(e)
  PROVE  RefundsCounted'
<1> SUFFICES ASSUME NEW r \in Request, Visible(r)'
             PROVE  row'[r].refunded =
                      Smaller(Gross(r), RefundTotal(RefundEvents(r)'))
  BY DEF RefundsCounted
<1>1. /\ seen' = seen \cup {e} /\ Visible(r) /\ row[r] \in Row
      /\ Gross(r) \in Nat
  BY DeliverFields, GrossPositive DEF Deliver, Visible, HasRow, TypeOK, Charge
<1>2. row[r].refunded = Smaller(Gross(r), RefundTotal(RefundEvents(r)))
  BY <1>1 DEF RInv, RefundsCounted
<1>3. CASE e.type = "charge.refunded" /\ e.obj = r
  <2>1. RefundEvents(r)' = RefundEvents(r) \cup {e} /\ e \notin RefundEvents(r)
    BY <1>1, <1>3 DEF RefundEvents, Fresh
  <2>2. /\ IsFiniteSet(RefundEvents(r))
        /\ \A x \in RefundEvents(r) : x.n \in Nat
        /\ e.n \in Nat
    <3>1. RefundEvents(r) \in SUBSET seen
      BY DEF RefundEvents
    <3>2. IsFiniteSet(RefundEvents(r))
      BY <3>1, FS_Subset DEF RInv
    <3> QED
      BY <3>1, <3>2 DEF TypeOK, Event
  <2>3. /\ RefundTotal(RefundEvents(r)) \in Nat
        /\ RefundTotal(RefundEvents(r)') = RefundTotal(RefundEvents(r)) + e.n
    BY <2>1, <2>2, RefundTotalAdds
  <2>4. row' = [row EXCEPT ![r] = RefundedRow(r, e.n)]
    BY <1>1, <1>3 DEF Deliver, Fresh, Dispatch, HandleChargeRefunded
  <2>5. row'[r].refunded = Smaller(row[r].refunded + e.n, Gross(r))
    BY <1>1, <2>4 DEF RefundedRow, Row, TypeOK
  <2> DEFINE total == RefundTotal(RefundEvents(r))
  <2>6. Smaller(Smaller(Gross(r), total) + e.n, Gross(r))
          = Smaller(Gross(r), total + e.n)
    BY <1>1, <2>2, <2>3, CapAdds
  <2> QED
    BY <1>2, <2>3, <2>5, <2>6
<1>4. CASE ~ (e.type = "charge.refunded" /\ e.obj = r)
  <2>1. RefundEvents(r)' = RefundEvents(r)
    BY <1>1, <1>4 DEF RefundEvents
  <2>2. row'[r].refunded = row[r].refunded
    BY <1>1, <1>4, DeliverOneRow DEF Row
  <2> QED
    BY <1>2, <2>1, <2>2
<1> QED
  BY <1>3, <1>4

\* A fresh refund finds none of its transactions in the ledger, so it posts both.
LEMMA DeliverShares ==
  ASSUME TypeOK, IInv, RInv, NEW e \in sent, Fresh(e), Deliver(e)
  PROVE  SharesAreLegs'
<1> SUFFICES ASSUME NEW r \in Request, NEW d \in RefundEvents(r)'
             PROVE  Shares(d)' = IF Visible(r)'
                                 THEN {t \in RefundLegs(r, d)' : t.amount > 0}
                                 ELSE {}
  BY DEF SharesAreLegs
<1>1. /\ seen' = seen \cup {e}
      /\ Visible(r)' <=> Visible(r)
      /\ RefundLegs(r, d)' = RefundLegs(r, d)
  BY DeliverFields, RefundLegsDependOnFee DEF Deliver, Visible, HasRow
<1>2. CASE d # e
  <2>1. d \in RefundEvents(r)
    BY <1>1, <1>2 DEF RefundEvents
  <2>2. Shares(d)' = Shares(d)
    BY <1>2, DeliverAdds DEF Shares
  <2> QED
    BY <1>1, <2>1, <2>2 DEF RInv, SharesAreLegs
<1>3. CASE d = e
  <2> DEFINE reversed == PostDoubleEntry(book, SubscriptionRefundLeg(e))
             legs == RefundLegs(r, e)
  <2>1. e.type = "charge.refunded" /\ e.obj = r
    BY <1>3 DEF RefundEvents
  <2>2. \A t \in book : t.key[1] # e
    BY DEF IInv, LedgerComesFromSeen, Fresh
  <2>3. /\ book \subseteq reversed
        /\ \A t \in reversed : t.key[1] = e => t.key = <<e, "evt">>
    BY <2>2 DEF PostDoubleEntry, SubscriptionRefundLeg, Transaction
  <2>4. \A t \in legs : t.key \in {<<e, "fee">>, <<e, "creator">>}
    BY LegKeys
  <2>5. HandleChargeRefunded(e)
    BY <2>1 DEF Deliver, Fresh, Dispatch
  <2>6. CASE ~ Visible(r)
    <3>1. book' = reversed
      BY <2>1, <2>5, <2>6 DEF HandleChargeRefunded
    <3> HIDE DEF reversed
    <3> QED
      BY <1>1, <1>3, <2>3, <2>6, <3>1 DEF Shares
  <2>7. CASE Visible(r)
    <3>1. book' = PostDoubleEntry(reversed, legs)
      BY <2>1, <2>5, <2>7 DEF HandleChargeRefunded
    <3> HIDE DEF reversed, legs
    <3>2. \A t \in legs : ~ Posted(reversed, t.key)
      BY <2>3, <2>4 DEF Posted
    <3>3. book' = reversed \cup {t \in legs : t.amount > 0}
      BY <3>1, <3>2 DEF PostDoubleEntry
    <3>4. Shares(e)' = {t \in legs : t.amount > 0}
      BY <2>3, <2>4, <3>3 DEF Shares
    <3> QED
      BY <1>1, <1>3, <2>7, <3>4 DEF legs
  <2> QED
    BY <2>6, <2>7
<1> QED
  BY <1>2, <1>3

\* A delivery, fresh or replayed.
LEMMA RInvDeliver ==
  ASSUME TypeOK, IInv, RInv, NEW e \in sent, Deliver(e)
  PROVE  RInv'
<1>1. /\ UNCHANGED <<pc, quote, reply, captured, refunded, sent>>
      /\ \A r \in Request : row'[r].fee = row[r].fee
  BY DeliverFields DEF Deliver, requestVars, stripeVars
<1>2. SecretsAreOwn' /\ CapturedReplied' /\ RefundsWithinPrice' /\ FeesWithinPrice'
  BY <1>1 DEF RInv, SecretsAreOwn, CapturedReplied, RefundsWithinPrice,
              FeesWithinPrice
<1>3. CASE Fresh(e)
  <2>1. seen' = seen \cup {e}
    BY <1>3 DEF Deliver
  <2>2. IsFiniteSet(seen')
    BY <2>1, FS_AddElement DEF RInv
  <2> QED
    BY <1>2, <1>3, <2>2, DeliverCounts, DeliverShares DEF RInv
<1>4. CASE ~ Fresh(e)
  <2>1. UNCHANGED <<seen, row, book>>
    BY <1>4 DEF Deliver
  <2> QED
    BY <1>2, <2>1, RInvTablesKept DEF RInv, Visible, HasRow
<1> QED
  BY <1>3, <1>4

\* The invariant of the refunds holds throughout.
THEOREM RefundsInductive == Spec => []RInv
<1>1. Init => RInv
  BY RInvInit
<1>2. TypeOK /\ IInv /\ RInv /\ [Next]_vars => RInv'
  <2> SUFFICES ASSUME TypeOK, IInv, RInv, [Next]_vars PROVE RInv'
    OBVIOUS
  <2>1. CASE UNCHANGED vars
    <3>1. UNCHANGED <<pc, quote, reply, row, captured, refunded, sent, seen, book>>
      BY <2>1 DEF vars, requestVars, stripeVars, webhookVars
    <3>2. (IsFiniteSet(seen) /\ SharesAreLegs /\ RefundsCounted)'
      BY <3>1, RInvTablesKept DEF Visible, HasRow
    <3> QED
      BY <3>1, <3>2 DEF RInv, SecretsAreOwn, CapturedReplied,
                        RefundsWithinPrice, FeesWithinPrice
  <2> QED
    BY <2>1, RInvRequestStep, RInvStripeStep, RInvDeliver DEF Next
<1> QED
  BY <1>1, <1>2, TypeCorrect, Inductive, PTL DEF Spec

\* mark_purchase_refunded counts each charge.refunded event once, whatever is
\* redelivered and in whatever order: the amount in the row is the sum of the
\* events processed, up to the price.
THEOREM RefundsCountedOnceHolds == Spec => []RefundsCountedOnce
<1>1. RInv => RefundsCountedOnce
  BY DEF RInv, RefundsCounted, RefundsCountedOnce, RefundTotal, MapThenSumSet,
         MapThenFoldSet
<1> QED
  BY <1>1, RefundsInductive, PTL

\* The share q of a refund of n out of a price g with a fee f.
LEMMA ShareBounds ==
  ASSUME NEW g \in Nat \ {0}, NEW f \in 0..g, NEW n \in 0..g
  PROVE  LET q == (n * f) \div g
         IN  /\ q \in Nat /\ n - q \in Nat
             /\ q <= f /\ n - q <= g - f
<1> DEFINE q == (n * f) \div g
<1>1. n * f \in Nat
  OBVIOUS
<1>2. q \in Nat /\ q * g <= n * f /\ n * f < (q + 1) * g
  <2> DEFINE m == n * f
  <2>1. m \in Nat
    BY <1>1
  <2> HIDE DEF m
  <2>2. /\ m \div g \in Nat /\ (m \div g) * g <= m
        /\ m < (m \div g + 1) * g
    BY <2>1
  <2> QED
    BY <2>2 DEF m
<1>3. n * f <= g * f /\ n * f <= n * g
  OBVIOUS
<1>4. (g - n) * (g - f) >= 0
  OBVIOUS
<1>5. (g - n) * (g - f) = g * g - g * f - n * g + n * f
  OBVIOUS
<1> HIDE DEF q
<1>6. q <= f
  BY <1>2, <1>3
<1>7. q <= n
  BY <1>2, <1>3
<1>8. n + f - g < q + 1
  BY <1>2, <1>4, <1>5
<1> QED
  BY <1>2, <1>6, <1>7, <1>8 DEF q

\* The two transactions of a refund split its amount within what the sale gave.
LEMMA SharesBounded ==
  ASSUME TypeOK, IInv, RInv
  PROVE  RefundSharesBounded
<1> SUFFICES ASSUME NEW r \in Request, NEW e \in RefundEvents(r)
             PROVE  /\ \A t \in Shares(e) :
                         t.amount <= IF t.key[2] = "fee" THEN row[r].fee
                                     ELSE CreatorNet(r)
                    /\ Visible(r) => PostedTotal(Shares(e)) = e.n
  BY DEF RefundSharesBounded, Shares, PostedTotal, MapThenSumSet, MapThenFoldSet
<1> DEFINE g == Gross(r)
           f == row[r].fee
           q == (e.n * f) \div g
           feeLeg == Transaction(<<e, "fee">>, MarketplaceFeeRevenue,
                                 StripeBalance, q)
           netLeg == Transaction(<<e, "creator">>,
                                 CreatorPayable(Creator(Listing(r))),
                                 StripeBalance, e.n - q)
<1>1. /\ g \in Nat \ {0} /\ f \in 0..g /\ e.n \in 0..g /\ e.n > 0
  <2>1. g \in Nat /\ g > 0 /\ e \in Event /\ row[r] \in Row
    BY GrossPositive DEF Charge, TypeOK, RefundEvents
  <2>2. f <= g /\ e.n <= g /\ e.n > 0
    BY DEF RInv, FeesWithinPrice, RefundsWithinPrice, RefundEvents, TypeOK,
           IInv, EventsAreEarned
  <2> QED
    BY <2>1, <2>2 DEF Event, Row
<1>2. q \in Nat /\ e.n - q \in Nat /\ q <= f /\ e.n - q <= g - f
  <2> HIDE DEF g, f
  <2> QED
    BY <1>1, ShareBounds
<1>3. Shares(e) = IF Visible(r) THEN {t \in {feeLeg, netLeg} : t.amount > 0}
                  ELSE {}
  BY DEF RInv, SharesAreLegs, RefundLegs
<1>4. /\ feeLeg.amount = q /\ feeLeg.key = <<e, "fee">>
      /\ netLeg.amount = e.n - q /\ netLeg.key = <<e, "creator">>
      /\ feeLeg # netLeg
  BY DEF Transaction
<1>5. CreatorNet(r) = g - f
  BY DEF CreatorNet
<1>6. \A t \in Shares(e) :
        t.amount <= IF t.key[2] = "fee" THEN row[r].fee ELSE CreatorNet(r)
  <2> HIDE DEF g, q, feeLeg, netLeg
  <2> QED
    BY <1>2, <1>3, <1>4, <1>5
<1>7. ASSUME Visible(r) PROVE PostedTotal(Shares(e)) = e.n
  <2> HIDE DEF g, f, q, feeLeg, netLeg
  <2>1. PostedTotal({}) = 0
    BY FS_EmptySet, PostedTotalAdds
  <2>2. ASSUME NEW t, t.amount \in Nat
        PROVE  IsFiniteSet({t}) /\ PostedTotal({t}) = t.amount
    <3>1. {} \cup {t} = {t} /\ IsFiniteSet({})
      BY FS_EmptySet
    <3>2. PostedTotal({} \cup {t}) = 0 + t.amount
      BY <2>1, <2>2, <3>1, PostedTotalAdds
    <3>3. PostedTotal({t}) = 0 + t.amount
      BY <3>1, <3>2
    <3>4. 0 + t.amount = t.amount
      BY <2>2
    <3> QED
      BY <3>3, <3>4, FS_Singleton
  <2>3. PostedTotal({feeLeg, netLeg}) = feeLeg.amount + netLeg.amount
    <3>1. {feeLeg} \cup {netLeg} = {feeLeg, netLeg} /\ netLeg \notin {feeLeg}
      BY <1>4
    <3>2. /\ feeLeg.amount \in Nat /\ netLeg.amount \in Nat
          /\ \A t \in {feeLeg} : t.amount \in Nat
      BY <1>2, <1>4
    <3>3. IsFiniteSet({feeLeg}) /\ PostedTotal({feeLeg}) = feeLeg.amount
      BY <2>2, <3>2
    <3>4. PostedTotal({feeLeg} \cup {netLeg})
            = PostedTotal({feeLeg}) + netLeg.amount
      BY <3>1, <3>2, <3>3, PostedTotalAdds
    <3> QED
      BY <3>1, <3>3, <3>4
  <2>4. CASE q > 0 /\ e.n - q > 0
    BY <1>1, <1>2, <1>3, <1>4, <1>7, <2>3, <2>4
  <2>5. CASE ~ q > 0
    <3>1. Shares(e) = {netLeg} /\ netLeg.amount = e.n
      BY <1>1, <1>2, <1>3, <1>4, <1>7, <2>5
    <3> QED
      BY <1>1, <2>2, <3>1
  <2>6. CASE ~ e.n - q > 0
    <3>1. Shares(e) = {feeLeg} /\ feeLeg.amount = e.n
      BY <1>1, <1>2, <1>3, <1>4, <1>7, <2>6
    <3> QED
      BY <1>1, <2>2, <3>1
  <2> QED
    BY <2>4, <2>5, <2>6
<1> QED
  BY <1>6, <1>7

\* The reversal of a refund (commerce/webhook.py) takes back its whole amount, and
\* neither from the platform nor from the creator more than the sale gave them.
THEOREM RefundSharesBoundedHolds == Spec => []RefundSharesBounded
<1>1. TypeOK /\ IInv /\ RInv => RefundSharesBounded
  BY SharesBounded
<1> QED
  BY <1>1, TypeCorrect, Inductive, RefundsInductive, PTL

----------------------------------------------------------------------------
(* The purchase implements its lifecycle. *)

LEMMA LifecycleStutters ==
  ASSUME TypeOK, UNCHANGED row, captured' \cap Request = captured \cap Request
  PROVE  UNCHANGED Lifecycle!vars
BY DEF Lifecycle!vars

LEMMA LifecycleRequestStep ==
  ASSUME TypeOK, IInv, NEW r \in Request, RequestStep(r)
  PROVE  [Lifecycle!Next]_(Lifecycle!vars)
<1>1. captured' = captured
  BY DEF RequestStep, CheckRequest, RequireOnboardedCreator, CreateIntent,
         InsertRow, Crash, stripeVars
<1>2. CASE UNCHANGED row
  BY <1>1, <1>2, LifecycleStutters
<1>3. CASE ~ UNCHANGED row
  <2>1. /\ pc[r] = "intent"
        /\ row' = [row EXCEPT ![r] = [status |-> "pending", fee |-> quote[r],
                                      refunded |-> 0, completed_at |-> "null"]]
    BY <1>3 DEF RequestStep, CheckRequest, RequireOnboardedCreator,
                CreateIntent, InsertRow, Crash
  <2>2. row[r] = NoRow
    BY <2>1 DEF IInv, UnrepliedHasNoRow
  <2>3. [s \in Request |-> row[s].status]'
          = [[s \in Request |-> row[s].status] EXCEPT ![r] = "pending"]
    BY <2>1 DEF TypeOK
  <2>4. {s \in Request : row[s].completed_at = "set"}'
          = {s \in Request : row[s].completed_at = "set"}
    BY <2>1, <2>2 DEF NoRow, TypeOK
  <2>5. Lifecycle!Record(r)
    BY <1>1, <2>2, <2>3, <2>4 DEF Lifecycle!Record, NoRow
  <2> QED
    BY <2>5 DEF Lifecycle!Next
<1> QED
  BY <1>2, <1>3

LEMMA LifecycleStripeStep ==
  ASSUME TypeOK, StripeStep
  PROVE  [Lifecycle!Next]_(Lifecycle!vars)
<1>1. row' = row
  BY DEF StripeStep, PaymentSucceeds, PaymentFails, InvoicePaid, RefundCharge,
         Delist, DisableCharges
<1>2. ASSUME NEW r \in Request, PaymentSucceeds(r)
      PROVE  Lifecycle!Pay(r)
  BY <1>1, <1>2 DEF PaymentSucceeds, Lifecycle!Pay
<1>3. CASE captured' \cap Request = captured \cap Request
  BY <1>1, <1>3, LifecycleStutters
<1>4. ASSUME NEW i \in Invoice, InvoicePaid(i)
      PROVE  captured' \cap Request = captured \cap Request
  BY <1>4, ChargesDisjoint DEF InvoicePaid
<1> QED
  BY <1>2, <1>3, <1>4
  DEF StripeStep, PaymentFails, RefundCharge, Delist, DisableCharges,
      stripeVars, Lifecycle!Next

LEMMA LifecycleDeliver ==
  ASSUME TypeOK, IInv, NEW e \in sent, Deliver(e)
  PROVE  [Lifecycle!Next]_(Lifecycle!vars)
<1> DEFINE r == e.obj
<1>1. captured' = captured /\ row \in [Request -> Row]
  BY DEF Deliver, stripeVars, TypeOK
<1>2. CASE UNCHANGED row
  BY <1>1, <1>2, LifecycleStutters
<1>3. CASE /\ Visible(r)
           /\ row[r].status \in {"pending", "completed"}
           /\ e.type = "payment_intent.succeeded"
           /\ ~ UNCHANGED row
           /\ row' = [row EXCEPT ![r].status = "completed",
                                 ![r].completed_at = "set"]
  <2>1. Fresh(e)
    BY <1>3 DEF Deliver
  <2>2. r \in Request /\ row[r].completed_at # "set"
    BY <1>3, <2>1, FreshSale
  <2>3. row[r].status = "pending" /\ r \in captured
    BY <1>3, <2>2 DEF IInv, CompletedWasSeen, EventsAreEarned
  <2>4. Lifecycle!Settle(r)
    BY <1>1, <1>3, <2>2, <2>3 DEF Lifecycle!Settle, Row
  <2> QED
    BY <2>2, <2>4 DEF Lifecycle!Next
<1>4. CASE /\ Visible(r)
           /\ row[r].status = "pending"
           /\ row' = [row EXCEPT ![r].status = "failed"]
  <2>1. Lifecycle!Fail(r)
    BY <1>1, <1>4 DEF Lifecycle!Fail, Visible, Row
  <2> QED
    BY <1>4, <2>1 DEF Lifecycle!Next, Visible
<1>5. CASE /\ Visible(r)
           /\ e.type = "charge.refunded"
           /\ row' = [row EXCEPT ![r] = RefundedRow(r, e.n)]
  <2>1. /\ r \in Request /\ r \in captured /\ row[r] \in Row
        /\ row[r].status \in {"pending", "completed", "failed", "refunded"}
    BY <1>1, <1>5 DEF Visible, HasRow, IInv, EventsAreEarned, Row, Status
  <2>2. /\ RefundedRow(r, e.n).completed_at = row[r].completed_at
        /\ RefundedRow(r, e.n).status \in {"refunded", row[r].status}
    BY <2>1 DEF RefundedRow, Row
  <2>3. CASE row'[r].status = row[r].status
    <3>1. [s \in Request |-> row[s].status]' = [s \in Request |-> row[s].status]
      BY <1>1, <1>5, <2>3
    <3>2. {s \in Request : row[s].completed_at = "set"}'
            = {s \in Request : row[s].completed_at = "set"}
      BY <1>1, <1>5, <2>1, <2>2
    <3> QED
      BY <1>1, <3>1, <3>2 DEF Lifecycle!vars
  <2>4. CASE row'[r].status # row[r].status
    <3>1. row'[r].status = "refunded" /\ row[r].status # "refunded"
      BY <1>1, <1>5, <2>1, <2>2, <2>4
    <3>2. [s \in Request |-> row[s].status]'
            = [[s \in Request |-> row[s].status] EXCEPT ![r] = "refunded"]
      BY <1>1, <1>5, <2>1, <3>1
    <3>3. {s \in Request : row[s].completed_at = "set"}'
            = {s \in Request : row[s].completed_at = "set"}
      BY <1>1, <1>5, <2>1, <2>2
    <3>4. Lifecycle!Refund(r)
      BY <1>1, <2>1, <3>1, <3>2, <3>3 DEF Lifecycle!Refund
    <3> QED
      BY <2>1, <3>4 DEF Lifecycle!Next
  <2> QED
    BY <2>3, <2>4
<1> QED
  BY <1>2, <1>3, <1>4, <1>5, DeliverRow

\* Every behaviour of the purchase code is one of PurchaseLifecycle: a row is
\* recorded once, credited at most once and only for a captured payment in the
\* step that completes it, and no event moves it out of a final status.
THEOREM KeepsLifecycleHolds == Spec => KeepsLifecycle
<1>1. Init => Lifecycle!Init
  BY DEF Init, Lifecycle!Init, NoRow
<1>2. TypeOK /\ IInv /\ [Next]_vars => [Lifecycle!Next]_(Lifecycle!vars)
  <2> SUFFICES ASSUME TypeOK, IInv, [Next]_vars
               PROVE  [Lifecycle!Next]_(Lifecycle!vars)
    OBVIOUS
  <2>1. CASE UNCHANGED vars
    BY <2>1, LifecycleStutters DEF vars, stripeVars
  <2> QED
    BY <2>1, LifecycleRequestStep, LifecycleStripeStep, LifecycleDeliver DEF Next
<1> QED
  BY <1>1, <1>2, TypeCorrect, Inductive, PTL
  DEF Spec, KeepsLifecycle, Lifecycle!Spec
=============================================================================
