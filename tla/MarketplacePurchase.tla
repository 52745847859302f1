------------------------ MODULE MarketplacePurchase ------------------------
(***************************************************************************)
(* Marketplace purchases from the buyer's request to the ledger:           *)
(*   - create_purchase_intent (commerce/purchase.py), whose steps are the  *)
(*     database transactions and the Stripe call it is made of;            *)
(*   - process_stripe_webhook (billing/webhook.py) with the commerce hooks *)
(*     (commerce/webhook.py), one transaction per delivery;                *)
(*   - Stripe itself, external: it captures, refunds, and delivers each    *)
(*     event at least once and in any order.                               *)
(* A request, the PaymentIntent it creates and the marketplace_purchase    *)
(* row it inserts share one identity.                                      *)
(***************************************************************************)
EXTENDS Ledger

CONSTANTS
  Request,        \* calls of POST /commerce/purchase
  Invoice,        \* subscription invoices, charged by Stripe on their own
  Buyer(_),       \* the authenticated buyer of a request
  Listing(_),     \* the listing it names
  Key(_),         \* its idempotency_key, or NoKey
  Price(_),       \* pricing_details.amount_cents of a listing
  Creator(_),     \* creator_user_id of a listing
  InvoiceAmount,  \* amount_paid of an invoice
  TakeRate,       \* the percentages resolve_take_rate_percent may return
  RefundStep,     \* the partial amounts an operator refunds at Stripe
  MaxFailures,    \* bound on failed payment attempts of one PaymentIntent
  RowSecurity,    \* whether the application's database role is subject to RLS
  NoKey, Nobody

Charge == Request \cup Invoice
ListingOf == {Listing(r) : r \in Request}
CreatorOf == {Creator(l) : l \in ListingOf}

ASSUME ChargesDisjoint == Request \cap Invoice = {} /\ Nobody \notin Request
ASSUME PricesPositive == \A r \in Request : Price(Listing(r)) \in Nat \ {0}
ASSUME InvoicePositive == InvoiceAmount \in Nat \ {0}
ASSUME TakeRateIsPercent == TakeRate \subseteq 0..100
ASSUME RefundStepPositive == RefundStep \subseteq Nat \ {0}
ASSUME MaxFailuresNat == MaxFailures \in Nat
ASSUME RowSecurityBoolean == RowSecurity \in BOOLEAN

VARIABLES
  listed,     \* listings published and not archived
  onboarded,  \* creators whose creator_connect_account.charges_enabled is set
  pc,         \* where each request is in create_purchase_intent
  quote,      \* the platform fee each request computed
  reply,      \* what its caller was answered: the row, and whose secret
  row,        \* table marketplace_purchase
  captured,   \* external: charges Stripe has captured
  failures,   \* external: failed attempts per PaymentIntent
  refunded,   \* external: Stripe's cumulative amount_refunded per charge
  sent,       \* external: the events Stripe has emitted
  seen,       \* table subscription_event
  book        \* tables billing_ledger_transaction / _entry

requestVars == <<pc, quote, reply>>
stripeVars == <<captured, failures, refunded, sent>>
webhookVars == <<seen, book>>
gateVars == <<listed, onboarded>>
vars == <<requestVars, row, stripeVars, webhookVars, gateVars>>

----------------------------------------------------------------------------
(* The revenue split, commerce/revenue_split.py. *)

MinFee == 50
MinFeeCeiling == 250

Smaller(a, b) == IF a <= b THEN a ELSE b

PlatformFee(gross, rate) ==
  LET fee == (gross * rate) \div 100
  IN  IF gross < MinFeeCeiling /\ fee < MinFee /\ gross > 0
      THEN Smaller(MinFee, gross)
      ELSE fee

Gross(c) == IF c \in Request THEN Price(Listing(c)) ELSE InvoiceAmount
CreatorNet(r) == Gross(r) - row[r].fee

----------------------------------------------------------------------------
(* Types. *)

PC == {"new", "checked", "gated", "intent", "replied", "rejected", "crashed"}
Status == {"absent", "pending", "completed", "refunded", "failed"}
EventType == {"payment_intent.succeeded", "payment_intent.payment_failed",
              "charge.refunded", "invoice.paid"}

\* n tells the events of one charge apart: the attempt that failed, or the
\* cumulative amount_refunded a refund event carries.
Event == [type : EventType, obj : Charge, n : Nat]
Row == [status : Status, fee : Nat, refunded : Nat,
        completed_at : {"null", "set"}]
NoRow == [status |-> "absent", fee |-> 0, refunded |-> 0,
          completed_at |-> "null"]
NoReply == [row |-> Nobody, secret |-> Nobody]

HasRow(r) == row[r].status # "absent"

TypeOK ==
  /\ listed \subseteq ListingOf
  /\ onboarded \subseteq CreatorOf
  /\ pc \in [Request -> PC]
  /\ quote \in [Request -> Nat]
  /\ reply \in [Request -> [row : Request \cup {Nobody},
                            secret : Request \cup {Nobody}]]
  /\ row \in [Request -> Row]
  /\ captured \subseteq Charge
  /\ failures \in [Request -> Nat]
  /\ refunded \in [Charge -> Nat]
  /\ sent \subseteq Event
  /\ seen \subseteq sent
  /\ \A t \in book : t.key \in Event \X {"evt", "fee", "creator"}

Init ==
  /\ listed = ListingOf
  /\ onboarded = CreatorOf
  /\ pc = [r \in Request |-> "new"]
  /\ quote = [r \in Request |-> 0]
  /\ reply = [r \in Request |-> NoReply]
  /\ row = [r \in Request |-> NoRow]
  /\ captured = {}
  /\ failures = [r \in Request |-> 0]
  /\ refunded = [c \in Charge |-> 0]
  /\ sent = {}
  /\ seen = {}
  /\ book = {}

----------------------------------------------------------------------------
(* create_purchase_intent. *)

\* UNIQUE (buyer_user_id, idempotency_key); a NULL key never conflicts.
SameKey(r, s) == Buyer(r) = Buyer(s) /\ Key(r) = Key(s) /\ Key(r) # NoKey
Winner(r) == {s \in Request : HasRow(s) /\ SameKey(s, r)}

Purchasable(r) ==
  /\ Listing(r) \in listed
  /\ Creator(Listing(r)) # Buyer(r)

\* First transaction: a replay of a stored key is answered with the stored row
\* and no client_secret; otherwise the listing is validated.
CheckRequest(r) ==
  /\ pc[r] = "new"
  /\ \/ \E s \in Winner(r) :
          /\ pc' = [pc EXCEPT ![r] = "replied"]
          /\ reply' = [reply EXCEPT ![r] = [row |-> s, secret |-> Nobody]]
     \/ /\ Winner(r) = {}
        /\ pc' = [pc EXCEPT ![r] =
                    IF Purchasable(r) THEN "checked" ELSE "rejected"]
        /\ UNCHANGED reply
  /\ UNCHANGED <<quote, row, stripeVars, webhookVars, gateVars>>

\* require_onboarded_creator reads the Connect mirror in a transaction of its
\* own.
RequireOnboardedCreator(r) ==
  /\ pc[r] = "checked"
  /\ pc' = [pc EXCEPT ![r] = IF Creator(Listing(r)) \in onboarded
                             THEN "gated" ELSE "rejected"]
  /\ UNCHANGED <<quote, reply, row, stripeVars, webhookVars, gateVars>>

\* The take rate is resolved, the split computed and the PaymentIntent
\* created at Stripe, which may refuse.
CreateIntent(r) ==
  /\ pc[r] = "gated"
  /\ \/ \E rate \in TakeRate :
          /\ quote' = [quote EXCEPT ![r] = PlatformFee(Gross(r), rate)]
          /\ pc' = [pc EXCEPT ![r] = "intent"]
     \/ /\ pc' = [pc EXCEPT ![r] = "rejected"]
        /\ UNCHANGED quote
  /\ UNCHANGED <<reply, row, stripeVars, webhookVars, gateVars>>

\* Mutant: the insert trusts the lookup made before the Stripe call.
InsertRowUnchecked(r) ==
  /\ pc[r] = "intent"
  /\ pc' = [pc EXCEPT ![r] = "replied"]
  /\ row' = [row EXCEPT ![r] = [status |-> "pending", fee |-> quote[r],
                                refunded |-> 0, completed_at |-> "null"]]
  /\ reply' = [reply EXCEPT ![r] = [row |-> r, secret |-> r]]
  /\ UNCHANGED <<quote, stripeVars, webhookVars, gateVars>>

\* Second transaction: INSERT ... ON CONFLICT DO NOTHING, then the winning row
\* is read back.  The response carries this request's own client_secret in
\* both cases.
InsertRow(r) ==
  /\ pc[r] = "intent"
  /\ pc' = [pc EXCEPT ![r] = "replied"]
  /\ \/ /\ Winner(r) = {}
        /\ row' = [row EXCEPT ![r] = [status |-> "pending", fee |-> quote[r],
                                      refunded |-> 0,
                                      completed_at |-> "null"]]
        /\ reply' = [reply EXCEPT ![r] = [row |-> r, secret |-> r]]
     \/ \E s \in Winner(r) :
          /\ reply' = [reply EXCEPT ![r] = [row |-> s, secret |-> r]]
          /\ UNCHANGED row
  /\ UNCHANGED <<quote, stripeVars, webhookVars, gateVars>>

\* The process dies between two steps; nothing resumes the request.
Crash(r) ==
  /\ pc[r] \in {"checked", "gated", "intent"}
  /\ pc' = [pc EXCEPT ![r] = "crashed"]
  /\ UNCHANGED <<quote, reply, row, stripeVars, webhookVars, gateVars>>

----------------------------------------------------------------------------
(* Stripe and the other writers of the gates, external. *)

Emit(type, c, n) == sent' = sent \cup {[type |-> type, obj |-> c, n |-> n]}

\* Only the holder of a client_secret can confirm its PaymentIntent.
HoldsSecret(r) == \E s \in Request : reply[s].secret = r

PaymentSucceeds(r) ==
  /\ HoldsSecret(r)
  /\ r \notin captured
  /\ captured' = captured \cup {r}
  /\ Emit("payment_intent.succeeded", r, 0)
  /\ UNCHANGED <<requestVars, row, failures, refunded, webhookVars, gateVars>>

\* A declined attempt leaves the PaymentIntent open: the buyer may try again.
PaymentFails(r) ==
  /\ HoldsSecret(r)
  /\ r \notin captured
  /\ failures[r] < MaxFailures
  /\ failures' = [failures EXCEPT ![r] = @ + 1]
  /\ Emit("payment_intent.payment_failed", r, failures[r] + 1)
  /\ UNCHANGED <<requestVars, row, captured, refunded, webhookVars, gateVars>>

InvoicePaid(i) ==
  /\ i \notin captured
  /\ captured' = captured \cup {i}
  /\ Emit("invoice.paid", i, 0)
  /\ UNCHANGED <<requestVars, row, failures, refunded, webhookVars, gateVars>>

\* amount_refunded of a charge is cumulative.
RefundCharge(c) ==
  /\ c \in captured
  /\ \E a \in RefundStep :
       /\ refunded[c] + a <= Gross(c)
       /\ refunded' = [refunded EXCEPT ![c] = @ + a]
       /\ Emit("charge.refunded", c, refunded[c] + a)
  /\ UNCHANGED <<requestVars, row, captured, failures, webhookVars, gateVars>>

\* The creator archives or unpublishes the listing.
Delist(l) ==
  /\ l \in listed
  /\ listed' = listed \ {l}
  /\ UNCHANGED <<requestVars, row, stripeVars, webhookVars, onboarded>>

\* Stripe disables the creator's charges and the mirror is synced.
DisableCharges(creator) ==
  /\ creator \in onboarded
  /\ onboarded' = onboarded \ {creator}
  /\ UNCHANGED <<requestVars, row, stripeVars, webhookVars, listed>>

----------------------------------------------------------------------------
(* process_stripe_webhook: the subscription_event insert, the handlers and  *)
(* the ledger posts commit together.                                        *)

\* Mutant: the subscription_event insert does not tell a replay.
FreshAlways(e) == TRUE
Fresh(e) == e \notin seen

PurchaseLegs(r, e) ==
  { Transaction(<<e, "fee">>, StripeBalance, MarketplaceFeeRevenue,
                row[r].fee),
    Transaction(<<e, "creator">>, StripeBalance,
                CreatorPayable(Creator(Listing(r))), CreatorNet(r)) }

\* Mutant: the platform keeps its fee and the creator pays the whole refund.
RefundLegsCreatorPays(r, e) ==
  { Transaction(<<e, "creator">>, CreatorPayable(Creator(Listing(r))),
                StripeBalance, e.n) }

RefundLegs(r, e) ==
  LET fee == (e.n * row[r].fee) \div Gross(r)
  IN  { Transaction(<<e, "fee">>, MarketplaceFeeRevenue, StripeBalance, fee),
        Transaction(<<e, "creator">>, CreatorPayable(Creator(Listing(r))),
                    StripeBalance, e.n - fee) }

SubscriptionPaymentLeg(e, amount) ==
  {Transaction(<<e, "evt">>, StripeBalance, SubscriptionRevenue, amount)}
SubscriptionRefundLeg(e) ==
  {Transaction(<<e, "evt">>, SubscriptionRevenue, StripeBalance, e.n)}

\* UPDATE ... WHERE payment_intent_id = $1 finds no row for a charge that is
\* not a marketplace purchase.  The webhook's connection has no app.tenant_id,
\* so under the tenant_isolation policy it finds none at all (or the cast of an
\* empty setting raises, and the delivery rolls back).
Visible(c) == c \in Request /\ HasRow(c) /\ ~ RowSecurity

\* Mutant: the ledger is posted whether or not the UPDATE matched a row in a
\* status that can complete.
MarkPurchaseCompletedPostsFirst(e) ==
  LET r == e.obj
  IN  IF Visible(r)
      THEN /\ row' = IF row[r].status \in {"pending", "completed"}
                     THEN [row EXCEPT ![r].status = "completed",
                                      ![r].completed_at = "set"]
                     ELSE row
           /\ book' = PostDoubleEntry(book, PurchaseLegs(r, e))
      ELSE UNCHANGED <<row, book>>

MarkPurchaseCompleted(e) ==
  LET r == e.obj
  IN  IF Visible(r) /\ row[r].status \in {"pending", "completed"}
      THEN /\ row' = [row EXCEPT ![r].status = "completed",
                                 ![r].completed_at = "set"]
           /\ book' = PostDoubleEntry(book, PurchaseLegs(r, e))
      ELSE UNCHANGED <<row, book>>

\* Mutant: a late failure overwrites whatever status the row has.
MarkPurchaseFailedAlways(e) ==
  /\ row' = IF Visible(e.obj)
            THEN [row EXCEPT ![e.obj].status = "failed"] ELSE row
  /\ UNCHANGED book

MarkPurchaseFailed(e) ==
  LET r == e.obj
  IN  /\ row' = IF Visible(r) /\ row[r].status = "pending"
                THEN [row EXCEPT ![r].status = "failed"] ELSE row
      /\ UNCHANGED book

\* Mutant: the recorded amount is not clamped to the price.
RefundedRowUnclamped(r, amount) ==
  [row[r] EXCEPT
     !.refunded = @ + amount,
     !.status = IF row[r].refunded + amount >= Gross(r)
                THEN "refunded" ELSE @]

\* Mutant: a partial refund gets a status of its own.
RefundedRowPartial(r, amount) ==
  [row[r] EXCEPT
     !.refunded = Smaller(@ + amount, Gross(r)),
     !.status = IF row[r].refunded + amount >= Gross(r)
                THEN "refunded" ELSE "partially_refunded"]

RefundedRow(r, amount) ==
  [row[r] EXCEPT
     !.refunded = Smaller(@ + amount, Gross(r)),
     !.status = IF row[r].refunded + amount >= Gross(r)
                THEN "refunded" ELSE @]

\* Both handlers run for every refund: the subscription reversal first, then
\* the marketplace hook.
HandleChargeRefunded(e) ==
  LET r == e.obj
      reversed == PostDoubleEntry(book, SubscriptionRefundLeg(e))
  IN  IF Visible(r)
      THEN /\ row' = [row EXCEPT ![r] = RefundedRow(r, e.n)]
           /\ book' = PostDoubleEntry(reversed, RefundLegs(r, e))
      ELSE /\ book' = reversed
           /\ UNCHANGED row

HandleInvoicePaid(e) ==
  /\ book' = PostDoubleEntry(book, SubscriptionPaymentLeg(e, Gross(e.obj)))
  /\ UNCHANGED row

\* Mutant: the success event is not among the handled types.
DispatchWithoutSuccess(e) ==
  \/ e.type = "payment_intent.succeeded" /\ UNCHANGED <<row, book>>
  \/ e.type = "payment_intent.payment_failed" /\ MarkPurchaseFailed(e)
  \/ e.type = "charge.refunded" /\ HandleChargeRefunded(e)
  \/ e.type = "invoice.paid" /\ HandleInvoicePaid(e)

Dispatch(e) ==
  \/ e.type = "payment_intent.succeeded" /\ MarkPurchaseCompleted(e)
  \/ e.type = "payment_intent.payment_failed" /\ MarkPurchaseFailed(e)
  \/ e.type = "charge.refunded" /\ HandleChargeRefunded(e)
  \/ e.type = "invoice.paid" /\ HandleInvoicePaid(e)

\* One delivery of an event.  A delivery whose handler raises rolls back and
\* is a stuttering step; Stripe delivers it again.
Deliver(e) ==
  /\ e \in sent
  /\ \/ /\ Fresh(e)
        /\ seen' = seen \cup {e}
        /\ Dispatch(e)
     \/ ~ Fresh(e) /\ UNCHANGED <<seen, row, book>>
  /\ UNCHANGED <<requestVars, stripeVars, gateVars>>

----------------------------------------------------------------------------
RequestStep(r) ==
  \/ CheckRequest(r)
  \/ RequireOnboardedCreator(r)
  \/ CreateIntent(r)
  \/ InsertRow(r)
  \/ Crash(r)

StripeStep ==
  \/ \E r \in Request : PaymentSucceeds(r) \/ PaymentFails(r)
  \/ \E i \in Invoice : InvoicePaid(i)
  \/ \E c \in Charge : RefundCharge(c)
  \/ \E l \in ListingOf : Delist(l)
  \/ \E creator \in CreatorOf : DisableCharges(creator)

Next ==
  \/ \E r \in Request : RequestStep(r)
  \/ StripeStep
  \/ \E e \in sent : Deliver(e)

Spec == Init /\ [][Next]_vars

\* Stripe retries a delivery until it is answered with a 200.
DeliverNew == \E e \in sent : Fresh(e) /\ Deliver(e)
FairSpec == Spec /\ WF_vars(DeliverNew)

----------------------------------------------------------------------------
(* Properties. *)

\* One row per (buyer, idempotency key), however many requests with that key
\* ran the check, the gate and the Stripe call side by side: the UNIQUE
\* constraint behind create_purchase_intent's ON CONFLICT.
OneRowPerKey ==
  \A r, s \in Request :
    HasRow(r) /\ HasRow(s) /\ SameKey(r, s) => r = s

\* A sale is credited exactly once, and exactly when the row was completed:
\* completed_at is set iff the platform fee and the creator's net of that row
\* are in the ledger, in full, whatever was delivered before or since.
SaleEvent(r) == [type |-> "payment_intent.succeeded", obj |-> r, n |-> 0]
Credits(r) == {t \in book : t.key[1] = SaleEvent(r)}
LedgerMirrorsCompletion ==
  \A r \in Request :
    Credits(r) = IF row[r].completed_at = "set"
                 THEN {t \in PurchaseLegs(r, SaleEvent(r)) : t.amount > 0}
                 ELSE {}

\* What is recorded as refunded stays within the price, and a purchase is
\* "refunded" exactly when the whole price is recorded as refunded.
RefundBounds ==
  \A r \in Request :
    /\ row[r].refunded <= Gross(r)
    /\ HasRow(r) => (row[r].status = "refunded") =
                    (row[r].refunded = Gross(r))

\* Each charge.refunded event reaches the row once, whatever is redelivered.
RefundEvents(r) == {e \in seen : e.type = "charge.refunded" /\ e.obj = r}
RefundsCountedOnce ==
  \A r \in Request :
    Visible(r) =>
      row[r].refunded =
        Smaller(Gross(r), MapThenSumSet(LAMBDA e : e.n, RefundEvents(r)))

\* One refund event never takes more back from the platform or from the
\* creator than the sale gave them, and takes back all of its amount.
RefundSharesBounded ==
  \A r \in Request : \A e \in RefundEvents(r) :
    LET shares == {t \in book : t.key[1] = e /\ t.key[2] # "evt"}
    IN  /\ \A t \in shares :
             t.amount <= IF t.key[2] = "fee" THEN row[r].fee ELSE CreatorNet(r)
        /\ Visible(r) => MapThenSumSet(LAMBDA t : t.amount, shares) = e.n

\* The purchase promise: see PurchaseLifecycle.
Lifecycle == INSTANCE PurchaseLifecycle WITH
  status <- [r \in Request |-> row[r].status],
  paid <- captured \cap Request,
  credited <- {r \in Request : row[r].completed_at = "set"}
KeepsLifecycle == Lifecycle!Spec

\* A captured payment whose purchase has a row is credited in the end, unless a declined
\* attempt on the same PaymentIntent was handled before (the row is "failed" then, and
\* mark_purchase_completed passes a failed row by) or the purchase was fully refunded first:
\* whatever is redelivered, rolled back or overtaken.
Declined(r) == \E e \in seen : e.type = "payment_intent.payment_failed" /\ e.obj = r
PaidEventuallyCredited ==
  \A r \in Request :
    (r \in captured /\ HasRow(r)) ~>
      (row[r].completed_at = "set" \/ Declined(r) \/ row[r].status = "refunded")

----------------------------------------------------------------------------
(* Statements of the documentation that the code does not keep. *)

\* marketplace_commerce.contract.md 4.4: a succeeded charge sets marketplace_purchase.status to
\* 'completed' and credits the creator.  A captured payment with a row gets there in the end,
\* or was refunded since.
CapturedIsCompleted ==
  \A r \in Request :
    (r \in captured /\ HasRow(r)) ~> (row[r].status \in {"completed", "refunded"})

\* mark_purchase_refunded: "keep status='completed' until the cumulative
\* refunded equals gross (full refund)".
RefundedMeansFullyRefunded ==
  \A r \in Request : row[r].status = "refunded" => refunded[r] = Gross(r)

\* process_stripe_webhook: the subscription-path refund "reverses the
\* subscription revenue entry", so it never takes back what was not booked.
SubscriptionRevenueNeverOverdrawn ==
  Debited(book, SubscriptionRevenue) <= Credited(book, SubscriptionRevenue)

=============================================================================
