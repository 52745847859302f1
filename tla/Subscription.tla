---------------------------- MODULE Subscription ----------------------------
(***************************************************************************)
(* The local mirror of Stripe subscriptions: the subscription branches of  *)
(* process_stripe_webhook (billing/webhook.py) and the row operations of   *)
(* billing/subscription.py.  Stripe is external: it moves a subscription   *)
(* through its statuses and emits one event per change.                    *)
(*                                                                         *)
(* Every handler is one database transaction, so one step, except          *)
(* _handle_checkout_completed: it reads the live subscription at Stripe    *)
(* and writes what it read later, while other deliveries commit.           *)
(***************************************************************************)
EXTENDS Integers, FiniteSets

CONSTANTS
  Sub,          \* Stripe subscriptions
  MaxVersion    \* bound on the changes of one subscription at Stripe

ASSUME MaxVersionPositive == MaxVersion \in Nat \ {0}

VARIABLES
  stripe,   \* external: status and version of each subscription
  sent,     \* external: the events emitted
  seen,     \* table subscription_event
  mirror,   \* table subscription
  read,     \* checkout deliveries in progress: what they read from Stripe
  reordered \* history: subscriptions an event of which overtook an older one

mirrorVars == <<stripe, sent, seen, mirror, read, reordered>>
stripeVars == <<stripe, sent>>

StripeStatus == {"none", "incomplete", "active", "past_due", "canceled"}
NoRow == [status |-> "none", deleted |-> FALSE]
EventType == {"created", "updated", "deleted", "checkout"}

\* What the event's metadata says of nerium_user_id, nerium_tenant_id and nerium_tier: all
\* three; not all of them (or, in a Checkout Session, no subscription); or a tier that
\* _coerce_tier does not know.
Tag == {"full", "none", "unknown"}
Event == [type : EventType, sub : Sub, v : 1..MaxVersion,
          status : StripeStatus, tag : Tag]

MirrorTypeOK ==
  /\ stripe \in [Sub -> [status : StripeStatus, v : 0..MaxVersion]]
  /\ sent \subseteq Event
  /\ seen \subseteq sent
  /\ mirror \in [Sub -> [status : StripeStatus, deleted : BOOLEAN]]
  /\ \A p \in read : p.event \in sent \ seen /\ p.status \in StripeStatus
  /\ reordered \subseteq Sub

MirrorInit ==
  /\ stripe = [s \in Sub |-> [status |-> "none", v |-> 0]]
  /\ sent = {}
  /\ seen = {}
  /\ mirror = [s \in Sub |-> NoRow]
  /\ read = {}
  /\ reordered = {}

----------------------------------------------------------------------------
(* Stripe, external. *)

Change(s, type, status, tag) ==
  LET v == stripe[s].v + 1
  IN  /\ v <= MaxVersion
      /\ stripe' = [stripe EXCEPT ![s] = [status |-> status, v |-> v]]
      /\ sent' = sent \cup {[type |-> type, sub |-> s, v |-> v,
                             status |-> status, tag |-> tag]}
      /\ UNCHANGED <<seen, mirror, read, reordered>>

Create(s) ==
  /\ stripe[s].status = "none"
  /\ \E status \in {"incomplete", "active"} : Change(s, "created", status, "full")

\* A renewal, a declined invoice, or an edit that drops the metadata or names another tier.
Update(s) ==
  /\ stripe[s].status \in {"incomplete", "active", "past_due"}
  /\ \E status \in {"active", "past_due"}, tag \in Tag :
       Change(s, "updated", status, tag)

\* The buyer's Checkout Session completes once, after the subscription exists.
Checkout(s) ==
  /\ stripe[s].status \in {"incomplete", "active"}
  /\ \A e \in sent : ~ (e.sub = s /\ e.type = "checkout")
  /\ \E tag \in Tag : Change(s, "checkout", stripe[s].status, tag)

Cancel(s) ==
  /\ stripe[s].status \in {"incomplete", "active", "past_due"}
  /\ \E tag \in Tag : Change(s, "deleted", "canceled", tag)

----------------------------------------------------------------------------
(* The webhook. *)

\* The deliveries start in any order: nothing compares an event with those
\* answered before it.
Deliver(e) ==
  /\ e \in sent \ seen
  /\ reordered' = IF \E f \in sent \ seen : f.sub = e.sub /\ f.v < e.v
                  THEN reordered \cup {e.sub} ELSE reordered

Mirrored(s) == mirror[s].status # "none"

\* Mutant: an event without metadata creates no row and updates none either.
UpsertTaggedOnly(s, status, tag) ==
  mirror' = IF tag = "full"
            THEN [mirror EXCEPT ![s] = [status |-> status, deleted |-> FALSE]]
            ELSE mirror
\* Mutant: an unknown subscription without metadata gets a placeholder row
\* that is soft-deleted.
UpsertPlaceholder(s, status, tag) ==
  mirror' = [mirror EXCEPT ![s] =
               [status |-> status, deleted |-> tag # "full" /\ ~ Mirrored(s)]]
\* INSERT ... ON CONFLICT (stripe_subscription_id) DO UPDATE, which also sets
\* deleted_at = NULL; without metadata the mirrored row supplies it, and
\* without a mirrored row, or for an unknown tier, there is nothing to do.
Upsert(s, status, tag) ==
  mirror' = IF tag = "full" \/ (tag = "none" /\ Mirrored(s))
            THEN [mirror EXCEPT ![s] = [status |-> status, deleted |-> FALSE]]
            ELSE mirror

HandleSubscriptionUpsert(e) ==
  /\ e.type \in {"created", "updated"}
  /\ Upsert(e.sub, e.status, e.tag)

\* Mutant: the handler raises on an event without metadata.
HandleSubscriptionDeletedTagged(e) ==
  /\ e.type = "deleted" /\ e.tag = "full"
  /\ mirror' = IF Mirrored(e.sub)
               THEN [mirror EXCEPT ![e.sub] =
                       [status |-> "canceled", deleted |-> TRUE]]
               ELSE mirror
\* mark_subscription_canceled; an id that was never mirrored is a no-op.
HandleSubscriptionDeleted(e) ==
  /\ e.type = "deleted"
  /\ mirror' = IF Mirrored(e.sub)
               THEN [mirror EXCEPT ![e.sub] =
                       [status |-> "canceled", deleted |-> TRUE]]
               ELSE mirror

\* A Checkout Session that misses metadata or its subscription, or names an unknown tier, is
\* recorded with a note and nothing is read.
SkipCheckout(e) ==
  /\ e.type = "checkout" /\ e.tag # "full"
  /\ UNCHANGED mirror

Handle(e) ==
  /\ Deliver(e)
  /\ HandleSubscriptionUpsert(e) \/ HandleSubscriptionDeleted(e) \/ SkipCheckout(e)
  /\ seen' = seen \cup {e}
  /\ UNCHANGED <<stripeVars, read>>

\* Mutant: the event is recorded in a transaction of its own, before the work.
RetrieveLiveRecordsFirst(e) ==
  /\ e.type = "checkout" /\ e.tag = "full"
  /\ Deliver(e)
  /\ seen' = seen \cup {e}
  /\ read' = read \cup {[event |-> e, status |-> stripe[e.sub].status]}
  /\ UNCHANGED <<stripeVars, mirror>>
\* _handle_checkout_completed: the live read, then the write and the commit.
\* A second delivery of the event waits for the first one's transaction.
RetrieveLive(e) ==
  /\ e.type = "checkout" /\ e.tag = "full"
  /\ Deliver(e)
  /\ \A p \in read : p.event # e
  /\ read' = read \cup {[event |-> e, status |-> stripe[e.sub].status]}
  /\ UNCHANGED <<stripeVars, seen, mirror>>

HandleCheckoutCompleted(p) ==
  /\ Upsert(p.event.sub, p.status, "full")
  /\ seen' = seen \cup {p.event}
  /\ read' = read \ {p}
  /\ UNCHANGED <<stripeVars, reordered>>

\* The process dies or the statement fails: the transaction rolls back and
\* Stripe delivers the event again.
Rollback(p) ==
  /\ read' = read \ {p}
  /\ UNCHANGED <<stripeVars, seen, mirror, reordered>>

----------------------------------------------------------------------------
MirrorNext ==
  \/ \E s \in Sub : Create(s) \/ Update(s) \/ Checkout(s) \/ Cancel(s)
  \/ \E e \in sent : Handle(e) \/ RetrieveLive(e)
  \/ \E p \in read : HandleCheckoutCompleted(p) \/ Rollback(p)

MirrorSpec == MirrorInit /\ [][MirrorNext]_mirrorVars

\* Stripe retries until it is answered, and a handler that started finishes
\* unless it dies; one that dies every time is an outage.
MirrorFairness ==
  /\ WF_mirrorVars(\E e \in sent : Handle(e))
  /\ WF_mirrorVars(\E e \in sent : RetrieveLive(e))
  /\ SF_mirrorVars(\E p \in read : HandleCheckoutCompleted(p))

----------------------------------------------------------------------------
(* Properties. *)

\* Once every event of a subscription has been answered, and none overtook an
\* older one, the mirror says what Stripe says: soft-deleted iff canceled, and
\* the same status, unless the last update named a tier the code does not know:
\* checkouts that carry nothing and edits without metadata notwithstanding.
Quiet(s) == \A e \in sent : e.sub = s => e \in seen
Latest(e) == \A f \in sent : f.sub = e.sub /\ f.v > e.v => f.type = "checkout"
TierUnknown(s) ==
  \E e \in sent : e.sub = s /\ e.type = "updated" /\ e.tag = "unknown" /\ Latest(e)
Mirrors(s) ==
  /\ mirror[s].deleted <=> stripe[s].status = "canceled"
  /\ mirror[s].status = stripe[s].status \/ TierUnknown(s)
OrderedMirrorTracksStripe ==
  \A s \in Sub \ reordered : Quiet(s) => Mirrors(s)

\* A row is soft-deleted only when Stripe has canceled the subscription:
\* nobody who is still billed loses the tier.
DeletedOnlyIfCanceled ==
  \A s \in Sub : mirror[s].deleted => stripe[s].status = "canceled"

\* A cancellation at Stripe eventually removes the row, unless an event
\* overtook an older one: also behind a checkout whose handler died.
CanceledIsRemoved ==
  \A s \in Sub : (stripe[s].status = "canceled")
                   ~> (mirror[s].deleted \/ s \in reordered)

\* A statement of the documentation that the code does not keep.
\* upsert_from_stripe_subscription is called "so the local mirror tracks Stripe
\* state": once every event has been answered it agrees with Stripe.
MirrorTracksStripe ==
  \A s \in Sub : Quiet(s) => Mirrors(s)
=============================================================================
