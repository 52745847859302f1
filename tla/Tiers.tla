-------------------------------- MODULE Tiers --------------------------------
(***************************************************************************)
(* Which plan the browser believes in: the tier store that the badge, the  *)
(* listing locks, the builder gates and the Treasurer read, and the        *)
(* pricing page with its own snapshot of the subscription and its checkout *)
(* buttons.  The account is the backend's and Stripe's.  Prices, limits    *)
(* and texts are left out: a plan is its tier.                             *)
(***************************************************************************)
EXTENDS Naturals, Sequences, FiniteSetsExt

CONSTANTS
  Ranked,   \* the tiers by TIER_RANK, the free one first
  NoPlan,   \* no subscription row; on the page: no current tier
  CHANGES,  \* bounds the changes of the account
  CLICKS    \* bounds the checkouts under way

AnyTier == {Ranked[i] : i \in DOMAIN Ranked}
Free == Ranked[1]

ASSUME TiersAssumption == Len(Ranked) > 1 /\ NoPlan \notin AnyTier /\ CHANGES \in Nat /\ CLICKS \in Nat

VARIABLES
  account,   \* [plan, status, signedIn, version]
  tierStore, \* [tier, authed, loading, age, error]
  refreshes, \* requests of refresh() under way
  answered,  \* [tier, version] of the answer the store took last
  pricing,   \* [open, plan, authed, version, subscribing, notice]
  checkouts, \* POST /v1/billing/checkout of the page under way, by tier
  orphans    \* those of a page that was left meanwhile

tiersVars == <<account, tierStore, refreshes, answered, pricing, checkouts, orphans>>

NoCheckouts == [tier \in AnyTier |-> 0]
Posts(under) == MapThenSumSet(LAMBDA tier : under[tier], AnyTier)
StoreAtLoad == [tier |-> Free, authed |-> FALSE, loading |-> FALSE, age |-> "never", error |-> FALSE]
NoAnswer == [tier |-> Free, version |-> 0]
PricingClosed == [open |-> FALSE, plan |-> NoPlan, authed |-> FALSE, version |-> 0,
                  subscribing |-> NoPlan, notice |-> "none"]

TiersInit ==
  /\ account \in [plan : AnyTier \cup {NoPlan}, status : {"active", "canceled"},
                  signedIn : BOOLEAN, version : {1}]
  /\ tierStore = StoreAtLoad /\ refreshes = 0 /\ answered = NoAnswer
  /\ pricing = PricingClosed /\ checkouts = NoCheckouts /\ orphans = 0

\* Stripe changes the subscription, or the user signs in or out elsewhere.
AccountChanges ==
  /\ account.version <= CHANGES
  /\ account' \in [plan : AnyTier, status : {"active", "canceled"}, signedIn : BOOLEAN,
                   version : {account.version + 1}]
  /\ UNCHANGED <<tierStore, refreshes, answered, pricing, checkouts, orphans>>

\* refresh() returns at once while a request is under way.
MayRefresh == ~tierStore.loading

Refreshing ==
  /\ tierStore' = [tierStore EXCEPT !.loading = TRUE, !.error = FALSE]
  /\ refreshes' = refreshes + 1
  /\ UNCHANGED <<account, answered, pricing, checkouts, orphans>>

\* The game page starts: QuestBootstrap refreshes whatever the store's age.
GameStarts == MayRefresh /\ refreshes < 2 /\ Refreshing

\* A badge, a lock or a gate mounts; they refresh when the answer is older than the TTL.
SurfaceMounts == tierStore.age # "fresh" /\ MayRefresh /\ refreshes < 2 /\ Refreshing

\* setFromSnapshot's tier: the row's, whatever its status.
TierOf(plan, signedIn) == IF plan = NoPlan \/ ~signedIn THEN Free ELSE plan

\* A 200, or a 401 for a visitor.
RefreshAnswers ==
  /\ refreshes > 0 /\ refreshes' = refreshes - 1
  /\ tierStore' = [tier |-> TierOf(account.plan, account.signedIn), authed |-> account.signedIn,
                   loading |-> FALSE, age |-> "fresh", error |-> FALSE]
  /\ answered' = [tier |-> IF account.signedIn /\ account.plan # NoPlan THEN account.plan ELSE Free,
                  version |-> account.version]
  /\ UNCHANGED <<account, pricing, checkouts, orphans>>

Failed(s) == [s EXCEPT !.loading = FALSE, !.error = TRUE]

\* Another status or no answer: the tier and its age stay.
RefreshFails ==
  /\ refreshes > 0 /\ refreshes' = refreshes - 1
  /\ tierStore' = Failed(tierStore)
  /\ UNCHANGED <<account, answered, pricing, checkouts, orphans>>

TtlPasses ==
  /\ tierStore.age = "fresh" /\ tierStore' = [tierStore EXCEPT !.age = "old"]
  /\ UNCHANGED <<account, refreshes, answered, pricing, checkouts, orphans>>

\* isActiveStatus: the page shows a plan only when it is not over.
CurrentTier(plan, status) == IF status = "active" THEN plan ELSE NoPlan

\* The server renders the pricing page: its answer, a status that is not ok, or none.
OpenPricing ==
  /\ ~pricing.open
  /\ \/ pricing' = [PricingClosed EXCEPT !.open = TRUE, !.authed = account.signedIn,
                      !.version = account.version,
                      !.plan = IF account.signedIn THEN CurrentTier(account.plan, account.status) ELSE NoPlan]
     \/ \E authed \in BOOLEAN : pricing' = [PricingClosed EXCEPT !.open = TRUE, !.authed = authed]
  /\ UNCHANGED <<account, tierStore, refreshes, answered, checkouts, orphans>>

ClosePricing ==
  /\ pricing.open /\ pricing' = PricingClosed
  /\ checkouts' = NoCheckouts /\ orphans' = orphans + Posts(checkouts)
  /\ UNCHANGED <<account, tierStore, refreshes, answered>>

\* Another document: the modules' state, and what was under way, are gone.
DocumentLeft ==
  /\ tierStore' = StoreAtLoad /\ refreshes' = 0 /\ answered' = NoAnswer
  /\ pricing' = PricingClosed /\ checkouts' = NoCheckouts /\ orphans' = 0
  /\ UNCHANGED account

\* A card's button is disabled for the current tier and for the one being subscribed.
Offered(tier) == pricing.open /\ tier # pricing.plan /\ tier # pricing.subscribing

\* handleSubscribe: a visitor is sent to /signup.
HandleSubscribe(tier) ==
  /\ Offered(tier) /\ tier # Free
  /\ IF ~pricing.authed THEN DocumentLeft
     ELSE /\ Posts(checkouts) + orphans < CLICKS
          /\ pricing' = [pricing EXCEPT !.subscribing = tier, !.notice = "none"]
          /\ checkouts' = [checkouts EXCEPT ![tier] = @ + 1]
          /\ UNCHANGED <<account, tierStore, refreshes, answered, orphans>>

\* The answer names Stripe's page; the browser goes there, also from another page of the site.
CheckoutAnswers == Posts(checkouts) + orphans > 0 /\ DocumentLeft

CheckoutOver(p) == [p EXCEPT !.subscribing = NoPlan, !.notice = "failed"]

\* A problem, an answer without a URL or no answer.
CheckoutFails(tier) ==
  /\ checkouts[tier] > 0 /\ checkouts' = [checkouts EXCEPT ![tier] = @ - 1]
  /\ pricing' = CheckoutOver(pricing)
  /\ UNCHANGED <<account, tierStore, refreshes, answered, orphans>>

\* The same for a page that was left: nothing is shown.
OrphanFails ==
  /\ orphans > 0 /\ orphans' = orphans - 1
  /\ UNCHANGED <<account, tierStore, refreshes, answered, pricing, checkouts>>

\* handleFreeCta: "You are already on the Free tier", to anyone signed in.
HandleFreeCta ==
  /\ Offered(Free)
  /\ IF ~pricing.authed THEN DocumentLeft
     ELSE /\ pricing' = [pricing EXCEPT !.notice = "already free"]
          /\ UNCHANGED <<account, tierStore, refreshes, answered, checkouts, orphans>>

TiersNext ==
  \/ AccountChanges \/ GameStarts \/ SurfaceMounts \/ RefreshAnswers \/ RefreshFails \/ TtlPasses
  \/ OpenPricing \/ ClosePricing \/ HandleFreeCta \/ CheckoutAnswers \/ OrphanFails
  \/ \E tier \in AnyTier : HandleSubscribe(tier) \/ CheckoutFails(tier)

TiersSpec == TiersInit /\ [][TiersNext]_tiersVars
-----------------------------------------------------------------------------
\* The store says it is loading exactly while one request is under way: after any failure the
\* next surface can ask again, and two surfaces never ask at once (refresh).
LoadingIsOneRequest == refreshes = IF tierStore.loading THEN 1 ELSE 0

\* The tier shown everywhere is the one of the last answer, through failures, sign-outs and
\* reloads; a visitor's is the free one.
TierOfTheLastAnswer == tierStore.tier = answered.tier

\* The button that says "redirecting" belongs to a checkout that is under way: no failure of
\* another one, and no order of the answers, leaves it disabled for good.
SpinnerHasItsCheckout == pricing.subscribing # NoPlan => checkouts[pricing.subscribing] > 0

=============================================================================
