-------------------------------- MODULE Shop --------------------------------
(***************************************************************************)
(* The shop of the full HUD, the inventory store it buys into, and the     *)
(* toast that shows the item awarded last.  Quests award items and money   *)
(* to the same store.                                                      *)
(*                                                                         *)
(* A closing shop stays on the screen, with its buttons, until its exit    *)
(* animation ends; the toast clears the store a moment after it went out   *)
(* of sight.                                                               *)
(***************************************************************************)
EXTENDS Integers, FiniteSets, FiniteSetsExt

CONSTANTS
  WarePrices,  \* the price of every ware, in cents, 0 if free
  Grants,      \* amounts of money quests give
  NoItem,      \* null
  GRANTS,      \* bound: grants of money
  AWARDS       \* bound: items awarded

Wares == DOMAIN WarePrices

ASSUME ShopAssumption ==
  /\ IsFiniteSet(Wares) /\ \A w \in Wares : WarePrices[w] \in Nat
  /\ NoItem \notin Wares /\ Grants \subseteq Nat /\ {GRANTS, AWARDS} \subseteq Nat

VARIABLES
  inventory,  \* useInventoryStore: [usd, slots, lastAwarded]
  toast,      \* InventoryToast: [mounted, visible, timer, clearing]
  shop,       \* [open, exiting]
  ledgerOf    \* history: [granted, grants, bought, awards]

shopVars == <<inventory, toast, shop, ledgerOf>>

ShopInit ==
  /\ inventory = [usd |-> 0, slots |-> [w \in Wares |-> 0], lastAwarded |-> NoItem]
  /\ toast = [mounted |-> TRUE, visible |-> FALSE, timer |-> FALSE, clearing |-> FALSE]
  /\ shop = [open |-> FALSE, exiting |-> FALSE]
  /\ ledgerOf = [granted |-> 0, grants |-> 0, bought |-> [w \in Wares |-> 0], awards |-> 0]

----------------------------------------------------------------------------
(* The store, and the effect of the toast on lastAwarded.                  *)

\* The effect shows the toast and starts its timer; its cleanup cleared the former.
ToldItem(t, item) == [t EXCEPT !.visible = item # NoItem, !.timer = item # NoItem]

\* The effect runs when lastAwarded has changed.
AfterLast(t, before, item) == IF t.mounted /\ item # before THEN ToldItem(t, item) ELSE t

Awarded(inv, w) == [inv EXCEPT !.slots[w] = @ + 1, !.lastAwarded = w]

ClearLastAwarded(t) ==
  /\ inventory' = [inventory EXCEPT !.lastAwarded = NoItem]
  /\ toast' = AfterLast(t, inventory.lastAwarded, NoItem)

\* deductCurrency: refused when the balance is less than the amount.
Deducted(inv, w) == [inv EXCEPT !.usd = @ - WarePrices[w]]
Affordable(w) == WarePrices[w] = 0 \/ WarePrices[w] <= inventory.usd

\* A quest's add_currency effect.
AddCurrency(amount) ==
  /\ ledgerOf.grants < GRANTS /\ amount > 0
  /\ inventory' = [inventory EXCEPT !.usd = @ + amount]
  /\ ledgerOf' = [ledgerOf EXCEPT !.granted = @ + amount, !.grants = @ + 1]
  /\ UNCHANGED <<toast, shop>>

\* A quest's award_item effect.
QuestAwards(w) ==
  /\ ledgerOf.awards < AWARDS
  /\ inventory' = Awarded(inventory, w)
  /\ toast' = AfterLast(toast, inventory.lastAwarded, w)
  /\ ledgerOf' = [ledgerOf EXCEPT !.awards = @ + 1]
  /\ UNCHANGED shop

----------------------------------------------------------------------------
(* The shop.                                                               *)

OnScreen == shop.open \/ shop.exiting

Bought(w) ==
  /\ inventory' = Awarded(Deducted(inventory, w), w)
  /\ toast' = AfterLast(toast, inventory.lastAwarded, w)
  /\ ledgerOf' = [ledgerOf EXCEPT !.bought[w] = @ + 1, !.awards = @ + 1]
  /\ UNCHANGED shop

\* handlePurchase; a purchase refused only says so on the bus.
HandlePurchase(w) == OnScreen /\ ledgerOf.awards < AWARDS /\ Affordable(w) /\ Bought(w)

Toggled == [open |-> ~shop.open, exiting |-> shop.open]

\* The shop key of the HUD, or Escape while it is open.
ToggleShop ==
  /\ shop' = Toggled
  /\ UNCHANGED <<inventory, toast, ledgerOf>>

\* The close button and the backdrop, which are there until the animation ends.
ClickClose ==
  /\ OnScreen
  /\ shop' = Toggled
  /\ UNCHANGED <<inventory, toast, ledgerOf>>

\* game.shop.open and game.shop.close through BusBridge.
ShopEvent(open) ==
  /\ shop.open # open
  /\ shop' = Toggled
  /\ UNCHANGED <<inventory, toast, ledgerOf>>

ExitEnds ==
  /\ shop.exiting
  /\ shop' = [shop EXCEPT !.exiting = FALSE]
  /\ UNCHANGED <<inventory, toast, ledgerOf>>

----------------------------------------------------------------------------
(* The toast.                                                              *)

\* After durationMs it goes out of sight, and 240 ms later the store is cleared, so
\* that a clear is never overtaken by the next timer of 3200 ms. The cleanup that
\* the timer's callback returns is never called.
ToastTimer ==
  /\ toast.timer /\ ~toast.clearing
  /\ toast' = [toast EXCEPT !.visible = FALSE, !.timer = FALSE, !.clearing = TRUE]
  /\ UNCHANGED <<inventory, shop, ledgerOf>>

ClearFires ==
  /\ toast.clearing
  /\ ClearLastAwarded([toast EXCEPT !.clearing = FALSE])
  /\ UNCHANGED <<shop, ledgerOf>>

HandleDismiss ==
  /\ toast.visible
  /\ ClearLastAwarded([toast EXCEPT !.visible = FALSE, !.timer = FALSE])
  /\ UNCHANGED <<shop, ledgerOf>>

\* The HUD leaves the page: the cleanup clears the toast's timer, not a pending
\* clear. When it comes back the effect runs on what the store holds.
ToastUnmounts ==
  /\ toast.mounted
  /\ toast' = [toast EXCEPT !.mounted = FALSE, !.visible = FALSE, !.timer = FALSE]
  /\ UNCHANGED <<inventory, shop, ledgerOf>>

ToastMounts ==
  /\ ~toast.mounted
  /\ toast' = ToldItem([toast EXCEPT !.mounted = TRUE], inventory.lastAwarded)
  /\ UNCHANGED <<inventory, shop, ledgerOf>>

ShopNext ==
  \/ \E amount \in Grants : AddCurrency(amount)
  \/ \E w \in Wares : QuestAwards(w) \/ HandlePurchase(w)
  \/ ToggleShop \/ ClickClose \/ ExitEnds
  \/ \E open \in BOOLEAN : ShopEvent(open)
  \/ ToastTimer \/ ClearFires \/ HandleDismiss \/ ToastUnmounts \/ ToastMounts

ShopSpec == ShopInit /\ [][ShopNext]_shopVars

----------------------------------------------------------------------------

Paid == [w \in Wares |-> WarePrices[w] * ledgerOf.bought[w]]

\* Money granted is in the purse or was paid, at its price, for a ware bought
\* (deductCurrency before award in handlePurchase), and is never owed.
PaidForWhatWasBought ==
  /\ inventory.usd >= 0
  /\ ledgerOf.granted = inventory.usd + MapThenSumSet(LAMBDA w : Paid[w], Wares)

\* A toast in sight has a timer that will take it away, and an item to name,
\* whichever of timers, clears, awards and remounts came in between.
ToastInSightWillGo == toast.visible => toast.timer /\ inventory.lastAwarded # NoItem

=============================================================================
