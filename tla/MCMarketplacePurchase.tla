----------------------- MODULE MCMarketplacePurchase -----------------------
EXTENDS MarketplacePurchase

CONSTANTS r1, r2, r3, l1, ann, bob, cara, k1, i1

\* r1 and r2 are two requests of the same buyer with the same key; r3 is a
\* second buyer's, without a key.
MCBuyer(r) == CASE r = r3 -> bob [] OTHER -> ann
MCListing(r) == l1
MCKey(r) == CASE r = r3 -> NoKey [] OTHER -> k1
MCPrice(l) == 350
MCCreator(l) == cara
=============================================================================
