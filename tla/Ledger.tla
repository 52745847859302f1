------------------------------- MODULE Ledger -------------------------------
(***************************************************************************)
(* The double-entry ledger of src/backend/billing/ledger.py as operators   *)
(* on a set of transactions.  Every transaction the program posts has one  *)
(* debit leg and one credit leg of the same amount, so a transaction is a  *)
(* record [key, debit, credit, amount]; the account codes become pairs     *)
(* <<kind, owner>>.                                                        *)
(***************************************************************************)
EXTENDS Integers, FiniteSets, FiniteSetsExt

StripeBalance == <<"asset:stripe_balance", "platform">>
SubscriptionRevenue == <<"revenue:subscription", "platform">>
MarketplaceFeeRevenue == <<"revenue:marketplace_fee", "platform">>
CreatorPayable(creator) == <<"liability:creator_payable", creator>>

Transaction(key, debit, credit, amount) ==
  [key |-> key, debit |-> debit, credit |-> credit, amount |-> amount]

\* billing_ledger_transaction.idempotency_key is UNIQUE and the insert says
\* ON CONFLICT DO NOTHING: a key that is already posted wins.
Posted(book, key) == \E t \in book : t.key = key

\* The callers skip a leg pair whose amount is not positive, and
\* _assert_balanced refuses one.
PostDoubleEntry(book, txs) ==
  book \cup {t \in txs : t.amount > 0 /\ ~ Posted(book, t.key)}

\* The signed balance of an account, debits positive.
Debited(book, account) ==
  MapThenSumSet(LAMBDA t : t.amount, {t \in book : t.debit = account})
Credited(book, account) ==
  MapThenSumSet(LAMBDA t : t.amount, {t \in book : t.credit = account})
=============================================================================
