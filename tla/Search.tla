------------------------------- MODULE Search --------------------------------
(***************************************************************************)
(* /marketplace/search: the search bar with its debounce, the filter       *)
(* panel, the page state, the request in flight and the address bar. The   *)
(* page state writes the address with router.replace, which commits later, *)
(* and a committed address is read back into the page state, while the     *)
(* user goes on typing and choosing.                                       *)
(*                                                                         *)
(* Setting the page state runs its effects (fetch, address, and the bar's  *)
(* draft) before anything else can happen, so they are part of the action. *)
(***************************************************************************)
EXTENDS Integers, FiniteSets

CONSTANTS Texts,       \* what can stand in the search bar
          Trim(_),     \* its trimmed form
          NoText,      \* the empty text
          Categories, Subtypes,
          SubtypesOf(_),  \* SUBTYPES_BY_CATEGORY
          Prices,      \* lower price bounds a user may type
          BadPrices,   \* those readNumberParam refuses (negative)
          Links,       \* addresses the user may follow or arrive at
          Unset,       \* undefined
          EDITS        \* bound: user steps in one behaviour

ASSUME SearchAssumption ==
  /\ NoText \in Texts /\ Trim(NoText) = NoText
  /\ \A t \in Texts : Trim(t) \in Texts /\ Trim(Trim(t)) = Trim(t)
  /\ BadPrices \subseteq Prices
  /\ \A a \in Links : /\ a.query \in Texts /\ a.subtype \in Subtypes \union {Unset}
                      /\ a.price \in Prices \union {Unset}
  /\ Unset \notin Texts \union Categories \union Subtypes \union Prices
  /\ Unset \notin [query : Texts, category : Categories \union {Unset},
                   subtype : Subtypes \union {Unset}, price : Prices \union {Unset},
                   written : {TRUE}]
  /\ EDITS \in Nat

VARIABLES bar,       \* draft and the text the debounce timer holds
          page,      \* PageState: query and filters
          address,   \* the committed URL
          nav,       \* the replace() that has not committed yet
          requests,  \* runSearch calls in flight and whether they were aborted
          shown,     \* response, isLoading, errorMessage
          edits      \* bound

searchVars == <<bar, page, address, nav, requests, shown, edits>>

NoFilters == [category |-> Unset, subtype |-> Unset, price |-> Unset]
Blank(q) == Trim(q) = NoText

\* readPageStateFromParams and writePageStateToParams. An address keeps what
\* it was given; what is written is in the order and form the code writes.
ReadAddress(a) ==
  [query |-> a.query,
   filters |-> [category |-> IF a.category \in Categories THEN a.category ELSE Unset,
                subtype |-> a.subtype,
                price |-> IF a.price \in BadPrices THEN Unset ELSE a.price]]
WriteAddress(p) ==
  [query |-> p.query, category |-> p.filters.category, subtype |-> p.filters.subtype,
   price |-> p.filters.price, written |-> TRUE]

----------------------------------------------------------------------------
(* What setting the page state does.                                       *)

\* The bar's effect on its value: the draft follows a query that changed.
DraftFollows(p) == IF p.query # page.query THEN p.query ELSE bar.draft

Aborted(rs) == {[r EXCEPT !.live = FALSE] : r \in rs}

\* The address effect: replace unless the address in force already says so.
\* A replace still pending is discarded by a newer one, and left alone by none.
Synced(p, a, pending) == IF WriteAddress(p) # a THEN WriteAddress(p) ELSE pending

SetPage(p, timer, a, pending) ==
  /\ page' = p
  /\ bar' = [draft |-> DraftFollows(p), timer |-> timer]
  /\ address' = a
  /\ nav' = Synced(p, a, pending)
  /\ IF Blank(p.query)
     THEN /\ requests' = Aborted(requests)
          /\ shown' = [response |-> Unset, loading |-> FALSE, error |-> FALSE]
     ELSE /\ requests' = Aborted(requests) \union {[of |-> p, live |-> TRUE]}
          /\ shown' = [shown EXCEPT !.loading = TRUE, !.error = FALSE]

Query(q) == [page EXCEPT !.query = q]
Filtered(f) == [page EXCEPT !.filters = f]

----------------------------------------------------------------------------
(* The search bar.                                                         *)

Edited == edits < EDITS /\ edits' = edits + 1

TypeText(t) ==
  /\ Edited
  /\ t # bar.draft
  /\ bar' = [draft |-> t, timer |-> t]
  /\ UNCHANGED <<page, address, nav, requests, shown>>

DebounceFires ==
  /\ bar.timer # Unset
  /\ SetPage(Query(Trim(bar.timer)), Unset, address, nav)
  /\ UNCHANGED edits

\* Enter, or the button while nothing is being searched.
SubmitSearch ==
  /\ Edited
  /\ ~Blank(bar.draft)
  /\ SetPage(Query(Trim(bar.draft)), Unset, address, nav)

ClearSearch ==
  /\ Edited
  /\ bar.draft # NoText
  /\ page' = Query(NoText)
  /\ bar' = [draft |-> NoText, timer |-> Unset]
  /\ nav' = Synced(Query(NoText), address, nav)
  /\ requests' = Aborted(requests)
  /\ shown' = [response |-> Unset, loading |-> FALSE, error |-> FALSE]
  /\ UNCHANGED address

----------------------------------------------------------------------------
(* The filter panel.                                                       *)

Refilter(f) == Edited /\ SetPage(Filtered(f), bar.timer, address, nav)

\* A category takes the subtype with it; a subtype is one of the category's.
HandleCategoryChange(c) ==
  Refilter([page.filters EXCEPT !.category = c, !.subtype = Unset])
HandleSubtypeChange(s) ==
  /\ page.filters.category # Unset
  /\ s = Unset \/ s \in SubtypesOf(page.filters.category)
  /\ Refilter([page.filters EXCEPT !.subtype = s])
HandlePriceChange(x) == Refilter([page.filters EXCEPT !.price = x])
HandleReset == page.filters # NoFilters /\ Refilter(NoFilters)

----------------------------------------------------------------------------
(* The router, and the answers.                                            *)

\* A committed address is read into the page state, which then runs its
\* effects against it.
NavCommits ==
  /\ nav # Unset
  /\ SetPage(ReadAddress(nav), bar.timer, nav, Unset)
  /\ UNCHANGED edits

\* Back, forward or a link to another search: a pending replace is discarded.
FollowLink(a) ==
  /\ Edited
  /\ a # address
  /\ SetPage(ReadAddress(a), bar.timer, a, Unset)

\* What an answer or a failure may still do: nothing once it was aborted.
HeardAnyway(r, next) == next
HeardUnlessAborted(r, next) == IF r.live THEN next ELSE shown

SearchAnswers(r) ==
  /\ requests' = requests \ {r}
  /\ shown' = HeardUnlessAborted(r, [shown EXCEPT !.response = r.of, !.loading = FALSE])
  /\ UNCHANGED <<bar, page, address, nav, edits>>

SearchFails(r) ==
  /\ requests' = requests \ {r}
  /\ shown' = HeardUnlessAborted(r, [response |-> Unset, loading |-> FALSE, error |-> TRUE])
  /\ UNCHANGED <<bar, page, address, nav, edits>>

\* The page is opened at an address; the first effects run for it.
SearchInit ==
  /\ address \in Links
  /\ page = ReadAddress(address)
  /\ bar = [draft |-> page.query, timer |-> Unset]
  /\ nav = Synced(page, address, Unset)
  /\ requests = IF Blank(page.query) THEN {} ELSE {[of |-> page, live |-> TRUE]}
  /\ shown = [response |-> Unset, loading |-> ~Blank(page.query), error |-> FALSE]
  /\ edits = 0

SearchNext ==
  \/ \E t \in Texts : TypeText(t)
  \/ DebounceFires \/ SubmitSearch \/ ClearSearch
  \/ \E c \in Categories \union {Unset} : HandleCategoryChange(c)
  \/ \E s \in Subtypes \union {Unset} : HandleSubtypeChange(s)
  \/ \E x \in Prices \union {Unset} : HandlePriceChange(x)
  \/ HandleReset \/ NavCommits
  \/ \E a \in Links : FollowLink(a)
  \/ \E r \in requests : SearchAnswers(r) \/ SearchFails(r)

SearchSpec == SearchInit /\ [][SearchNext]_searchVars

----------------------------------------------------------------------------
(* Properties.                                                             *)

\* What MarketplaceSearchResults is given: an error, a skeleton, or a list.
\* However the answers overtake each other, a list on the screen is the answer
\* to the query and filters on the screen, and a skeleton ends.
ResultsMatchThePage ==
  /\ shown.loading => [of |-> page, live |-> TRUE] \in requests
  /\ ~shown.loading /\ shown.response # Unset => shown.response = page
  /\ ~shown.loading /\ ~shown.error /\ ~Blank(page.query) => shown.response = page

\* "every state change pushes a new replace() call so the address bar always
\* matches the active filters" (page.tsx:305-306): once no replace is pending,
\* the address is the one the page state writes.
AddressMatchesThePage == nav = Unset => address = WriteAddress(page)

\* Once the debounce is over, the bar shows the query that is searched, up to the blanks
\* around it, which a link may bring along.
BarShowsTheQuery == bar.timer = Unset => Trim(bar.draft) = Trim(page.query)
=============================================================================
