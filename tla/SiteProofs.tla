------------------------------ MODULE SiteProofs ------------------------------
(***************************************************************************)
(* Proofs about the pages where buyers look around and creators publish:   *)
(* search, browsing, the remix of a listing, the submission form and its   *)
(* assets, the creator wizard, the demonstrations, the canvas of a run,    *)
(* and the predictions about it.                                           *)
(* Each part has an inductive invariant from which what MCSite checks of   *)
(* it follows.                                                             *)
(***************************************************************************)
EXTENDS MCSite, FiniteSetTheorems, SequenceTheorems, TLAPS

-----------------------------------------------------------------------------
(* The search page.                                                        *)

SearchFilters == [category : Categories \union {Unset}, subtype : Subtypes \union {Unset},
                  price : Prices \union {Unset}]
SearchPages == [query : Texts, filters : SearchFilters]
Written == [query : Texts, category : Categories \union {Unset},
            subtype : Subtypes \union {Unset}, price : Prices \union {Unset}, written : {TRUE}]

SearchTypes ==
  /\ page \in SearchPages
  /\ bar \in [draft : Texts, timer : Texts \union {Unset}]
  /\ nav \in Written \union {Unset}
  /\ requests \subseteq [of : SearchPages, live : BOOLEAN]
  /\ shown \in [response : SearchPages \union {Unset}, loading : BOOLEAN, error : BOOLEAN]

\* Whatever is still on its way is for the page on the screen, or will not be heard; and a
\* timer that runs holds what the bar shows, unless a link has brought the query meanwhile.
NothingStaleComing ==
  /\ \A r \in requests : r.live => r.of = page
  /\ Trim(bar.draft) = Trim(page.query) \/ (bar.timer # Unset /\ bar.timer = bar.draft)

SearchInv == SearchTypes /\ NothingStaleComing /\ SearchSaysOneThing

LEMMA WrittenIsSomething ==
  ASSUME NEW p \in SearchPages
  PROVE  WriteAddress(p) \in Written /\ WriteAddress(p) # Unset
<1>1. WriteAddress(p) \in Written
  BY DEF SearchPages, SearchFilters, Written, WriteAddress
<1>2. Unset \notin Written
  BY SearchAssumption DEF Written
<1> QED
  BY <1>1, <1>2

LEMMA RequestTyped ==
  ASSUME NEW p \in SearchPages
  PROVE  [of |-> p, live |-> TRUE] \in [of : SearchPages, live : BOOLEAN]
OBVIOUS

LEMMA AbortedIsDead ==
  ASSUME SearchTypes
  PROVE  Aborted(requests) \subseteq [of : SearchPages, live : BOOLEAN]
         /\ \A r \in Aborted(requests) : ~r.live
<1>1. ASSUME NEW r \in requests
      PROVE  /\ [r EXCEPT !.live = FALSE] \in [of : SearchPages, live : BOOLEAN]
             /\ ~[r EXCEPT !.live = FALSE].live
  <2>1. r \in [of : SearchPages, live : BOOLEAN]
    BY DEF SearchTypes
  <2> QED
    BY <2>1
<1> QED
  BY <1>1 DEF Aborted

\* Setting the page state keeps the invariant from wherever it is called with a bar whose
\* timer is over or has the right text, and with an address and a pending replace that will
\* be right once the address effect has run.
LEMMA SetPageKeepsInv ==
  ASSUME SearchInv, NEW p \in SearchPages, NEW timer \in Texts \union {Unset}, NEW a,
         NEW due \in Written \union {Unset}, SetPage(p, timer, a, due),
         \/ p.query # page.query
         \/ Trim(bar.draft) = Trim(page.query)
         \/ timer # Unset /\ timer = bar.draft
  PROVE  SearchInv'
<1>1. /\ page' = p /\ bar' = [draft |-> DraftFollows(p), timer |-> timer]
      /\ address' = a /\ nav' = Synced(p, a, due)
  BY DEF SetPage
<1>2. DraftFollows(p) \in Texts
  BY DEF DraftFollows, SearchInv, SearchTypes, SearchPages
<1>3. nav' \in Written \union {Unset} /\ AddressMatchesThePage'
  BY <1>1, WrittenIsSomething DEF Synced, AddressMatchesThePage
<1>4. Trim(bar'.draft) = Trim(page'.query) \/ (bar'.timer # Unset /\ bar'.timer = bar'.draft)
  BY <1>1 DEF DraftFollows
<1>5. bar'.timer = Unset => Trim(bar'.draft) = Trim(page'.query)
  BY <1>4
<1>6. CASE Blank(p.query)
  <2>1. /\ requests' = Aborted(requests)
        /\ shown' = [response |-> Unset, loading |-> FALSE, error |-> FALSE]
    BY <1>6 DEF SetPage
  <2>2. SearchTypes'
    BY <1>1, <1>2, <1>3, <2>1, AbortedIsDead DEF SearchInv, SearchTypes
  <2>3. NothingStaleComing' /\ ResultsMatchThePage'
    BY <1>1, <1>4, <1>6, <2>1, AbortedIsDead
       DEF SearchInv, NothingStaleComing, ResultsMatchThePage
  <2> QED
    BY <1>3, <1>5, <2>2, <2>3 DEF SearchInv, SearchSaysOneThing, BarShowsTheQuery
<1>7. CASE ~Blank(p.query)
  <2>1. /\ requests' = Aborted(requests) \union {[of |-> p, live |-> TRUE]}
        /\ shown' = [shown EXCEPT !.loading = TRUE, !.error = FALSE]
    BY <1>7 DEF SetPage
  <2>2. shown' \in [response : SearchPages \union {Unset}, loading : BOOLEAN, error : BOOLEAN]
        /\ shown'.loading = TRUE
    BY <2>1 DEF SearchInv, SearchTypes
  <2>3. SearchTypes'
    BY <1>1, <1>2, <1>3, <2>1, <2>2, AbortedIsDead, RequestTyped DEF SearchInv, SearchTypes
  <2>4. NothingStaleComing' /\ ResultsMatchThePage'
    BY <1>1, <1>4, <2>1, <2>2, AbortedIsDead
       DEF SearchInv, NothingStaleComing, ResultsMatchThePage
  <2> QED
    BY <1>3, <1>5, <2>3, <2>4 DEF SearchInv, SearchSaysOneThing, BarShowsTheQuery
<1> QED
  BY <1>6, <1>7

LEMMA ReadAddressTyped ==
  ASSUME NEW a \in Links \union Written
  PROVE  ReadAddress(a) \in SearchPages /\ ReadAddress(a).query = a.query
<1>1. a.query \in Texts /\ a.subtype \in Subtypes \union {Unset} /\ a.price \in Prices \union {Unset}
  BY SearchAssumption DEF Written
<1> QED
  BY <1>1 DEF ReadAddress, SearchPages, SearchFilters

LEMMA SearchInvInit == SearchInit => SearchInv
<1> SUFFICES ASSUME SearchInit PROVE SearchInv
  OBVIOUS
<1>1. page \in SearchPages
  BY ReadAddressTyped DEF SearchInit
<1>2. bar = [draft |-> page.query, timer |-> Unset] /\ page.query \in Texts
  BY <1>1 DEF SearchInit, SearchPages
<1>3. nav \in Written \union {Unset} /\ AddressMatchesThePage
  BY <1>1, WrittenIsSomething DEF SearchInit, Synced, AddressMatchesThePage
<1>4. Blank(page.query) \in BOOLEAN
  BY DEF Blank
<1>5. shown \in [response : SearchPages \union {Unset}, loading : BOOLEAN, error : BOOLEAN]
      /\ (shown.loading <=> ~Blank(page.query)) /\ shown.response = Unset
  BY <1>4 DEF SearchInit
<1>6. requests \subseteq [of : SearchPages, live : BOOLEAN]
      /\ (\A r \in requests : r.of = page)
      /\ (~Blank(page.query) => [of |-> page, live |-> TRUE] \in requests)
  <2>1. CASE Blank(page.query)
    BY <2>1 DEF SearchInit
  <2>2. CASE ~Blank(page.query)
    BY <1>1, <2>2, RequestTyped DEF SearchInit
  <2> QED
    BY <2>1, <2>2
<1>7. SearchTypes
  BY <1>1, <1>2, <1>3, <1>5, <1>6 DEF SearchTypes
<1>8. NothingStaleComing
  BY <1>2, <1>6 DEF NothingStaleComing
<1>9. ResultsMatchThePage /\ BarShowsTheQuery
  BY <1>2, <1>5, <1>6 DEF ResultsMatchThePage, BarShowsTheQuery
<1> QED
  BY <1>3, <1>7, <1>8, <1>9 DEF SearchInv, SearchSaysOneThing

LEMMA SearchInvStep == SearchInv /\ [SearchNext]_searchVars => SearchInv'
<1> SUFFICES ASSUME SearchInv, [SearchNext]_searchVars PROVE SearchInv'
  OBVIOUS
<1>0. /\ page \in SearchPages /\ page.query \in Texts /\ page.filters \in SearchFilters
      /\ bar \in [draft : Texts, timer : Texts \union {Unset}]
      /\ nav \in Written \union {Unset}
  BY DEF SearchInv, SearchTypes, SearchPages
<1>1. \A q \in Texts : Query(q) \in SearchPages /\ Query(q).query = q
  BY <1>0 DEF Query, SearchPages
<1>2. \A f \in SearchFilters : Filtered(f) \in SearchPages /\ Filtered(f).query = page.query
  BY <1>0 DEF Filtered, SearchPages
<1>3. /\ Trim(bar.draft) = Trim(page.query) \/ (bar.timer # Unset /\ bar.timer = bar.draft)
      /\ \A t \in Texts : Trim(t) \in Texts /\ Trim(Trim(t)) = Trim(t)
  BY SearchAssumption DEF SearchInv, NothingStaleComing
<1>4. ASSUME NEW t \in Texts, TypeText(t) PROVE SearchInv'
  <2>1. bar' = [draft |-> t, timer |-> t] /\ t # Unset
    BY <1>4, SearchAssumption DEF TypeText
  <2>2. UNCHANGED <<page, address, nav, requests, shown>>
    BY <1>4 DEF TypeText
  <2> QED
    BY <2>1, <2>2 DEF SearchInv, SearchTypes, NothingStaleComing, SearchSaysOneThing,
                      ResultsMatchThePage, AddressMatchesThePage, BarShowsTheQuery
<1>5. CASE DebounceFires
  <2>1. bar.timer \in Texts /\ SetPage(Query(Trim(bar.timer)), Unset, address, nav)
    BY <1>0, <1>5 DEF DebounceFires
  <2>2. Query(Trim(bar.timer)) \in SearchPages /\ Query(Trim(bar.timer)).query = Trim(bar.timer)
    BY <1>1, <1>3, <2>1
  <2>3. Trim(bar.timer) = page.query => Trim(bar.draft) = Trim(page.query)
    BY <1>3, <2>1
  <2> QED
    BY <1>0, <2>1, <2>2, <2>3, SetPageKeepsInv
<1>6. CASE SubmitSearch
  <2>1. SetPage(Query(Trim(bar.draft)), Unset, address, nav)
    BY <1>6 DEF SubmitSearch
  <2>2. Query(Trim(bar.draft)) \in SearchPages /\ Query(Trim(bar.draft)).query = Trim(bar.draft)
    BY <1>0, <1>1, <1>3
  <2>3. Trim(bar.draft) = page.query => Trim(bar.draft) = Trim(page.query)
    BY <1>0, <1>3
  <2> QED
    BY <1>0, <2>1, <2>2, <2>3, SetPageKeepsInv
<1>7. CASE ClearSearch
  <2>1. /\ page' = Query(NoText) /\ bar' = [draft |-> NoText, timer |-> Unset]
        /\ nav' = Synced(Query(NoText), address, nav) /\ requests' = Aborted(requests)
        /\ shown' = [response |-> Unset, loading |-> FALSE, error |-> FALSE]
        /\ address' = address
    BY <1>7 DEF ClearSearch
  <2>2. page' \in SearchPages /\ page'.query = NoText /\ NoText \in Texts
    BY <1>1, <2>1, SearchAssumption
  <2>3. nav' \in Written \union {Unset} /\ AddressMatchesThePage'
    BY <1>0, <2>1, <2>2, WrittenIsSomething DEF Synced, AddressMatchesThePage
  <2>4. SearchTypes'
    BY <2>1, <2>2, <2>3, AbortedIsDead DEF SearchInv, SearchTypes
  <2>5. NothingStaleComing'
    BY <2>1, <2>2, AbortedIsDead DEF SearchInv, NothingStaleComing
  <2>6. Blank(page'.query)
    BY <2>2, SearchAssumption DEF Blank
  <2>7. ResultsMatchThePage' /\ BarShowsTheQuery'
    BY <2>1, <2>2, <2>6 DEF ResultsMatchThePage, BarShowsTheQuery
  <2> QED
    BY <2>3, <2>4, <2>5, <2>7 DEF SearchInv, SearchSaysOneThing
<1>8. ASSUME NEW f \in SearchFilters, Refilter(f) PROVE SearchInv'
  <2>1. SetPage(Filtered(f), bar.timer, address, nav)
    BY <1>8 DEF Refilter
  <2> QED
    BY <1>0, <1>2, <1>3, <2>1, SetPageKeepsInv
<1>9. ASSUME NEW c \in Categories \union {Unset}, HandleCategoryChange(c) PROVE SearchInv'
  <2>1. [page.filters EXCEPT !.category = c, !.subtype = Unset] \in SearchFilters
    BY <1>0 DEF SearchFilters
  <2> QED
    BY <1>8, <1>9, <2>1 DEF HandleCategoryChange
<1>10. ASSUME NEW s \in Subtypes \union {Unset}, HandleSubtypeChange(s) PROVE SearchInv'
  <2>1. [page.filters EXCEPT !.subtype = s] \in SearchFilters
    BY <1>0 DEF SearchFilters
  <2> QED
    BY <1>8, <1>10, <2>1 DEF HandleSubtypeChange
<1>11. ASSUME NEW x \in Prices \union {Unset}, HandlePriceChange(x) PROVE SearchInv'
  <2>1. [page.filters EXCEPT !.price = x] \in SearchFilters
    BY <1>0 DEF SearchFilters
  <2> QED
    BY <1>8, <1>11, <2>1 DEF HandlePriceChange
<1>12. CASE HandleReset
  <2>1. NoFilters \in SearchFilters
    BY DEF NoFilters, SearchFilters
  <2> QED
    BY <1>8, <1>12, <2>1 DEF HandleReset
<1>13. CASE NavCommits
  <2>1. nav \in Written /\ SetPage(ReadAddress(nav), bar.timer, nav, Unset)
    BY <1>0, <1>13 DEF NavCommits
  <2>2. ReadAddress(nav) \in SearchPages
    BY <2>1, ReadAddressTyped
  <2> QED
    BY <1>0, <1>3, <2>1, <2>2, SetPageKeepsInv
<1>14. ASSUME NEW a \in Links, FollowLink(a) PROVE SearchInv'
  <2>1. SetPage(ReadAddress(a), bar.timer, a, Unset)
    BY <1>14 DEF FollowLink
  <2>2. ReadAddress(a) \in SearchPages
    BY ReadAddressTyped
  <2> QED
    BY <1>0, <1>3, <2>1, <2>2, SetPageKeepsInv
<1>15. ASSUME NEW r \in requests, SearchAnswers(r) \/ SearchFails(r) PROVE SearchInv'
  <2>1. /\ UNCHANGED <<bar, page, address, nav>> /\ requests' = requests \ {r}
        /\ r \in [of : SearchPages, live : BOOLEAN]
    BY <1>15 DEF SearchAnswers, SearchFails, SearchInv, SearchTypes
  <2>2. CASE ~r.live
    <3>1. shown' = shown
      BY <1>15, <2>2 DEF SearchAnswers, SearchFails, HeardUnlessAborted
    <3>2. shown.loading => [of |-> page, live |-> TRUE] \in requests'
      BY <2>1, <2>2 DEF SearchInv, SearchSaysOneThing, ResultsMatchThePage
    <3> QED
      BY <2>1, <3>1, <3>2
         DEF SearchInv, SearchTypes, NothingStaleComing, SearchSaysOneThing,
             ResultsMatchThePage, AddressMatchesThePage, BarShowsTheQuery
  <2>3. CASE r.live
    <3>1. r.of = page
      BY <2>3 DEF SearchInv, NothingStaleComing
    <3>2. \/ shown' = [[shown EXCEPT !.response = r.of] EXCEPT !.loading = FALSE]
          \/ shown' = [response |-> Unset, loading |-> FALSE, error |-> TRUE]
      BY <1>15, <2>3 DEF SearchAnswers, SearchFails, HeardUnlessAborted
    <3>3. /\ shown' \in [response : SearchPages \union {Unset}, loading : BOOLEAN,
                         error : BOOLEAN]
          /\ shown'.loading = FALSE
          /\ shown'.response = page \/ (shown'.response = Unset /\ shown'.error)
      <4>1. CASE shown' = [[shown EXCEPT !.response = r.of] EXCEPT !.loading = FALSE]
        BY <1>0, <3>1, <4>1 DEF SearchInv, SearchTypes
      <4>2. CASE shown' = [response |-> Unset, loading |-> FALSE, error |-> TRUE]
        BY <4>2
      <4> QED
        BY <3>2, <4>1, <4>2
    <3> QED
      BY <2>1, <3>3
         DEF SearchInv, SearchTypes, NothingStaleComing, SearchSaysOneThing,
             ResultsMatchThePage, AddressMatchesThePage, BarShowsTheQuery
  <2> QED
    BY <2>2, <2>3
<1>16. CASE UNCHANGED searchVars
  BY <1>16 DEF searchVars, SearchInv, SearchTypes, NothingStaleComing, SearchSaysOneThing,
               ResultsMatchThePage, AddressMatchesThePage, BarShowsTheQuery
<1> QED
  BY <1>4, <1>5, <1>6, <1>7, <1>9, <1>10, <1>11, <1>12, <1>13, <1>14, <1>15, <1>16
     DEF SearchNext

\* However typing, filters, pending replaces, links and answers interleave, the bar, the
\* address and the results are of one query once they are over: for any texts, categories,
\* prices and links (MarketplaceSearchBody, MarketplaceSearchBar).
THEOREM SearchAgrees == SearchSpec => []SearchSaysOneThing
<1>1. SearchInv => SearchSaysOneThing
  BY DEF SearchInv
<1> QED
  BY <1>1, SearchInvInit, SearchInvStep, PTL DEF SearchSpec

-----------------------------------------------------------------------------
(* The browse page.                                                        *)

BrowseFilters == [tag : Tags \union {Anything}, vendor : Vendors \union {Anything},
                  tier : PriceTiers \union {Anything}]
BrowseKeys == [tag : Tags \union {Anything}, tier : PriceTiers \union {Anything},
               vendors : SUBSET Vendors, sort : SortKinds]
CurrentKey == KeyOf(filter, vendors, sort.kind)

BrowseTypes ==
  /\ filter \in BrowseFilters /\ vendors \in SUBSET Vendors
  /\ sort \in [kind : SortKinds, picked : SortKinds \union {Anything}]
  /\ fetches \subseteq [key : BrowseKeys, live : BOOLEAN]
  /\ rows \in [list : {rows.list}, error : BOOLEAN]
  /\ sidebar \in [expanded : BOOLEAN, focus : Int]

\* An effect that is still heard asks for the choices on the screen, and the sort is the
\* user's pick only once the default has been left for good.
ChoicesInForce ==
  /\ \A c \in fetches : c.live => c.key = CurrentKey
  /\ sort.picked # Anything => latched

BrowseInv == BrowseTypes /\ ChoicesInForce /\ BrowseFollowsTheChoices

LEMMA KeyTyped ==
  ASSUME NEW f \in BrowseFilters, NEW vs \in SUBSET Vendors, NEW kind \in SortKinds
  PROVE  KeyOf(f, vs, kind) \in BrowseKeys
BY DEF BrowseFilters, BrowseKeys, KeyOf

LEMMA FetchTyped ==
  ASSUME NEW key \in BrowseKeys
  PROVE  [key |-> key, live |-> TRUE] \in [key : BrowseKeys, live : BOOLEAN]
OBVIOUS

LEMMA ShownTagsIsNat == ShownTags \in Nat
<1> DEFINE counted == {t \in Tags : \E l \in Listings : t \in TagsOf(l)}
<1>1. IsFiniteSet(counted)
  BY BrowseAssumption, FS_Subset
<1>2. Cardinality(counted) \in Nat
  BY <1>1, FS_CardinalityType
<1> HIDE DEF counted
<1>3. ShownTags = IF sidebar.expanded \/ Cardinality(counted) < NAV_VISIBLE
                  THEN Cardinality(counted) ELSE NAV_VISIBLE
  BY DEF ShownTags, counted
<1> QED
  BY <1>2, <1>3, BrowseAssumption

\* The page's vendor after a toggle, whether one vendor is left, none or several.
LEMMA SoleVendorAgrees ==
  ASSUME NEW vs \in SUBSET Vendors, NEW v
  PROVE  /\ SoleVendor(v, vs) \in Vendors \union {Anything}
         /\ IF Cardinality(vs) = 1 THEN SoleVendor(v, vs) \in vs ELSE SoleVendor(v, vs) = Anything
<1>1. IsFiniteSet(vs)
  BY BrowseAssumption, FS_Subset
<1>2. ASSUME Cardinality(vs) = 1 PROVE \E w : w \in vs
  BY <1>1, <1>2, FS_Singleton
<1> QED
  BY <1>2 DEF SoleVendor

\* What a change of the choices leaves of the rows on their way.
LEMMA RefetchFollows ==
  ASSUME BrowseInv, NEW f \in BrowseFilters, NEW vs \in SUBSET Vendors, NEW kind \in SortKinds,
         Refetch(f, vs, kind), filter' = f, vendors' = vs, sort'.kind = kind, rows' = rows
  PROVE  /\ fetches' \subseteq [key : BrowseKeys, live : BOOLEAN]
         /\ \A c \in fetches' : c.live => c.key = CurrentKey'
         /\ RowsAreOfTheChoices'
<1>1. CurrentKey' = KeyOf(f, vs, kind)
  BY DEF CurrentKey, KeyOf
<1>2. CASE KeyOf(f, vs, kind) = CurrentKey
  <2>1. fetches' = fetches
    BY <1>2 DEF Refetch, CurrentKey
  <2>2. (\A c \in fetches : ~c.live) /\ ~rows.error => rows.list = ListBy(CurrentKey)
    BY DEF BrowseInv, BrowseFollowsTheChoices, RowsAreOfTheChoices, CurrentKey
  <2>3. (\A c \in fetches' : ~c.live) /\ ~rows'.error => rows'.list = ListBy(CurrentKey')
    BY <1>1, <1>2, <2>1, <2>2
  <2>4. RowsAreOfTheChoices'
    BY <2>3 DEF RowsAreOfTheChoices, CurrentKey
  <2> QED
    BY <1>1, <1>2, <2>1, <2>4 DEF BrowseInv, BrowseTypes, ChoicesInForce
<1>3. CASE KeyOf(f, vs, kind) # CurrentKey
  <2> DEFINE fresh == [key |-> KeyOf(f, vs, kind), live |-> TRUE]
             dead == {[c EXCEPT !.live = FALSE] : c \in fetches}
  <2>1. fetches' = dead \union {fresh}
    BY <1>3 DEF Refetch, CurrentKey
  <2>2. fresh \in [key : BrowseKeys, live : BOOLEAN]
    BY KeyTyped, FetchTyped
  <2>3. dead \subseteq [key : BrowseKeys, live : BOOLEAN] /\ \A c \in dead : ~c.live
    <3>1. ASSUME NEW c \in fetches
          PROVE  /\ [c EXCEPT !.live = FALSE] \in [key : BrowseKeys, live : BOOLEAN]
                 /\ ~[c EXCEPT !.live = FALSE].live
      <4>1. c \in [key : BrowseKeys, live : BOOLEAN]
        BY DEF BrowseInv, BrowseTypes
      <4> QED
        BY <4>1
    <3> QED
      BY <3>1
  <2>4. fresh.live /\ fresh.key = CurrentKey'
    BY <1>1
  <2> HIDE DEF dead, fresh
  <2> QED
    BY <2>1, <2>2, <2>3, <2>4 DEF RowsAreOfTheChoices
<1> QED
  BY <1>2, <1>3

LEMMA FilterKeepsInv ==
  ASSUME BrowseInv, NEW f \in BrowseFilters, NEW vs \in SUBSET Vendors, Filter(f, vs),
         IF Cardinality(vs) = 1 THEN f.vendor \in vs ELSE f.vendor = Anything
  PROVE  BrowseInv'
<1>1. /\ filter' = f /\ vendors' = vs /\ latched' = TRUE
      /\ sort' = [sort EXCEPT !.kind = SwitchedSort] /\ Refetch(f, vs, SwitchedSort)
      /\ UNCHANGED <<rows, sidebar>>
  BY DEF Filter
<1>2. SwitchedSort \in SortKinds
  BY DEF SwitchedSort, SortKinds, BrowseInv, BrowseTypes
<1>3. /\ sort' \in [kind : SortKinds, picked : SortKinds \union {Anything}]
      /\ sort'.kind = SwitchedSort /\ sort'.picked = sort.picked
  BY <1>1, <1>2 DEF BrowseInv, BrowseTypes
<1>4. /\ fetches' \subseteq [key : BrowseKeys, live : BOOLEAN]
      /\ \A c \in fetches' : c.live => c.key = CurrentKey'
      /\ RowsAreOfTheChoices'
  BY <1>1, <1>2, <1>3, RefetchFollows
<1>5. PickedSortStays'
  BY <1>3 DEF PickedSortStays, SwitchedSort, BrowseInv, ChoicesInForce, BrowseFollowsTheChoices
<1>6. PageKnowsTheVendor'
  BY <1>1 DEF PageKnowsTheVendor
<1>7. FocusOnAnEntry'
  BY <1>1 DEF FocusOnAnEntry, ShownTags, BrowseInv, BrowseFollowsTheChoices
<1>8. BrowseTypes'
  BY <1>1, <1>3, <1>4 DEF BrowseInv, BrowseTypes
<1> QED
  BY <1>1, <1>4, <1>5, <1>6, <1>7, <1>8 DEF BrowseInv, ChoicesInForce, BrowseFollowsTheChoices

\* The arrow keys, Home and End stay on the entries shown, and wrap.
LEMMA SidebarKeepsInv ==
  ASSUME BrowseInv, UNCHANGED <<filter, sort, vendors, latched, fetches, rows>>,
         sidebar' \in [expanded : BOOLEAN, focus : Int], FocusOnAnEntry'
  PROVE  BrowseInv'
BY DEF BrowseInv, BrowseTypes, ChoicesInForce, BrowseFollowsTheChoices, CurrentKey,
       RowsAreOfTheChoices, PageKnowsTheVendor, PickedSortStays

LEMMA BrowseInvInit == BrowseInit => BrowseInv
<1> SUFFICES ASSUME BrowseInit PROVE BrowseInv
  OBVIOUS
<1>1. filter \in BrowseFilters /\ vendors \in SUBSET Vendors /\ filter.vendor = Anything
      /\ vendors = {}
  BY DEF BrowseInit, BrowseFilters, NoFilter
<1>2. /\ sort \in [kind : SortKinds, picked : SortKinds \union {Anything}]
      /\ sort.kind = "curator_picked" /\ sort.picked = Anything
  BY DEF BrowseInit, SortKinds
<1>3. fetches = {[key |-> CurrentKey, live |-> TRUE]} /\ CurrentKey \in BrowseKeys
  <2>1. CurrentKey = KeyOf(NoFilter, {}, "curator_picked")
    BY <1>2 DEF CurrentKey, BrowseInit
  <2> QED
    BY <1>1, <1>2, <2>1, KeyTyped DEF BrowseInit, CurrentKey
<1>4. fetches \subseteq [key : BrowseKeys, live : BOOLEAN]
      /\ \A c \in fetches : c.live /\ c.key = CurrentKey
  BY <1>3, FetchTyped
<1>5. RowsAreOfTheChoices
  BY <1>3 DEF RowsAreOfTheChoices
<1>6. PageKnowsTheVendor
  BY <1>1, FS_EmptySet DEF PageKnowsTheVendor
<1>7. sidebar \in [expanded : BOOLEAN, focus : Int] /\ FocusOnAnEntry
      /\ rows \in [list : {rows.list}, error : BOOLEAN]
  BY ShownTagsIsNat DEF BrowseInit, FocusOnAnEntry
<1> QED
  BY <1>1, <1>2, <1>4, <1>5, <1>6, <1>7
     DEF BrowseInv, BrowseTypes, ChoicesInForce, BrowseFollowsTheChoices, PickedSortStays

LEMMA BrowseInvStep == BrowseInv /\ [BrowseNext]_browseVars => BrowseInv'
<1> SUFFICES ASSUME BrowseInv, [BrowseNext]_browseVars PROVE BrowseInv'
  OBVIOUS
<1>0. /\ filter \in BrowseFilters /\ vendors \in SUBSET Vendors /\ sort.kind \in SortKinds
      /\ IF Cardinality(vendors) = 1 THEN filter.vendor \in vendors ELSE filter.vendor = Anything
  BY DEF BrowseInv, BrowseTypes, BrowseFollowsTheChoices, PageKnowsTheVendor
<1>1. ASSUME NEW t \in Tags \union {Anything}, HandleTagSelect(t) PROVE BrowseInv'
  <2>1. [filter EXCEPT !.tag = t] \in BrowseFilters
        /\ [filter EXCEPT !.tag = t].vendor = filter.vendor
    BY <1>0 DEF BrowseFilters
  <2> QED
    BY <1>0, <1>1, <2>1, FilterKeepsInv DEF HandleTagSelect
<1>2. ASSUME NEW p \in PriceTiers \union {Anything}, HandlePricingSelect(p) PROVE BrowseInv'
  <2>1. [filter EXCEPT !.tier = p] \in BrowseFilters
        /\ [filter EXCEPT !.tier = p].vendor = filter.vendor
    BY <1>0 DEF BrowseFilters
  <2> QED
    BY <1>0, <1>2, <2>1, FilterKeepsInv DEF HandlePricingSelect
<1>3. ASSUME NEW v \in Vendors, HandleVendorToggle(v) PROVE BrowseInv'
  <2> DEFINE vs == IF v \in vendors THEN vendors \ {v} ELSE vendors \union {v}
             f == [filter EXCEPT !.vendor = SoleVendor(v, vs)]
  <2>1. vs \in SUBSET Vendors /\ Filter(f, vs)
    BY <1>0, <1>3 DEF HandleVendorToggle
  <2> HIDE DEF vs
  <2>2. /\ SoleVendor(v, vs) \in Vendors \union {Anything}
        /\ IF Cardinality(vs) = 1 THEN SoleVendor(v, vs) \in vs
           ELSE SoleVendor(v, vs) = Anything
    BY <2>1, SoleVendorAgrees
  <2>3. f \in BrowseFilters /\ f.vendor = SoleVendor(v, vs)
    BY <1>0, <2>2 DEF BrowseFilters
  <2> HIDE DEF f
  <2> QED
    BY <2>1, <2>2, <2>3, FilterKeepsInv
<1>4. CASE HandleClearAll
  <2>1. /\ filter' = NoFilter /\ vendors' = {} /\ Refetch(NoFilter, {}, "curator_picked")
        /\ sort' = [kind |-> "curator_picked", picked |-> Anything]
        /\ UNCHANGED <<latched, rows, sidebar>>
    BY <1>4 DEF HandleClearAll
  <2>2. NoFilter \in BrowseFilters /\ NoFilter.vendor = Anything /\ {} \in SUBSET Vendors
    BY DEF NoFilter, BrowseFilters
  <2>3. /\ sort' \in [kind : SortKinds, picked : SortKinds \union {Anything}]
        /\ sort'.kind = "curator_picked" /\ sort'.picked = Anything
        /\ "curator_picked" \in SortKinds
    BY <2>1 DEF SortKinds
  <2>4. /\ fetches' \subseteq [key : BrowseKeys, live : BOOLEAN]
        /\ \A c \in fetches' : c.live => c.key = CurrentKey'
        /\ RowsAreOfTheChoices'
    BY <2>1, <2>2, <2>3, RefetchFollows
  <2>5. PageKnowsTheVendor'
    BY <2>1, <2>2, FS_EmptySet DEF PageKnowsTheVendor
  <2>6. FocusOnAnEntry'
    BY <2>1 DEF FocusOnAnEntry, ShownTags, BrowseInv, BrowseFollowsTheChoices
  <2>7. BrowseTypes'
    BY <2>1, <2>2, <2>3, <2>4 DEF BrowseInv, BrowseTypes
  <2> QED
    BY <2>3, <2>4, <2>5, <2>6, <2>7
       DEF BrowseInv, ChoicesInForce, BrowseFollowsTheChoices, PickedSortStays
<1>5. ASSUME NEW kind \in SortKinds, HandleSortChange(kind) PROVE BrowseInv'
  <2>1. /\ sort' = [kind |-> kind, picked |-> IF latched THEN kind ELSE Anything]
        /\ Refetch(filter, vendors, kind) /\ UNCHANGED <<filter, vendors, latched, rows, sidebar>>
    BY <1>5 DEF HandleSortChange
  <2>2. /\ sort' \in [kind : SortKinds, picked : SortKinds \union {Anything}]
        /\ sort'.kind = kind /\ sort'.picked = IF latched THEN kind ELSE Anything
    BY <2>1
  <2>3. /\ fetches' \subseteq [key : BrowseKeys, live : BOOLEAN]
        /\ \A c \in fetches' : c.live => c.key = CurrentKey'
        /\ RowsAreOfTheChoices'
    BY <1>0, <2>1, <2>2, RefetchFollows
  <2>4. FocusOnAnEntry' /\ PageKnowsTheVendor'
    BY <1>0, <2>1 DEF FocusOnAnEntry, ShownTags, BrowseInv, BrowseFollowsTheChoices,
                      PageKnowsTheVendor
  <2>5. BrowseTypes'
    BY <2>1, <2>2, <2>3 DEF BrowseInv, BrowseTypes
  <2> QED
    BY <2>1, <2>2, <2>3, <2>4, <2>5
       DEF BrowseInv, ChoicesInForce, BrowseFollowsTheChoices, PickedSortStays
<1>6. ASSUME NEW c \in fetches, RowsArrive(c) \/ RowsFail(c) PROVE BrowseInv'
  <2>1. /\ fetches' = fetches \ {c}
        /\ UNCHANGED <<filter, sort, vendors, latched, sidebar>>
        /\ \/ ~c.live /\ rows' = rows
           \/ c.live /\ rows' = [rows EXCEPT !.list = ListBy(c.key)]
           \/ c.live /\ rows' = [rows EXCEPT !.error = TRUE]
    BY <1>6 DEF RowsArrive, RowsFail, Taken
  <2>2. CurrentKey' = CurrentKey
    BY <2>1 DEF CurrentKey
  <2>3. rows' \in [list : {rows'.list}, error : BOOLEAN]
    BY <2>1 DEF BrowseInv, BrowseTypes
  <2>4. (\A d \in fetches' : ~d.live) /\ ~rows'.error => rows'.list = ListBy(CurrentKey)
    <3>1. CASE ~c.live /\ rows' = rows
      BY <2>1, <3>1 DEF BrowseInv, BrowseFollowsTheChoices, RowsAreOfTheChoices, CurrentKey
    <3>2. CASE c.live /\ rows' = [rows EXCEPT !.list = ListBy(c.key)]
      BY <3>2 DEF BrowseInv, BrowseTypes, ChoicesInForce
    <3>3. CASE c.live /\ rows' = [rows EXCEPT !.error = TRUE]
      BY <3>3 DEF BrowseInv, BrowseTypes
    <3> QED
      BY <2>1, <3>1, <3>2, <3>3
  <2>5. RowsAreOfTheChoices'
    BY <2>2, <2>4 DEF RowsAreOfTheChoices, CurrentKey
  <2>6. BrowseTypes'
    BY <2>1, <2>3 DEF BrowseInv, BrowseTypes
  <2> QED
    BY <2>1, <2>2, <2>5, <2>6
       DEF BrowseInv, ChoicesInForce, BrowseFollowsTheChoices, FocusOnAnEntry,
           ShownTags, PageKnowsTheVendor, PickedSortStays
<1>7. ASSUME NEW to \in {"down", "up", "home", "end"}, FocusMoves(to) PROVE BrowseInv'
  <2> DEFINE n == ShownTags
  <2>1. n \in Nat
    BY ShownTagsIsNat
  <2>2. sidebar.focus \in 0..n /\ sidebar \in [expanded : BOOLEAN, focus : Int]
    BY <1>7, <2>1 DEF FocusMoves, BrowseInv, BrowseTypes, BrowseFollowsTheChoices, FocusOnAnEntry
  <2> HIDE DEF n
  <2>3. /\ (sidebar.focus + 1) % (n + 1) \in 0..n
        /\ (sidebar.focus + n) % (n + 1) \in 0..n
    BY <2>1, <2>2
  <2>4. PICK i \in 0..n : sidebar' = [sidebar EXCEPT !.focus = i]
    BY <1>7, <2>1, <2>3 DEF FocusMoves, NextFocus, NextEntry, n
  <2>5. sidebar' \in [expanded : BOOLEAN, focus : Int] /\ sidebar'.focus = i
        /\ sidebar'.expanded = sidebar.expanded
    BY <2>1, <2>2, <2>4
  <2>6. ShownTags' = n
    BY <2>5 DEF ShownTags, n
  <2>7. FocusOnAnEntry'
    BY <2>1, <2>5, <2>6 DEF FocusOnAnEntry
  <2> QED
    BY <1>7, <2>5, <2>7, SidebarKeepsInv DEF FocusMoves
<1>8. ASSUME NEW i \in 0..ShownTags, FocusEntry(i) PROVE BrowseInv'
  <2> DEFINE n == ShownTags
  <2>1. n \in Nat /\ i \in 0..n
    BY ShownTagsIsNat
  <2>2. sidebar' \in [expanded : BOOLEAN, focus : Int] /\ sidebar'.focus = i
        /\ sidebar'.expanded = sidebar.expanded
    BY <1>8, <2>1 DEF FocusEntry, BrowseInv, BrowseTypes
  <2>3. ShownTags' = n
    BY <2>2 DEF ShownTags
  <2> HIDE DEF n
  <2>4. FocusOnAnEntry'
    BY <2>1, <2>2, <2>3 DEF FocusOnAnEntry
  <2> QED
    BY <1>8, <2>2, <2>4, SidebarKeepsInv DEF FocusEntry
<1>9. CASE ToggleExpanded
  <2>1. sidebar' \in [expanded : BOOLEAN, focus : Int] /\ sidebar'.focus = -1
    BY <1>9 DEF ToggleExpanded, BrowseInv, BrowseTypes
  <2>2. ShownTags' \in Nat
    <3>1. (ShownTags \in Nat)'
      BY ShownTagsIsNat, PTL
    <3> QED
      BY <3>1
  <2>3. FocusOnAnEntry'
    BY <2>1, <2>2 DEF FocusOnAnEntry
  <2> QED
    BY <1>9, <2>1, <2>3, SidebarKeepsInv DEF ToggleExpanded
<1>10. CASE UNCHANGED browseVars
  BY <1>10 DEF browseVars, BrowseInv, BrowseTypes, ChoicesInForce, BrowseFollowsTheChoices,
               CurrentKey, RowsAreOfTheChoices, PageKnowsTheVendor, PickedSortStays,
               FocusOnAnEntry, ShownTags
<1> QED
  BY <1>1, <1>2, <1>3, <1>4, <1>5, <1>6, <1>7, <1>8, <1>9, <1>10 DEF BrowseNext

\* The browse page ends with the rows of its choices, its sole vendor, the user's sort and a
\* focus on an entry, for any catalogue and any order of the answers
\* (BrowseCanvas, VendorFilter, CategoryNav).
THEOREM BrowseAgrees == BrowseSpec => []BrowseFollowsTheChoices
<1>1. BrowseInv => BrowseFollowsTheChoices
  BY DEF BrowseInv
<1> QED
  BY <1>1, BrowseInvInit, BrowseInvStep, PTL DEF BrowseSpec

-----------------------------------------------------------------------------
(* The ranked list and the remix chat.                                     *)

Named == Catalog \union {"none"}
RemixForms == [of : Named, value : {"none", "valid", "invalid"}]
RemixChats == [open : BOOLEAN, source : Named, loading : BOOLEAN, error : BOOLEAN,
               listing : Named, form : RemixForms, submitting : BOOLEAN,
               said : Seq({"welcome", "user", "advisor"})]
RemixCalls == [of : Named, form : Named, by : Nat, no : Nat]

RemixTypes ==
  /\ \E S : items \in Seq(S)
  /\ atPage \in Nat
  /\ chat \in RemixChats
  /\ resolves \subseteq [of : Parametric, live : BOOLEAN]
  /\ remixes \subseteq RemixCalls
  /\ turn \in Nat /\ sent \in Nat

\* The resolution that will be heard is for the listing the chat is for; once none is, the
\* chat has that listing or says why not, and the form was made for the listing it has.
HeardForItsListing ==
  /\ \A r \in resolves : r.live => chat.open /\ r.of = chat.source
  /\ chat.open => (chat.loading \/ chat.error \/ chat.listing = chat.source)
  /\ chat.form = NoFields \/ chat.form.of = chat.listing

\* No request is of a chat still to come.
RequestsOfPastChats == \A r \in remixes : r.by <= turn

RemixInv == RemixTypes /\ HeardForItsListing /\ RequestsOfPastChats /\ FormOfItsListing
            /\ OneRemixAtATime

LEMMA RemixInvInit == RemixInit => RemixInv
<1> SUFFICES ASSUME RemixInit PROVE RemixInv
  OBVIOUS
<1>1. <<>> \in Seq({"welcome", "user", "advisor"}) /\ <<>> \in Seq({})
  OBVIOUS
<1>2. NoFields \in RemixForms
  BY DEF NoFields, RemixForms, Named
<1>3. ClosedChat \in RemixChats
  BY <1>1, <1>2 DEF ClosedChat, RemixChats, Named
<1>4. RemixTypes
  BY <1>1, <1>3 DEF RemixInit, RemixTypes
<1>5. HeardForItsListing /\ RequestsOfPastChats /\ FormOfItsListing /\ OneRemixAtATime
  BY DEF RemixInit, HeardForItsListing, RequestsOfPastChats, FormOfItsListing, FormShown,
         OneRemixAtATime, ClosedChat
<1> QED
  BY <1>4, <1>5 DEF RemixInv

\* What a page holds: the page shown starts before the end of the list.
LEMMA PageStartsInTheList ==
  ASSUME NEW n \in Nat \ {0}, NEW size \in Nat \ {0}, NEW c \in Nat,
         c < (n + size - 1) \div size
  PROVE  c * size < n
<1> DEFINE q == (n + size - 1) \div size
<1>1. q \in Int /\ q * size <= n + size - 1
  OBVIOUS
<1>2. c + 1 <= q
  BY <1>1
<1> HIDE DEF q
<1>3. (c + 1) * size <= q * size
  BY <1>1, <1>2
<1>4. (c + 1) * size = c * size + size
  OBVIOUS
<1> QED
  BY <1>1, <1>3, <1>4

LEMMA PagesShowItems ==
  ASSUME NEW S, items \in Seq(S), atPage \in Nat
  PROVE  PageShowsItems /\ TotalPages \in Nat \ {0} /\ ClampedPage \in Nat
<1>0. PAGE_SIZE \in Nat \ {0}
  BY RemixAssumption
<1>1. CASE items = <<>>
  BY <1>1 DEF PageShowsItems, TotalPages, ClampedPage
<1>2. CASE items # <<>>
  <2> DEFINE n == Len(items)
             c == ClampedPage
             end == IF (c + 1) * PAGE_SIZE < n THEN (c + 1) * PAGE_SIZE ELSE n
  <2>1. n \in Nat \ {0}
    BY <1>2
  <2>2. TotalPages = (n + PAGE_SIZE - 1) \div PAGE_SIZE
    BY <1>2 DEF TotalPages
  <2> HIDE DEF n
  <2>3. (n + PAGE_SIZE - 1) \div PAGE_SIZE \in Nat \ {0}
    BY <1>0, <2>1
  <2>4. c \in Nat /\ c < (n + PAGE_SIZE - 1) \div PAGE_SIZE
    BY <2>2, <2>3 DEF ClampedPage
  <2>5. c * PAGE_SIZE < n
    BY <1>0, <2>1, <2>4, PageStartsInTheList
  <2> HIDE DEF c
  <2>6. (c + 1) * PAGE_SIZE \in Nat /\ c * PAGE_SIZE \in Nat /\ (c + 1) * PAGE_SIZE >= c * PAGE_SIZE + 1
    BY <1>0, <2>4
  <2>7. c * PAGE_SIZE + 1 \in Int /\ end \in Int /\ c * PAGE_SIZE + 1 <= end
    BY <2>1, <2>5, <2>6
  <2>8. VisibleItems = SubSeq(items, c * PAGE_SIZE + 1, end)
    BY DEF VisibleItems, c, n
  <2>9. \A i \in (c * PAGE_SIZE + 1)..end : i \in 1..n
    BY <2>1, <2>5, <2>6
  <2>10. \A i \in (c * PAGE_SIZE + 1)..end : items[i] \in S
    BY <2>9 DEF n
  <2> HIDE DEF end
  <2>11. Len(VisibleItems) = end - (c * PAGE_SIZE + 1) + 1
    BY <2>7, <2>8, <2>10, SubSeqProperties
  <2>12. VisibleItems # <<>>
    BY <2>6, <2>7, <2>11
  <2> QED
    BY <2>2, <2>3, <2>4, <2>12 DEF PageShowsItems, c
<1> QED
  BY <1>1, <1>2

\* The chat's forms and answers are typed one field at a time.
LEMMA FormTyped ==
  ASSUME NEW l \in Catalog, NEW v \in {"valid", "invalid"}
  PROVE  FormOf(l, v) \in RemixForms /\ (FormOf(l, v) = NoFields \/ FormOf(l, v).of = l)
BY DEF FormOf, NoFields, RemixForms, Named

LEMMA CancelledAreDead ==
  ASSUME RemixTypes
  PROVE  Cancelled(resolves) \subseteq [of : Parametric, live : BOOLEAN]
         /\ \A r \in Cancelled(resolves) : ~r.live
BY DEF RemixTypes, Cancelled

LEMMA NewResolveTyped ==
  ASSUME NEW l \in Parametric
  PROVE  [of |-> l, live |-> TRUE] \in [of : Parametric, live : BOOLEAN]
OBVIOUS

\* A step that leaves chat and calls alone and keeps the list typed keeps the invariant.
LEMMA ListStepKeepsInv ==
  ASSUME RemixInv, \E S : items' \in Seq(S), atPage' \in Nat,
         UNCHANGED <<chat, resolves, remixes, turn, sent>>
  PROVE  RemixInv'
BY DEF RemixInv, RemixTypes, HeardForItsListing, RequestsOfPastChats, FormOfItsListing,
       FormShown, OneRemixAtATime

LEMMA RemixInvStep == RemixInv /\ [RemixNext]_remixVars => RemixInv'
<1> SUFFICES ASSUME RemixInv, [RemixNext]_remixVars PROVE RemixInv'
  OBVIOUS
<1> USE DEF RemixInv
<1>0. /\ RemixTypes /\ HeardForItsListing /\ RequestsOfPastChats /\ FormOfItsListing
      /\ OneRemixAtATime
  OBVIOUS
<1>a. chat \in RemixChats
  BY DEF RemixTypes
<1>p. TotalPages \in Nat \ {0} /\ ClampedPage \in Nat
  BY PagesShowItems DEF RemixTypes
<1> USE DEF RemixTypes
<1>1. ASSUME NEW q \in Asked, NEW ls \in SUBSET Catalog, RankResults(q, ls) PROVE RemixInv'
  <2>1. Cardinality(ls) \in Nat
    BY RemixAssumption, FS_Subset, FS_CardinalityType
  <2>2. RankedFor(q, ls) \in Seq({ItemAt(q, ls, i) : i \in 1..Cardinality(ls)})
    BY <2>1 DEF RankedFor
  <2> QED
    BY <1>1, <2>2, ListStepKeepsInv DEF RankResults
<1>2. CASE NextPage
  <2>1. atPage' \in Nat
    BY <1>2, <1>p DEF NextPage
  <2> QED
    BY <1>2, <2>1, ListStepKeepsInv DEF NextPage
<1>3. CASE PrevPage
  <2>1. atPage' \in Nat
    BY <1>3 DEF PrevPage, ClampedPage
  <2> QED
    BY <1>3, <2>1, ListStepKeepsInv DEF PrevPage
<1>4. CASE CloseChat
  <2>1. chat' = ClosedChat /\ resolves' = Cancelled(resolves)
        /\ UNCHANGED <<items, atPage, remixes, turn, sent>>
    BY <1>4 DEF CloseChat
  <2>2. ClosedChat \in RemixChats
    <3>1. <<>> \in Seq({"welcome", "user", "advisor"})
      OBVIOUS
    <3> QED
      BY <3>1 DEF ClosedChat, RemixChats, NoFields, RemixForms, Named
  <2> QED
    BY <2>1, <2>2, CancelledAreDead
       DEF HeardForItsListing, RequestsOfPastChats, FormOfItsListing, FormShown,
           OneRemixAtATime, ClosedChat
<1>5. ASSUME NEW l \in Catalog, OpenCustomize(l) PROVE RemixInv'
  <2>1. /\ l \in Parametric
        /\ turn' = (IF chat.open THEN turn ELSE turn + 1)
        /\ resolves' = Cancelled(resolves) \union {[of |-> l, live |-> TRUE]}
        /\ UNCHANGED <<items, atPage, remixes, sent>>
    BY <1>5 DEF OpenCustomize
  <2>2. /\ resolves' \subseteq [of : Parametric, live : BOOLEAN]
        /\ \A r \in resolves' : r.live => r.of = l
    <3>1. [of |-> l, live |-> TRUE] \in [of : Parametric, live : BOOLEAN]
      BY <2>1, NewResolveTyped
    <3> DEFINE n == [of |-> l, live |-> TRUE]
    <3>2. n.of = l
      OBVIOUS
    <3> HIDE DEF n
    <3> QED
      BY <2>1, <3>1, <3>2, CancelledAreDead DEF n
  <2>3. CASE chat.open
    <3>1. chat' = [chat EXCEPT !.source = l, !.loading = TRUE, !.error = FALSE]
      BY <1>5, <2>3 DEF OpenCustomize
    <3>2. /\ chat' \in RemixChats /\ chat'.open = chat.open /\ chat'.source = l
          /\ chat'.loading = TRUE /\ chat'.listing = chat.listing /\ chat'.form = chat.form
          /\ chat'.submitting = chat.submitting
      BY <1>a, <3>1 DEF RemixChats, Named
    <3> QED
      BY <2>1, <2>2, <2>3, <3>2
         DEF HeardForItsListing, RequestsOfPastChats, FormOfItsListing, FormShown, OneRemixAtATime
  <2>4. CASE ~chat.open
    <3>1. chat' = [ClosedChat EXCEPT !.open = TRUE, !.source = l, !.loading = TRUE]
      BY <1>5, <2>4 DEF OpenCustomize
    <3>2. <<>> \in Seq({"welcome", "user", "advisor"})
      OBVIOUS
    <3>3. /\ chat' \in RemixChats /\ chat'.open = TRUE /\ chat'.source = l
          /\ chat'.loading = TRUE /\ chat'.form = NoFields /\ chat'.submitting = FALSE
      BY <3>1, <3>2 DEF ClosedChat, RemixChats, NoFields, RemixForms, Named
    <3>4. turn' = turn + 1 /\ turn \in Nat
      BY <2>1, <2>4
    <3>5. \A r \in remixes : r.by \in Nat /\ r.by <= turn
      BY DEF RequestsOfPastChats, RemixCalls
    <3>6. \A r \in remixes : r.by <= turn' /\ r.by # turn'
      BY <3>4, <3>5
    <3>7. RemixTypes'
      BY <2>1, <2>2, <3>3, <3>4
    <3> QED
      BY <2>1, <2>2, <3>3, <3>6, <3>7
         DEF HeardForItsListing, RequestsOfPastChats, FormOfItsListing, FormShown, OneRemixAtATime
  <2> QED
    BY <2>3, <2>4
<1>6. ASSUME NEW r \in resolves, NEW v \in {"valid", "invalid"}, ResolveFinds(r, v)
      PROVE  RemixInv'
  <2>1. resolves' = resolves \ {r} /\ UNCHANGED <<items, atPage, remixes, turn, sent>>
    BY <1>6 DEF ResolveFinds
  <2>2. CASE ~r.live
    <3>1. chat' = chat
      BY <1>6, <2>2 DEF ResolveFinds, Heeded
    <3> QED
      BY <2>1, <3>1
         DEF HeardForItsListing, RequestsOfPastChats, FormOfItsListing, FormShown, OneRemixAtATime
  <2>3. CASE r.live
    <3>1. r.of \in Catalog /\ chat.open /\ r.of = chat.source
      BY <2>3, RemixAssumption DEF HeardForItsListing
    <3>2. chat' = [chat EXCEPT !.listing = r.of, !.form = FormOf(r.of, v),
                               !.said = <<"welcome">>, !.loading = FALSE]
      BY <1>6, <2>3 DEF ResolveFinds, Heeded
    <3>3. <<"welcome">> \in Seq({"welcome", "user", "advisor"})
      OBVIOUS
    <3>4. FormOf(r.of, v) \in RemixForms /\ (FormOf(r.of, v) = NoFields \/ FormOf(r.of, v).of = r.of)
      BY <3>1, FormTyped
    <3>5. /\ chat' \in RemixChats /\ chat'.open = chat.open /\ chat'.source = chat.source
          /\ chat'.listing = r.of /\ chat'.form = FormOf(r.of, v)
          /\ chat'.submitting = chat.submitting
      BY <1>a, <3>1, <3>2, <3>3, <3>4 DEF RemixChats, Named
    <3> QED
      BY <2>1, <3>1, <3>4, <3>5
         DEF HeardForItsListing, RequestsOfPastChats, FormOfItsListing, FormShown, OneRemixAtATime
  <2> QED
    BY <2>2, <2>3
<1>7. ASSUME NEW r \in resolves, NEW gone \in BOOLEAN, ResolveRefuses(r, gone) PROVE RemixInv'
  <2>1. resolves' = resolves \ {r} /\ UNCHANGED <<items, atPage, remixes, turn, sent>>
    BY <1>7 DEF ResolveRefuses
  <2>2. CASE ~r.live
    <3>1. chat' = chat
      BY <1>7, <2>2 DEF ResolveRefuses, Heeded
    <3> QED
      BY <2>1, <3>1
         DEF HeardForItsListing, RequestsOfPastChats, FormOfItsListing, FormShown, OneRemixAtATime
  <2>3. CASE r.live /\ gone
    <3>1. chat' = [chat EXCEPT !.error = TRUE, !.loading = FALSE, !.listing = "none",
                               !.form = NoFields]
      BY <1>7, <2>3 DEF ResolveRefuses, Heeded
    <3>2. /\ chat' \in RemixChats /\ chat'.open = chat.open /\ chat'.source = chat.source
          /\ chat'.error = TRUE /\ chat'.form = NoFields /\ chat'.submitting = chat.submitting
      BY <1>a, <3>1 DEF RemixChats, Named, NoFields, RemixForms
    <3> QED
      BY <2>1, <3>2
         DEF HeardForItsListing, RequestsOfPastChats, FormOfItsListing, FormShown, OneRemixAtATime
  <2>4. CASE r.live /\ ~gone
    <3>1. chat' = [chat EXCEPT !.error = TRUE, !.loading = FALSE]
      BY <1>7, <2>4 DEF ResolveRefuses, Heeded
    <3>2. /\ chat' \in RemixChats /\ chat'.open = chat.open /\ chat'.source = chat.source
          /\ chat'.error = TRUE /\ chat'.form = chat.form /\ chat'.listing = chat.listing
          /\ chat'.submitting = chat.submitting
      BY <1>a, <3>1 DEF RemixChats
    <3> QED
      BY <2>1, <3>2
         DEF HeardForItsListing, RequestsOfPastChats, FormOfItsListing, FormShown, OneRemixAtATime
  <2> QED
    BY <2>2, <2>3, <2>4
<1>8. ASSUME NEW v \in {"valid", "invalid"}, UpdateField(v) PROVE RemixInv'
  <2>1. /\ chat' = [chat EXCEPT !.form.value = v] /\ chat.form # NoFields
        /\ UNCHANGED <<items, atPage, resolves, remixes, turn, sent>>
    BY <1>8 DEF UpdateField, FormShown
  <2> DEFINE f == [chat.form EXCEPT !.value = v]
  <2>2. f \in RemixForms /\ f.of = chat.form.of
    BY <1>a DEF RemixForms, RemixChats
  <2>3. chat' = [chat EXCEPT !.form = f]
    BY <1>a, <2>1 DEF RemixChats
  <2> HIDE DEF f
  <2>4. /\ chat' \in RemixChats /\ chat'.open = chat.open /\ chat'.source = chat.source
        /\ chat'.form = f /\ chat'.listing = chat.listing /\ chat'.loading = chat.loading
        /\ chat'.error = chat.error /\ chat'.submitting = chat.submitting
    BY <1>a, <2>2, <2>3 DEF RemixChats
  <2> QED
    BY <2>1, <2>2, <2>4
       DEF HeardForItsListing, RequestsOfPastChats, FormOfItsListing, FormShown, OneRemixAtATime
<1>9. CASE SubmitRemix
  <2> DEFINE n == [of |-> chat.listing, form |-> chat.form.of, by |-> turn, no |-> sent]
  <2>1. /\ chat.open /\ chat.submitting = FALSE /\ chat.form # NoFields
        /\ chat' = [chat EXCEPT !.submitting = TRUE, !.said = Append(@, "user")]
        /\ remixes' = remixes \union {n} /\ sent' = sent + 1
        /\ UNCHANGED <<items, atPage, resolves, turn>>
    BY <1>9, <1>a DEF SubmitRemix, MaySend, FormShown, RemixChats
  <2>2. n \in RemixCalls /\ n.by = turn /\ n.form = n.of
    BY <1>a, <2>1 DEF RemixCalls, RemixChats, RemixForms, HeardForItsListing
  <2> HIDE DEF n
  <2>3. Append(chat.said, "user") \in Seq({"welcome", "user", "advisor"})
    BY <1>a DEF RemixChats
  <2>4. /\ chat' \in RemixChats /\ chat'.open = chat.open /\ chat'.source = chat.source
        /\ chat'.form = chat.form /\ chat'.listing = chat.listing
        /\ chat'.loading = chat.loading /\ chat'.error = chat.error
        /\ chat'.submitting = TRUE
    BY <1>a, <2>1, <2>3 DEF RemixChats
  <2>5. \A r \in remixes : r.by # turn
    BY <2>1 DEF OneRemixAtATime
  <2>6. RemixTypes' /\ RequestsOfPastChats'
    BY <2>1, <2>2, <2>4 DEF RequestsOfPastChats
  <2>7. OneRemixAtATime'
    BY <2>1, <2>2, <2>4, <2>5 DEF OneRemixAtATime
  <2> QED
    BY <2>1, <2>2, <2>4, <2>6, <2>7 DEF HeardForItsListing, FormOfItsListing, FormShown
<1>10. ASSUME NEW r \in remixes, RemixAnswers(r) PROVE RemixInv'
  <2>1. remixes' = remixes \ {r} /\ UNCHANGED <<items, atPage, resolves, turn, sent>>
    BY <1>10 DEF RemixAnswers
  <2>2. CASE chat.open /\ r.by = turn
    <3>1. chat' = [chat EXCEPT !.submitting = FALSE, !.said = Append(@, "advisor")]
      BY <1>10, <2>2 DEF RemixAnswers
    <3>2. Append(chat.said, "advisor") \in Seq({"welcome", "user", "advisor"})
      BY <1>a DEF RemixChats
    <3>3. /\ chat' \in RemixChats /\ chat'.open = chat.open /\ chat'.source = chat.source
          /\ chat'.form = chat.form /\ chat'.listing = chat.listing
          /\ chat'.loading = chat.loading /\ chat'.error = chat.error
          /\ chat'.submitting = FALSE
      BY <1>a, <3>1, <3>2 DEF RemixChats
    <3>4. \A s \in remixes' : s.by # turn
      BY <2>1, <2>2 DEF OneRemixAtATime
    <3> QED
      BY <2>1, <3>3, <3>4
         DEF HeardForItsListing, RequestsOfPastChats, FormOfItsListing, FormShown, OneRemixAtATime
  <2>3. CASE ~(chat.open /\ r.by = turn)
    <3>1. chat' = chat
      BY <1>10, <2>3 DEF RemixAnswers
    <3> QED
      BY <2>1, <2>3, <3>1
         DEF HeardForItsListing, RequestsOfPastChats, FormOfItsListing, FormShown, OneRemixAtATime
  <2> QED
    BY <2>2, <2>3
<1>11. CASE UNCHANGED remixVars
  BY <1>11 DEF remixVars, HeardForItsListing, RequestsOfPastChats, FormOfItsListing, FormShown,
               OneRemixAtATime
<1> QED
  BY <1>1, <1>2, <1>3, <1>4, <1>5, <1>6, <1>7, <1>8, <1>9, <1>10, <1>11 DEF RemixNext

\* A page of results is never empty, the form on screen is of the listing the chat is for, and
\* a chat has one request under way, for any catalogue, page size and order of the answers
\* (ResultList, LivingTemplateChat).
THEOREM RemixAgrees == RemixSpec => []RemixOfTheListingShown
<1>1. RemixInv => RemixOfTheListingShown
  BY PagesShowItems DEF RemixInv, RemixTypes, RemixOfTheListingShown
<1> QED
  BY <1>1, RemixInvInit, RemixInvStep, PTL DEF RemixSpec

-----------------------------------------------------------------------------
(* The listing form.                                                       *)

FormBuffers == [name : FormNames, slug : FormSlugs, tags : 0..TAGS_CAP, price : PriceEdits,
                params : Params]
FormSteps == {"identity_check", "metadata_entry", "capability_selection",
              "pricing_configuration", "living_template_definition", "preview_confirm",
              "publish_result"}
FormDocs == [step : FormSteps, listing : FormBuffers]

SubmissionTypes ==
  /\ draft \in FormDocs \union {NoForm} /\ saving \in FormDocs \union {NoForm}
  /\ drafts \in [doc : FormDocs \union {NoForm}, listed : BOOLEAN]
  /\ buffer \in FormBuffers /\ late \in Nat
  /\ handed \in [kind : {"none", "step", "publish"}, listing : FormBuffers]

\* The groups of the steps before a step are valid in a listing.
ValidBefore(step, l) ==
  /\ step \in {"capability_selection", "pricing_configuration", "living_template_definition",
               "preview_confirm"} => MetadataErrors(l) = {}
  /\ step \in {"pricing_configuration", "living_template_definition", "preview_confirm"}
       => CapabilityErrors(l) = {}
  /\ step \in {"living_template_definition", "preview_confirm"} => PricingErrors(l) = {}
  /\ step = "preview_confirm" => LivingErrors(l) = {}

\* Without late edits the steps left behind are valid, in what the parent has, in the buffer,
\* in what is being saved and in what was saved; and the step handed over is valid too.
StepsBehindAreValid ==
  /\ ValidBefore(draft.step, draft.listing) /\ ValidBefore(draft.step, buffer)
  /\ ValidBefore(saving.step, saving.listing)
  /\ ValidBefore(drafts.doc.step, drafts.doc.listing)
  /\ handed.kind = "step" => /\ ErrorsForStep(draft.step, buffer) = {}
                             /\ ErrorsForStep(draft.step, handed.listing) = {}
                             /\ ValidBefore(draft.step, handed.listing)

\* What is handed over is of the step the form is at.
HandedAtItsStep ==
  /\ handed.kind = "step" => draft.step \notin {"unmounted", "preview_confirm", "publish_result"}
  /\ handed.kind = "publish" => draft.step = "preview_confirm"

SubmissionInv ==
  /\ SubmissionTypes /\ HandedAtItsStep /\ PublishedListingComplete
  /\ late = 0 => StepsBehindAreValid

LEMMA FullErrorsAreTheGroups ==
  ASSUME NEW l
  PROVE  FullErrors(l) = {} <=> ValidBefore("preview_confirm", l)
<1>1. ValidBefore("preview_confirm", l)
        <=> /\ MetadataErrors(l) = {} /\ CapabilityErrors(l) = {}
            /\ PricingErrors(l) = {} /\ LivingErrors(l) = {}
  BY DEF ValidBefore
<1>2. \A A, B : A \union B = {} <=> (A = {} /\ B = {})
  OBVIOUS
<1> QED
  BY <1>1, <1>2 DEF FullErrors

LEMMA EmptyBufferTyped == EmptyBuffer \in FormBuffers
<1>1. "" \in FormNames /\ "" \in FormSlugs
  BY SubmissionAssumption
<1>2. 0 \in 0..TAGS_CAP
  <2>1. TAGS_CAP \in Nat
    BY SubmissionAssumption
  <2> QED
    BY <2>1
<1>3. "refused" \in PriceEdits /\ "valid" \in Params
  BY DEF PriceEdits, Params
<1> QED
  BY <1>1, <1>2, <1>3 DEF EmptyBuffer, FormBuffers

LEMMA NothingBeforeTheFirst ==
  ASSUME NEW l, NEW step \in {"unmounted", "identity_check", "metadata_entry", "publish_result"}
  PROVE  ValidBefore(step, l)
BY DEF ValidBefore

LEMMA SubmissionInvInit == SubmissionInit => SubmissionInv
<1> SUFFICES ASSUME SubmissionInit PROVE SubmissionInv
  OBVIOUS
<1>1. SubmissionTypes
  BY EmptyBufferTyped DEF SubmissionInit, SubmissionTypes, NothingHanded
<1>2. HandedAtItsStep /\ PublishedListingComplete
  BY DEF SubmissionInit, HandedAtItsStep, PublishedListingComplete, NothingHanded
<1>3. StepsBehindAreValid
  BY NothingBeforeTheFirst DEF SubmissionInit, StepsBehindAreValid, NothingHanded, NoForm
<1> QED
  BY <1>1, <1>2, <1>3 DEF SubmissionInv

\* The step after each, as the switch of the code lists them.
LEMMA NextStepIs ==
  /\ NextStep("identity_check") = "metadata_entry"
  /\ NextStep("metadata_entry") = "capability_selection"
  /\ NextStep("capability_selection") = "pricing_configuration"
  /\ NextStep("pricing_configuration") = "living_template_definition"
  /\ NextStep("living_template_definition") = "preview_confirm"
<1>1. VisibleSteps[1] = "metadata_entry" /\ VisibleSteps[2] = "capability_selection"
      /\ VisibleSteps[3] = "pricing_configuration"
      /\ VisibleSteps[4] = "living_template_definition" /\ VisibleSteps[5] = "preview_confirm"
  BY DEF VisibleSteps
<1>2. ASSUME NEW k \in 1..4
      PROVE  (CHOOSE i \in 1..4 : VisibleSteps[i] = VisibleSteps[k]) = k
  <2>1. \A i \in 1..4 : VisibleSteps[i] = VisibleSteps[k] => i = k
    <3>1. \A i \in 1..4 : i = 1 \/ i = 2 \/ i = 3 \/ i = 4
      OBVIOUS
    <3> QED
      BY <1>1, <3>1
  <2> QED
    BY <2>1
<1>3. \A k \in 1..4 : NextStep(VisibleSteps[k]) = VisibleSteps[1 + k]
  <2> SUFFICES ASSUME NEW k \in 1..4 PROVE NextStep(VisibleSteps[k]) = VisibleSteps[1 + k]
    OBVIOUS
  <2>1. VisibleSteps[k] # "identity_check"
    <3>1. k = 1 \/ k = 2 \/ k = 3 \/ k = 4
      OBVIOUS
    <3> QED
      BY <1>1, <3>1
  <2>2. NextStep(VisibleSteps[k])
          = VisibleSteps[1 + CHOOSE i \in 1..4 : VisibleSteps[i] = VisibleSteps[k]]
    BY <2>1 DEF NextStep
  <2> QED
    BY <1>2, <2>2
<1>4. NextStep("identity_check") = VisibleSteps[1]
  BY DEF NextStep
<1>5. /\ NextStep(VisibleSteps[1]) = VisibleSteps[2]
      /\ NextStep(VisibleSteps[2]) = VisibleSteps[3]
      /\ NextStep(VisibleSteps[3]) = VisibleSteps[4]
      /\ NextStep(VisibleSteps[4]) = VisibleSteps[5]
  <2>1. 1 \in 1..4 /\ 2 \in 1..4 /\ 3 \in 1..4 /\ 4 \in 1..4
        /\ 1 + 1 = 2 /\ 1 + 2 = 3 /\ 1 + 3 = 4 /\ 1 + 4 = 5
    OBVIOUS
  <2> QED
    BY <1>3, <2>1
<1> QED
  BY <1>1, <1>4, <1>5

\* A listing with the groups before a step and the step itself is valid before the next one.
LEMMA StepCompletes ==
  ASSUME NEW l, NEW step \in FormSteps \ {"preview_confirm", "publish_result"},
         ValidBefore(step, l), ErrorsForStep(step, l) = {}
  PROVE  NextStep(step) \in FormSteps /\ ValidBefore(NextStep(step), l)
<1>1. CASE step = "identity_check"
  BY <1>1, NextStepIs, NothingBeforeTheFirst DEF FormSteps
<1>2. CASE step = "metadata_entry"
  BY <1>2, NextStepIs DEF FormSteps, ValidBefore, ErrorsForStep
<1>3. CASE step = "capability_selection"
  BY <1>3, NextStepIs DEF FormSteps, ValidBefore, ErrorsForStep
<1>4. CASE step = "pricing_configuration"
  BY <1>4, NextStepIs DEF FormSteps, ValidBefore, ErrorsForStep
<1>5. CASE step = "living_template_definition"
  BY <1>5, NextStepIs DEF FormSteps, ValidBefore, ErrorsForStep
<1> QED
  BY <1>1, <1>2, <1>3, <1>4, <1>5 DEF FormSteps

\* The patch of a step brings in the buffer's group and leaves the groups before alone.
LEMMA PatchOfAStep ==
  ASSUME buffer \in FormBuffers, NEW l \in FormBuffers,
         NEW step \in FormSteps \ {"preview_confirm", "publish_result"}
  PROVE  /\ Patched(step, l) \in FormBuffers
         /\ ErrorsForStep(step, Patched(step, l)) = ErrorsForStep(step, buffer)
         /\ ValidBefore(step, l) => ValidBefore(step, Patched(step, l))
<1>1. CASE step = "identity_check"
  BY <1>1, NothingBeforeTheFirst DEF Patched, ErrorsForStep
<1>2. CASE step = "metadata_entry"
  <2>1. Patched(step, l) = [l EXCEPT !.name = buffer.name, !.slug = buffer.slug]
    BY <1>2 DEF Patched
  <2>2. Patched(step, l) \in FormBuffers /\ Patched(step, l).name = buffer.name
        /\ Patched(step, l).slug = buffer.slug
    BY <2>1 DEF FormBuffers
  <2> QED
    BY <1>2, <2>2, NothingBeforeTheFirst DEF ErrorsForStep, MetadataErrors
<1>3. CASE step = "capability_selection"
  <2>1. Patched(step, l) = [l EXCEPT !.tags = buffer.tags]
    BY <1>3 DEF Patched
  <2>2. Patched(step, l) \in FormBuffers /\ Patched(step, l).tags = buffer.tags
        /\ Patched(step, l).name = l.name /\ Patched(step, l).slug = l.slug
    BY <2>1 DEF FormBuffers
  <2> QED
    BY <1>3, <2>2 DEF ErrorsForStep, CapabilityErrors, MetadataErrors, ValidBefore
<1>4. CASE step = "pricing_configuration"
  <2>1. Patched(step, l) = [l EXCEPT !.price = buffer.price]
    BY <1>4 DEF Patched
  <2>2. Patched(step, l) \in FormBuffers /\ Patched(step, l).price = buffer.price
        /\ Patched(step, l).name = l.name /\ Patched(step, l).slug = l.slug
        /\ Patched(step, l).tags = l.tags
    BY <2>1 DEF FormBuffers
  <2> QED
    BY <1>4, <2>2
       DEF ErrorsForStep, PricingErrors, CapabilityErrors, MetadataErrors, ValidBefore
<1>5. CASE step = "living_template_definition"
  <2>1. Patched(step, l) = [l EXCEPT !.params = buffer.params]
    BY <1>5 DEF Patched
  <2>2. Patched(step, l) \in FormBuffers /\ Patched(step, l).params = buffer.params
        /\ Patched(step, l).name = l.name /\ Patched(step, l).slug = l.slug
        /\ Patched(step, l).tags = l.tags /\ Patched(step, l).price = l.price
    BY <2>1 DEF FormBuffers
  <2> QED
    BY <1>5, <2>2
       DEF ErrorsForStep, LivingErrors, PricingErrors, CapabilityErrors, MetadataErrors,
           ValidBefore
<1> QED
  BY <1>1, <1>2, <1>3, <1>4, <1>5 DEF FormSteps

\* A listing that is resumed beyond its first step has a slug already: the automatic slug
\* changes nothing of it.
LEMMA HydrationKeepsSteps ==
  ASSUME buffer \in FormBuffers, NEW d \in FormDocs
  PROVE  Hydrated(d) \in FormBuffers
         /\ (ValidBefore(d.step, d.listing) => ValidBefore(d.step, Hydrated(d)))
<1> DEFINE l == d.listing
<1>1. l \in FormBuffers
  BY DEF FormDocs
<1>2. CASE l.slug # ""
  <2>1. Hydrated(d) = l
    BY <1>2 DEF Hydrated
  <2> QED
    BY <1>1, <2>1
<1>3. CASE l.slug = ""
  <2> DEFINE new == IF l.name # buffer.name THEN SlugFrom[l.name]
                    ELSE IF SlugFrom[buffer.name] # buffer.slug THEN SlugFrom[buffer.name]
                         ELSE l.slug
  <2>1. Hydrated(d) = [l EXCEPT !.slug = new]
    BY <1>3 DEF Hydrated
  <2>2. new \in FormSlugs
    BY <1>1, SubmissionAssumption DEF FormBuffers
  <2> HIDE DEF new
  <2>3. Hydrated(d) \in FormBuffers
    BY <1>1, <2>1, <2>2 DEF FormBuffers
  <2>4. MetadataErrors(l) # {}
    BY <1>3, SubmissionAssumption DEF MetadataErrors
  <2>5. ValidBefore(d.step, l) => d.step \in {"identity_check", "metadata_entry", "publish_result"}
    BY <2>4 DEF ValidBefore, FormDocs, FormSteps
  <2> QED
    BY <2>3, <2>5, NothingBeforeTheFirst
<1> QED
  BY <1>2, <1>3

LEMMA MountKeepsInv ==
  ASSUME SubmissionInv, NEW d \in FormDocs, MountForm(d),
         late = 0 => ValidBefore(d.step, d.listing)
  PROVE  SubmissionInv'
<1>1. /\ draft' = d /\ buffer' = Hydrated(d) /\ handed.kind = "none"
      /\ UNCHANGED <<handed, saving, drafts, late>>
  BY DEF MountForm, Idle
<1>2. Hydrated(d) \in FormBuffers
      /\ (ValidBefore(d.step, d.listing) => ValidBefore(d.step, Hydrated(d)))
  BY HydrationKeepsSteps DEF SubmissionInv, SubmissionTypes
<1>3. SubmissionTypes'
  BY <1>1, <1>2 DEF SubmissionInv, SubmissionTypes
<1>4. late' = 0 => StepsBehindAreValid'
  BY <1>1, <1>2 DEF SubmissionInv, StepsBehindAreValid
<1> QED
  BY <1>1, <1>3, <1>4 DEF SubmissionInv, HandedAtItsStep, PublishedListingComplete

\* An edit that is in time is of the step the form is at: the steps behind keep their groups.
LEMMA EditKeepsInv ==
  ASSUME SubmissionInv, NEW step \in FormSteps, NEW b \in FormBuffers, Edit(step, b),
         ValidBefore(step, buffer) => ValidBefore(step, b)
  PROVE  SubmissionInv'
<1>1. /\ buffer' = b /\ late' = (IF TooLate THEN late + 1 ELSE late)
      /\ UNCHANGED <<draft, handed, saving, drafts>>
  BY DEF Edit
<1>2. late' \in Nat /\ (late' = 0 => late = 0 /\ ~TooLate)
  BY <1>1 DEF SubmissionInv, SubmissionTypes
<1>3. ASSUME late' = 0 PROVE StepsBehindAreValid'
  <2>1. StepsBehindAreValid
    BY <1>2, <1>3 DEF SubmissionInv
  <2>2. draft.step = step /\ handed.kind # "step"
    BY <1>2, <1>3 DEF TooLate, ShownStep, Edit
  <2> QED
    BY <1>1, <2>1, <2>2 DEF StepsBehindAreValid
<1>4. SubmissionTypes'
  BY <1>1, <1>2 DEF SubmissionInv, SubmissionTypes
<1> QED
  BY <1>1, <1>3, <1>4 DEF SubmissionInv, HandedAtItsStep, PublishedListingComplete

LEMMA SubmissionInvStep == SubmissionInv /\ [SubmissionNext]_submissionVars => SubmissionInv'
<1> SUFFICES ASSUME SubmissionInv, [SubmissionNext]_submissionVars PROVE SubmissionInv'
  OBVIOUS
<1>0. /\ SubmissionTypes /\ HandedAtItsStep /\ PublishedListingComplete
      /\ late = 0 => StepsBehindAreValid
  BY DEF SubmissionInv
<1>b. buffer \in FormBuffers /\ draft \in FormDocs \union {NoForm} /\ NoForm \notin FormDocs
      /\ NoForm.step = "unmounted" /\ "unmounted" \notin FormSteps
  BY <1>0 DEF SubmissionTypes, NoForm, FormDocs, FormSteps
<1>1. CASE NewSubmission
  <2> DEFINE d == [step |-> "identity_check", listing |-> EmptyBuffer]
  <2>1. d \in FormDocs /\ d.step = "identity_check"
    BY EmptyBufferTyped DEF FormDocs, FormSteps
  <2>2. ValidBefore(d.step, d.listing)
    BY <2>1, NothingBeforeTheFirst
  <2> QED
    BY <1>1, <2>1, <2>2, MountKeepsInv DEF NewSubmission
<1>2. CASE ResumeDraft
  <2>1. drafts.doc \in FormDocs
    BY <1>0, <1>2 DEF ResumeDraft, SubmissionTypes
  <2>2. late = 0 => ValidBefore(drafts.doc.step, drafts.doc.listing)
    BY <1>0 DEF StepsBehindAreValid
  <2> QED
    BY <1>2, <2>1, <2>2, MountKeepsInv DEF ResumeDraft
<1>3. CASE CancelForm
  <2>1. draft' = NoForm /\ handed.kind = "none" /\ UNCHANGED <<buffer, handed, saving, drafts, late>>
    BY <1>3 DEF CancelForm, Idle
  <2>2. ValidBefore(draft'.step, draft'.listing) /\ ValidBefore(draft'.step, buffer)
    BY <1>b, <2>1, NothingBeforeTheFirst
  <2> QED
    BY <1>0, <2>1, <2>2 DEF SubmissionInv, SubmissionTypes, HandedAtItsStep,
                            PublishedListingComplete, StepsBehindAreValid
<1>4. CASE ExitDone
  BY <1>0, <1>4 DEF ExitDone, SubmissionInv, SubmissionTypes, HandedAtItsStep,
                    PublishedListingComplete, StepsBehindAreValid
<1>5. ASSUME NEW n \in FormNames, EditName(n) PROVE SubmissionInv'
  <2> DEFINE s == IF form.auto /\ n # buffer.name THEN SlugFrom[n] ELSE buffer.slug
             b == [buffer EXCEPT !.name = n, !.slug = s]
  <2>1. s \in FormSlugs
    BY <1>b, SubmissionAssumption DEF FormBuffers
  <2>2. Edit("metadata_entry", b)
    BY <1>5 DEF EditName
  <2> HIDE DEF s
  <2>3. b \in FormBuffers
    BY <1>b, <2>1 DEF FormBuffers
  <2> HIDE DEF b
  <2> QED
    BY <2>2, <2>3, EditKeepsInv, NothingBeforeTheFirst DEF FormSteps
<1>6. ASSUME NEW s \in FormSlugs, EditSlug(s) PROVE SubmissionInv'
  <2>1. [buffer EXCEPT !.slug = s] \in FormBuffers
    BY <1>b DEF FormBuffers
  <2> QED
    BY <1>6, <2>1, EditKeepsInv, NothingBeforeTheFirst DEF FormSteps, EditSlug
<1>7. ASSUME NEW n \in 0..TAGS_CAP, ToggleCapability(n) PROVE SubmissionInv'
  <2> DEFINE b == [buffer EXCEPT !.tags = n]
  <2>1. b \in FormBuffers /\ b.name = buffer.name /\ b.slug = buffer.slug
    BY <1>b DEF FormBuffers
  <2>2. Edit("capability_selection", b)
    BY <1>7 DEF ToggleCapability
  <2> HIDE DEF b
  <2>3. ValidBefore("capability_selection", buffer) => ValidBefore("capability_selection", b)
    BY <2>1 DEF ValidBefore, MetadataErrors
  <2> QED
    BY <2>1, <2>2, <2>3, EditKeepsInv DEF FormSteps
<1>8. ASSUME NEW p \in PriceEdits, EditPrice(p) PROVE SubmissionInv'
  <2> DEFINE b == [buffer EXCEPT !.price = p]
  <2>1. b \in FormBuffers /\ b.name = buffer.name /\ b.slug = buffer.slug /\ b.tags = buffer.tags
    BY <1>b DEF FormBuffers
  <2>2. Edit("pricing_configuration", b)
    BY <1>8 DEF EditPrice
  <2> HIDE DEF b
  <2>3. ValidBefore("pricing_configuration", buffer) => ValidBefore("pricing_configuration", b)
    BY <2>1 DEF ValidBefore, MetadataErrors, CapabilityErrors
  <2> QED
    BY <2>1, <2>2, <2>3, EditKeepsInv DEF FormSteps
<1>9. ASSUME NEW p \in Params, EditParams(p) PROVE SubmissionInv'
  <2> DEFINE b == [buffer EXCEPT !.params = p]
  <2>1. b \in FormBuffers /\ b.name = buffer.name /\ b.slug = buffer.slug /\ b.tags = buffer.tags
        /\ b.price = buffer.price
    BY <1>b DEF FormBuffers
  <2>2. Edit("living_template_definition", b)
    BY <1>9 DEF EditParams
  <2> HIDE DEF b
  <2>3. ValidBefore("living_template_definition", buffer)
          => ValidBefore("living_template_definition", b)
    BY <2>1 DEF ValidBefore, MetadataErrors, CapabilityErrors, PricingErrors
  <2> QED
    BY <2>1, <2>2, <2>3, EditKeepsInv DEF FormSteps
<1>10. CASE HandleAdvance
  <2> DEFINE l == Patched(draft.step, draft.listing)
  <2>1. /\ draft.step \notin {"unmounted", "preview_confirm", "publish_result"}
        /\ handed.kind = "none"
        /\ handed' = (IF ErrorsForStep(draft.step, l) # {} THEN handed
                      ELSE [kind |-> "step", listing |-> l])
        /\ UNCHANGED <<draft, buffer, saving, leaving, drafts, late>>
    BY <1>10 DEF HandleAdvance, Idle
  <2>2. draft \in FormDocs
    BY <1>b, <2>1
  <2>3. draft.listing \in FormBuffers
        /\ draft.step \in FormSteps \ {"preview_confirm", "publish_result"}
    BY <2>1, <2>2 DEF FormDocs
  <2>4. /\ l \in FormBuffers
        /\ ErrorsForStep(draft.step, l) = ErrorsForStep(draft.step, buffer)
        /\ ValidBefore(draft.step, draft.listing) => ValidBefore(draft.step, l)
    BY <1>b, <2>3, PatchOfAStep
  <2> HIDE DEF l
  <2>5. CASE ErrorsForStep(draft.step, l) # {}
    BY <1>0, <2>1, <2>5 DEF SubmissionInv, SubmissionTypes, HandedAtItsStep,
                            PublishedListingComplete, StepsBehindAreValid
  <2>6. CASE ErrorsForStep(draft.step, l) = {}
    <3>1. handed' = [kind |-> "step", listing |-> l]
      BY <2>1, <2>6
    <3>2. /\ handed' \in [kind : {"none", "step", "publish"}, listing : FormBuffers]
          /\ handed'.kind = "step" /\ handed'.listing = l
      BY <2>4, <3>1
    <3> QED
      BY <1>0, <2>1, <2>4, <2>6, <3>2 DEF SubmissionInv, SubmissionTypes, HandedAtItsStep,
                                          PublishedListingComplete, StepsBehindAreValid
  <2> QED
    BY <2>5, <2>6
<1>11. CASE HandlePublish
  <2>0. Assembled(buffer) = buffer
    BY <1>b DEF Assembled, FormBuffers
  <2>1. /\ draft.step = "preview_confirm" /\ handed.kind = "none"
        /\ handed' = (IF FullErrors(buffer) # {} THEN handed
                      ELSE [kind |-> "publish", listing |-> buffer])
        /\ UNCHANGED <<draft, buffer, saving, leaving, drafts, late>>
    BY <1>11, <2>0 DEF HandlePublish, Idle
  <2>2. CASE FullErrors(buffer) # {}
    BY <1>0, <2>1, <2>2 DEF SubmissionInv, SubmissionTypes, HandedAtItsStep,
                            PublishedListingComplete, StepsBehindAreValid
  <2>3. CASE FullErrors(buffer) = {}
    <3>1. handed' = [kind |-> "publish", listing |-> buffer]
      BY <2>1, <2>3
    <3>2. /\ handed' \in [kind : {"none", "step", "publish"}, listing : FormBuffers]
          /\ handed'.kind = "publish" /\ handed'.listing = buffer
      BY <1>b, <3>1
    <3> QED
      BY <1>0, <2>1, <2>3, <3>2 DEF SubmissionInv, SubmissionTypes, HandedAtItsStep,
                                    PublishedListingComplete, StepsBehindAreValid
  <2> QED
    BY <2>2, <2>3
<1>12. CASE HandleSaveDraft
  <2>1. /\ draft \in FormDocs /\ saving' = [step |-> draft.step, listing |-> buffer]
        /\ UNCHANGED <<draft, buffer, handed, leaving, drafts, late>>
    <3>1. draft.step \in {VisibleSteps[i] : i \in 1..5}
      BY <1>12 DEF HandleSaveDraft
    <3>2. "unmounted" \notin {VisibleSteps[i] : i \in 1..5}
      <4>1. \A i \in 1..5 : i = 1 \/ i = 2 \/ i = 3 \/ i = 4 \/ i = 5
        OBVIOUS
      <4> QED
        BY <4>1 DEF VisibleSteps
    <3> QED
      BY <1>12, <1>b, <3>1, <3>2 DEF HandleSaveDraft
  <2>2. saving' \in FormDocs /\ saving'.step = draft.step /\ saving'.listing = buffer
    BY <1>b, <2>1 DEF FormDocs
  <2> QED
    BY <1>0, <2>1, <2>2 DEF SubmissionInv, SubmissionTypes, HandedAtItsStep,
                            PublishedListingComplete, StepsBehindAreValid
<1>13. CASE SaveStatusFades
  BY <1>0, <1>13 DEF SaveStatusFades, SubmissionInv, SubmissionTypes, HandedAtItsStep,
                     PublishedListingComplete, StepsBehindAreValid
<1>14. CASE RemoveDraft
  <2>1. drafts' = [doc |-> NoForm, listed |-> FALSE]
        /\ UNCHANGED <<draft, buffer, handed, saving, leaving, late>>
    BY <1>14 DEF RemoveDraft
  <2>2. drafts' \in [doc : FormDocs \union {NoForm}, listed : BOOLEAN] /\ drafts'.doc = NoForm
    BY <2>1
  <2>3. ValidBefore(drafts'.doc.step, drafts'.doc.listing)
    BY <1>b, <2>2, NothingBeforeTheFirst
  <2> QED
    BY <1>0, <2>1, <2>2, <2>3 DEF SubmissionInv, SubmissionTypes, HandedAtItsStep,
                                  PublishedListingComplete, StepsBehindAreValid
<1>15. ASSUME NEW a \in {"accepted", "ValidationError", "failed"}, StepAnswered(a)
       PROVE  SubmissionInv'
  <2>1. /\ handed.kind = "step" /\ handed' = NothingHanded
        /\ UNCHANGED <<buffer, saving, drafts, late>>
    BY <1>15 DEF StepAnswered
  <2>2. /\ handed' \in [kind : {"none", "step", "publish"}, listing : FormBuffers]
        /\ handed'.kind = "none"
    BY <2>1, EmptyBufferTyped DEF NothingHanded
  <2>3. CASE a # "accepted"
    <3>1. draft' = draft
      BY <1>15, <2>3 DEF StepAnswered
    <3> QED
      BY <1>0, <2>1, <2>2, <3>1 DEF SubmissionInv, SubmissionTypes, HandedAtItsStep,
                                    PublishedListingComplete, StepsBehindAreValid
  <2>4. CASE a = "accepted"
    <3>1. draft' = [step |-> NextStep(draft.step), listing |-> handed.listing]
      BY <1>15, <2>4 DEF StepAnswered
    <3>2. draft.step \in FormSteps \ {"preview_confirm", "publish_result"}
      BY <1>0, <1>b, <2>1 DEF HandedAtItsStep, FormDocs
    <3>3. NextStep(draft.step) \in FormSteps
      BY <3>2, NextStepIs DEF FormSteps
    <3>4. draft' \in FormDocs /\ draft'.step = NextStep(draft.step)
          /\ draft'.listing = handed.listing
      BY <1>0, <3>1, <3>3 DEF FormDocs, SubmissionTypes
    <3>5. ASSUME late = 0
          PROVE  ValidBefore(draft'.step, draft'.listing) /\ ValidBefore(draft'.step, buffer)
      BY <1>0, <2>1, <3>2, <3>4, <3>5, StepCompletes DEF StepsBehindAreValid
    <3> QED
      BY <1>0, <2>1, <2>2, <3>4, <3>5 DEF SubmissionInv, SubmissionTypes, HandedAtItsStep,
                                          PublishedListingComplete, StepsBehindAreValid
  <2> QED
    BY <2>3, <2>4
<1>16. ASSUME NEW a \in {"published", "DuplicateSlugError", "failed"}, PublishAnswered(a)
       PROVE  SubmissionInv'
  <2>1. /\ handed.kind = "publish" /\ handed' = NothingHanded
        /\ draft' = (IF a = "published" THEN [draft EXCEPT !.step = "publish_result"] ELSE draft)
        /\ UNCHANGED <<buffer, saving, drafts, late>>
    BY <1>16 DEF PublishAnswered
  <2>2. /\ handed' \in [kind : {"none", "step", "publish"}, listing : FormBuffers]
        /\ handed'.kind = "none"
    BY <2>1, EmptyBufferTyped DEF NothingHanded
  <2>3. CASE a # "published"
    <3>1. draft' = draft
      BY <2>1, <2>3
    <3> QED
      BY <1>0, <2>1, <2>2, <3>1 DEF SubmissionInv, SubmissionTypes, HandedAtItsStep,
                                    PublishedListingComplete, StepsBehindAreValid
  <2>4. CASE a = "published"
    <3>1. draft \in FormDocs
      BY <1>0, <1>b, <2>1 DEF HandedAtItsStep
    <3>2. draft' \in FormDocs /\ draft'.step = "publish_result"
      BY <2>1, <2>4, <3>1 DEF FormDocs, FormSteps
    <3>3. ValidBefore(draft'.step, draft'.listing) /\ ValidBefore(draft'.step, buffer)
      BY <3>2, NothingBeforeTheFirst
    <3> QED
      BY <1>0, <2>1, <2>2, <3>2, <3>3 DEF SubmissionInv, SubmissionTypes, HandedAtItsStep,
                                          PublishedListingComplete, StepsBehindAreValid
  <2> QED
    BY <2>3, <2>4
<1>17. ASSUME NEW a \in {"saved", "unlisted", "refused"}, SaveAnswered(a) PROVE SubmissionInv'
  <2>1. /\ saving # NoForm /\ saving' = NoForm
        /\ drafts' \in {drafts, [drafts EXCEPT !.doc = saving], [doc |-> saving, listed |-> TRUE]}
        /\ UNCHANGED <<draft, buffer, handed, leaving, late>>
    BY <1>17 DEF SaveAnswered
  <2>2. drafts' \in [doc : FormDocs \union {NoForm}, listed : BOOLEAN]
        /\ (drafts'.doc = drafts.doc \/ drafts'.doc = saving)
    <3>1. saving \in FormDocs /\ drafts \in [doc : FormDocs \union {NoForm}, listed : BOOLEAN]
      BY <1>0, <2>1 DEF SubmissionTypes
    <3>2. CASE drafts' = drafts
      BY <3>1, <3>2
    <3>3. CASE drafts' = [drafts EXCEPT !.doc = saving]
      BY <3>1, <3>3
    <3>4. CASE drafts' = [doc |-> saving, listed |-> TRUE]
      BY <3>1, <3>4
    <3> QED
      BY <2>1, <3>2, <3>3, <3>4
  <2>3. ValidBefore(saving'.step, saving'.listing)
    BY <1>b, <2>1, NothingBeforeTheFirst
  <2> QED
    BY <1>0, <2>1, <2>2, <2>3 DEF SubmissionInv, SubmissionTypes, HandedAtItsStep,
                                  PublishedListingComplete, StepsBehindAreValid
<1>18. CASE UNCHANGED submissionVars
  BY <1>0, <1>18 DEF submissionVars, SubmissionInv, SubmissionTypes, HandedAtItsStep,
                     PublishedListingComplete, StepsBehindAreValid
<1> QED
  BY <1>1, <1>2, <1>3, <1>4, <1>5, <1>6, <1>7, <1>8, <1>9, <1>10, <1>11, <1>12, <1>13, <1>14,
     <1>15, <1>16, <1>17, <1>18 DEF SubmissionNext

-----------------------------------------------------------------------------
(* The files of the wizard.                                                *)

AssetUploads == [id : AssetIds, stage : {"probe", "upload"}, base : SUBSET (AssetIds \union StubIds)]

AssetTypes ==
  /\ assetStep \in [shown : BOOLEAN, busy : BOOLEAN, stub : BOOLEAN,
                    left : SUBSET (AssetIds \union StubIds)]
  /\ assetRows \subseteq AssetIds \union StubIds /\ refs \subseteq AssetIds \union StubIds
  /\ uploads \subseteq AssetUploads

\* As long as nothing crossed an upload there is at most one, begun with the references of
\* now, and its step is on screen; no row is of a reference the step was opened with.
UploadSeesTheRefs ==
  /\ \A u, v \in uploads : u = v
  /\ \A u \in uploads : u.base = refs /\ u.id \notin refs /\ assetStep.shown
  /\ assetStep.shown => assetStep.left \intersect assetRows = {}

AssetInv == AssetTypes /\ RowsAreTheReferences /\ (~crossed => UploadSeesTheRefs)

LEMMA AssetInvInit == AssetsInit => AssetInv
BY DEF AssetsInit, AssetInv, AssetTypes, RowsAreTheReferences, UploadSeesTheRefs

LEMMA AssetInvStep == AssetInv /\ [AssetsNext]_assetVars => AssetInv'
<1> SUFFICES ASSUME AssetInv, [AssetsNext]_assetVars PROVE AssetInv'
  OBVIOUS
<1>0. AssetTypes /\ RowsAreTheReferences /\ (~crossed => UploadSeesTheRefs)
  BY DEF AssetInv
<1> USE DEF AssetTypes
<1>1. CASE ShowAssets
  <2>1. /\ ~assetStep.shown /\ assetRows' = {} /\ UNCHANGED <<refs, uploads, chosen, crossed>>
        /\ assetStep' = [shown |-> TRUE, busy |-> FALSE, stub |-> FALSE, left |-> refs]
    BY <1>1 DEF ShowAssets
  <2>2. assetStep' \in [shown : BOOLEAN, busy : BOOLEAN, stub : BOOLEAN,
                        left : SUBSET (AssetIds \union StubIds)]
        /\ assetStep'.left = refs
    BY <1>0, <2>1
  <2>3. AssetTypes'
    BY <1>0, <2>1, <2>2
  <2>4. RowsAreTheReferences'
    BY <2>1, <2>2 DEF RowsAreTheReferences
  <2>5. ~crossed' => UploadSeesTheRefs'
    BY <1>0, <2>1 DEF UploadSeesTheRefs
  <2> QED
    BY <2>3, <2>4, <2>5 DEF AssetInv
<1>2. CASE LeaveAssets
  <2>1. /\ assetStep.shown /\ assetStep' = [assetStep EXCEPT !.shown = FALSE]
        /\ assetRows' = {} /\ crossed' = (crossed \/ uploads # {})
        /\ UNCHANGED <<refs, uploads, chosen>>
    BY <1>2 DEF LeaveAssets
  <2>2. assetStep' \in [shown : BOOLEAN, busy : BOOLEAN, stub : BOOLEAN,
                        left : SUBSET (AssetIds \union StubIds)]
        /\ assetStep'.shown = FALSE
    BY <1>0, <2>1
  <2>3. AssetTypes' /\ RowsAreTheReferences'
    BY <1>0, <2>1, <2>2 DEF RowsAreTheReferences
  <2>4. ~crossed' => UploadSeesTheRefs'
    BY <2>1, <2>2 DEF UploadSeesTheRefs
  <2> QED
    BY <2>3, <2>4 DEF AssetInv
<1>3. CASE ChooseFile
  <2>1. assetStep.shown /\ crossed' = (crossed \/ uploads # {})
    BY <1>3 DEF ChooseFile
  <2>2. CASE assetStep.stub
    <3>1. PICK id \in Unused(StubIds) :
            /\ assetRows' = assetRows \union {id} /\ refs' = refs \union {id}
            /\ assetStep' = [assetStep EXCEPT !.busy = FALSE] /\ UNCHANGED uploads
      BY <1>3, <2>2 DEF ChooseFile
    <3>2. id \in StubIds /\ id \notin refs
      BY DEF Unused
    <3>3. /\ assetStep' \in [shown : BOOLEAN, busy : BOOLEAN, stub : BOOLEAN,
                             left : SUBSET (AssetIds \union StubIds)]
          /\ assetStep'.left = assetStep.left /\ assetStep'.shown = assetStep.shown
      BY <1>0, <3>1
    <3>4. AssetTypes'
      BY <1>0, <3>1, <3>2, <3>3
    <3>5. ~crossed' => RowsAreTheReferences' /\ UploadSeesTheRefs'
      BY <1>0, <2>1, <3>1, <3>2, <3>3 DEF RowsAreTheReferences, UploadSeesTheRefs
    <3> QED
      BY <3>4, <3>5 DEF AssetInv, RowsAreTheReferences
  <2>3. CASE ~assetStep.stub
    <3>1. PICK id \in Unused(AssetIds) :
            /\ uploads' = uploads \union {[id |-> id, stage |-> "probe", base |-> refs]}
            /\ assetStep' = [assetStep EXCEPT !.busy = TRUE] /\ UNCHANGED <<assetRows, refs>>
      BY <1>3, <2>3 DEF ChooseFile
    <3>2. id \in AssetIds /\ id \notin refs
      BY DEF Unused
    <3> DEFINE u == [id |-> id, stage |-> "probe", base |-> refs]
    <3>3. u \in AssetUploads /\ u.id = id /\ u.base = refs
      BY <1>0, <3>2 DEF AssetUploads
    <3>4. uploads' = uploads \union {u}
      BY <3>1
    <3> HIDE DEF u
    <3>5. /\ assetStep' \in [shown : BOOLEAN, busy : BOOLEAN, stub : BOOLEAN,
                             left : SUBSET (AssetIds \union StubIds)]
          /\ assetStep'.left = assetStep.left /\ assetStep'.shown = assetStep.shown
      BY <1>0, <3>1
    <3>6. AssetTypes'
      BY <1>0, <3>1, <3>3, <3>4, <3>5
    <3>7. ~crossed' => RowsAreTheReferences' /\ UploadSeesTheRefs'
      BY <1>0, <2>1, <3>1, <3>2, <3>3, <3>4, <3>5 DEF RowsAreTheReferences, UploadSeesTheRefs
    <3> QED
      BY <3>6, <3>7 DEF AssetInv, RowsAreTheReferences
  <2> QED
    BY <2>2, <2>3
<1>4. ASSUME NEW u \in uploads, NEW live \in BOOLEAN, ProbeAnswered(u, live) PROVE AssetInv'
  <2> DEFINE v == [u EXCEPT !.stage = "upload"]
             on == assetStep.stub \/ (~live /\ assetStep.shown)
  <2>1. /\ uploads' = (uploads \ {u}) \union {v}
        /\ assetStep' = [assetStep EXCEPT !.stub = on]
        /\ UNCHANGED <<assetRows, refs, chosen, crossed>>
    BY <1>4 DEF ProbeAnswered
  <2>2. v \in AssetUploads /\ v.id = u.id /\ v.base = u.base
    BY <1>0 DEF AssetUploads
  <2>3. on \in BOOLEAN
    OBVIOUS
  <2> HIDE DEF v, on
  <2>4. /\ assetStep' \in [shown : BOOLEAN, busy : BOOLEAN, stub : BOOLEAN,
                           left : SUBSET (AssetIds \union StubIds)]
        /\ assetStep'.left = assetStep.left /\ assetStep'.shown = assetStep.shown
    BY <1>0, <2>1, <2>3
  <2>5. AssetTypes'
    BY <1>0, <2>1, <2>2, <2>4
  <2>6. RowsAreTheReferences'
    BY <1>0, <2>1, <2>4 DEF RowsAreTheReferences
  <2>7. ~crossed' => UploadSeesTheRefs'
    BY <1>0, <2>1, <2>2, <2>4 DEF UploadSeesTheRefs
  <2> QED
    BY <2>5, <2>6, <2>7 DEF AssetInv
<1>5. ASSUME NEW u \in uploads, UploadCompletes(u) PROVE AssetInv'
  <2>1. /\ uploads' = uploads \ {u} /\ refs' = u.base \union {u.id}
        /\ assetRows' = (IF assetStep.shown THEN assetRows \union {u.id} ELSE assetRows)
        /\ assetStep' = [assetStep EXCEPT !.busy = FALSE] /\ UNCHANGED <<chosen, crossed>>
    BY <1>5 DEF UploadCompletes, NewRefs
  <2>2. /\ assetStep' \in [shown : BOOLEAN, busy : BOOLEAN, stub : BOOLEAN,
                           left : SUBSET (AssetIds \union StubIds)]
        /\ assetStep'.left = assetStep.left /\ assetStep'.shown = assetStep.shown
    BY <1>0, <2>1
  <2>3. u.id \in AssetIds /\ u.base \subseteq AssetIds \union StubIds
    BY <1>0 DEF AssetUploads
  <2>4. AssetTypes'
    BY <1>0, <2>1, <2>2, <2>3
  <2>5. ASSUME ~crossed PROVE RowsAreTheReferences' /\ UploadSeesTheRefs'
    <3>1. /\ u.base = refs /\ u.id \notin refs /\ assetStep.shown /\ uploads' = {}
          /\ refs = assetStep.left \union assetRows
          /\ assetStep.left \intersect assetRows = {}
      BY <1>0, <2>1, <2>5 DEF UploadSeesTheRefs, RowsAreTheReferences
    <3>2. refs' = assetStep'.left \union assetRows' /\ assetStep'.left \intersect assetRows' = {}
      BY <2>1, <2>2, <3>1
    <3> QED
      BY <3>1, <3>2 DEF UploadSeesTheRefs, RowsAreTheReferences
  <2> QED
    BY <2>1, <2>4, <2>5 DEF AssetInv, RowsAreTheReferences
<1>6. ASSUME NEW u \in uploads, UploadFails(u) PROVE AssetInv'
  <2>1. /\ uploads' = uploads \ {u} /\ assetStep' = [assetStep EXCEPT !.busy = FALSE]
        /\ UNCHANGED <<assetRows, refs, chosen, crossed>>
    BY <1>6 DEF UploadFails
  <2>2. /\ assetStep' \in [shown : BOOLEAN, busy : BOOLEAN, stub : BOOLEAN,
                           left : SUBSET (AssetIds \union StubIds)]
        /\ assetStep'.left = assetStep.left /\ assetStep'.shown = assetStep.shown
    BY <1>0, <2>1
  <2> QED
    BY <1>0, <2>1, <2>2 DEF AssetInv, RowsAreTheReferences, UploadSeesTheRefs
<1>7. ASSUME NEW id \in assetRows, RemoveAsset(id) PROVE AssetInv'
  <2>1. /\ assetStep.shown /\ assetRows' = assetRows \ {id} /\ refs' = refs \ {id}
        /\ crossed' = (crossed \/ uploads # {}) /\ UNCHANGED <<assetStep, uploads, chosen>>
    BY <1>7 DEF RemoveAsset
  <2>2. AssetTypes'
    BY <1>0, <2>1
  <2>3. ~crossed' => RowsAreTheReferences' /\ UploadSeesTheRefs'
    BY <1>0, <2>1 DEF RowsAreTheReferences, UploadSeesTheRefs
  <2> QED
    BY <2>2, <2>3 DEF AssetInv, RowsAreTheReferences
<1>8. CASE UNCHANGED assetVars
  BY <1>0, <1>8 DEF assetVars, AssetInv, RowsAreTheReferences, UploadSeesTheRefs
<1> QED
  BY <1>1, <1>2, <1>3, <1>4, <1>5, <1>6, <1>7, <1>8 DEF AssetsNext

\* What is published passed every rule, the preview refuses nothing that was valid, and the
\* references of a draft are its rows and those it had when the assets step was opened,
\* unless the list changed while a file was on its way: for any names, slugs, files and
\* answers (SubmissionForm, step-assets).
THEOREM ListingAgrees == SubmissionSpec /\ AssetsSpec => []ListingIsWhatWasShown
<1>1. SubmissionInv /\ AssetInv => ListingIsWhatWasShown
  <2>1. SubmissionInv => PreviewNeverRefuses
    BY FullErrorsAreTheGroups
       DEF SubmissionInv, StepsBehindAreValid, PreviewNeverRefuses
  <2> QED
    BY <2>1 DEF SubmissionInv, AssetInv, ListingIsWhatWasShown
<1>2. SubmissionSpec => []SubmissionInv
  BY SubmissionInvInit, SubmissionInvStep, PTL DEF SubmissionSpec
<1>3. AssetsSpec => []AssetInv
  BY AssetInvInit, AssetInvStep, PTL DEF AssetsSpec
<1> QED
  BY <1>1, <1>2, <1>3, PTL

-----------------------------------------------------------------------------
(* The creator's wizard.                                                   *)

Drafts == [valid : SUBSET {"category", "basics", "metadata", "pricing"}, edits : Nat,
           rest : Nat]
Copies == [step : Nat, draft : Drafts]
Wizards == [open : BOOLEAN, id : Nat, step : Nat, draft : Drafts, edited : BOOLEAN,
            save : {"idle", "saving", "saved", "error"}]
WizardSaves == [op : {"none", "create", "update"}, id : Nat, body : Drafts, waiters : Nat,
                mine : BOOLEAN]
Publishing == [stage : {"idle", "creating", "publishing"}, id : Nat, body : Drafts,
               here : BOOLEAN]
ServerListings == [edits : Nat, status : {"draft", "published"}]

WizardTypes ==
  /\ wizard \in Wizards
  /\ copies \in [0..LISTINGS -> Copies]
  /\ auto \in [timer : BOOLEAN, inflight : {auto.inflight}]
  /\ saves \in [1..SAVES -> WizardSaves]
  /\ publish \in Publishing
  /\ server \in Seq(ServerListings) /\ Len(server) <= LISTINGS
  /\ overlap \in BOOLEAN

\* Every listing id in use is one the server gave.
KnownListings ==
  /\ wizard.id \in 0..Len(server)
  /\ \A i \in 1..SAVES : saves[i].op = "update" => saves[i].id \in 1..Len(server)
  /\ publish.stage = "publishing" => publish.id \in 1..Len(server)

\* One request at a time: while none overlapped there is one save or one publish, and the
\* save the controller waits for is under way and its own.
OneRequest ==
  /\ \A i, j \in Flying : i = j
  /\ Busy => Flying = {}
  /\ auto.inflight # 0 => auto.inflight \in Flying /\ saves[auto.inflight].mine

\* A save that nobody waits for, with no timer running, carries the edits on screen to the
\* listing of the wizard.
SaveCarriesTheEdits ==
  wizard.open /\ IsDraftSavable(wizard.draft) /\ ~auto.timer =>
    \A i \in Flying : saves[i].waiters = 0 =>
      /\ saves[i].body.edits = wizard.draft.edits
      /\ saves[i].op = "update" => saves[i].id = wizard.id

WizardInv ==
  /\ WizardTypes /\ KnownListings /\ ReloadKeepsEdits /\ SavedMeansSaved
  /\ ~overlap => OneRequest /\ SaveCarriesTheEdits

LEMMA EmptiesTyped ==
  /\ EmptyDraft \in Drafts /\ NoCopy \in Copies /\ ClosedWizard \in Wizards
  /\ NoSave \in WizardSaves /\ NotPublishing \in Publishing
<1>1. EmptyDraft \in Drafts
  BY DEF EmptyDraft, Drafts
<1>2. NoCopy \in Copies
  BY <1>1 DEF NoCopy, Copies
<1>3. ClosedWizard \in Wizards
  BY <1>1 DEF ClosedWizard, Wizards
<1>4. NoSave \in WizardSaves
  BY <1>1 DEF NoSave, WizardSaves
<1>5. NotPublishing \in Publishing
  BY <1>1 DEF NotPublishing, Publishing
<1> QED
  BY <1>1, <1>2, <1>3, <1>4, <1>5

LEMMA NoSaveStays == [NoSave EXCEPT !.mine = FALSE] = NoSave
<1>1. \A s \in WizardSaves : s.mine = FALSE => [s EXCEPT !.mine = FALSE] = s
  BY DEF WizardSaves
<1>2. NoSave.mine = FALSE
  BY DEF NoSave
<1> QED
  BY <1>1, <1>2, EmptiesTyped

\* What the requests of the wizard write into a row of the server.
LEMMA RowsWritten ==
  ASSUME NEW r \in ServerListings, NEW n \in Nat
  PROVE  /\ [r EXCEPT !.edits = n] \in ServerListings /\ [r EXCEPT !.edits = n].edits = n
         /\ [r EXCEPT !.status = "published"] \in ServerListings
  BY DEF ServerListings

LEMMA OneMoreWaits ==
  ASSUME NEW s \in WizardSaves
  PROVE  LET t == [s EXCEPT !.waiters = @ + 1] IN
         /\ t \in WizardSaves /\ t.op = s.op /\ t.id = s.id /\ t.mine = s.mine
         /\ t.waiters = s.waiters + 1
  BY DEF WizardSaves

LEMMA WizardInvInit == WizardInit => WizardInv
<1> SUFFICES ASSUME WizardInit PROVE WizardInv
  OBVIOUS
<1>1. LISTINGS \in Nat /\ SAVES \in Nat
  BY WizardAssumption
<1>2. Flying = {}
  BY DEF WizardInit, Flying
<1>3. auto = [timer |-> FALSE, inflight |-> 0] /\ auto.inflight = 0
  BY DEF WizardInit
<1>4. server = <<>> /\ server \in Seq(ServerListings) /\ Len(server) = 0
  BY DEF WizardInit
<1>5. WizardTypes
  <2>1. auto \in [timer : BOOLEAN, inflight : {auto.inflight}]
    BY <1>3
  <2>2. copies \in [0..LISTINGS -> Copies] /\ saves \in [1..SAVES -> WizardSaves]
    BY EmptiesTyped DEF WizardInit
  <2>3. wizard \in Wizards /\ publish \in Publishing /\ overlap \in BOOLEAN
    BY EmptiesTyped DEF WizardInit
  <2>4. Len(server) <= LISTINGS
    BY <1>1, <1>4
  <2> QED
    BY <1>4, <2>1, <2>2, <2>3, <2>4 DEF WizardTypes
<1>6. KnownListings
  BY <1>1, <1>4 DEF WizardInit, KnownListings, ClosedWizard, NoSave, NotPublishing
<1>7. ReloadKeepsEdits /\ SavedMeansSaved /\ SaveCarriesTheEdits
  BY DEF WizardInit, ReloadKeepsEdits, SavedMeansSaved, SaveCarriesTheEdits, ClosedWizard
<1>8. OneRequest
  BY <1>2, <1>3 DEF OneRequest
<1> QED
  BY <1>5, <1>6, <1>7, <1>8 DEF WizardInv

\* What a setter of the store does to the wizard, its copy and its timer.
LEMMA SetKeepsTypes ==
  ASSUME WizardTypes, NEW w \in Wizards, w.id \in 0..LISTINGS, Set(w)
  PROVE  /\ wizard' = w
         /\ copies' \in [0..LISTINGS -> Copies]
         /\ copies'[w.id] = [step |-> w.step, draft |-> w.draft]
         /\ auto' \in [timer : BOOLEAN, inflight : {auto'.inflight}]
         /\ auto'.inflight = auto.inflight
         /\ w.open /\ IsDraftSavable(w.draft) => auto'.timer = TRUE
<1>1. [step |-> w.step, draft |-> w.draft] \in Copies
  BY DEF Wizards, Copies
<1>2. copies' = [copies EXCEPT ![w.id] = [step |-> w.step, draft |-> w.draft]]
  BY DEF Set, WritePersisted
<1> DEFINE on == auto.timer \/ (w.open /\ IsDraftSavable(w.draft))
<1>3. auto' = [auto EXCEPT !.timer = on]
  BY DEF Set, Triggered
<1>4. on \in BOOLEAN /\ (w.open /\ IsDraftSavable(w.draft) => on)
  OBVIOUS
<1> HIDE DEF on
<1>5. auto' \in [timer : BOOLEAN, inflight : {auto.inflight}] /\ auto'.timer = on
  BY <1>3, <1>4 DEF WizardTypes
<1>6. wizard' = w
  BY DEF Set
<1>7. copies' \in [0..LISTINGS -> Copies]
      /\ copies'[w.id] = [step |-> w.step, draft |-> w.draft]
  BY <1>1, <1>2 DEF WizardTypes
<1> QED
  BY <1>4, <1>5, <1>6, <1>7

\* Setters that a timer follows keep the invariant: nothing is said of the edits then.
LEMMA SetKeepsInv ==
  ASSUME WizardInv, NEW w \in Wizards, w.id = wizard.id, Set(w),
         UNCHANGED <<saves, publish, server, overlap>>,
         w.open
  PROVE  WizardInv'
<1>1. WizardTypes /\ KnownListings /\ (~overlap => OneRequest)
  BY DEF WizardInv
<1>2. w.id \in 0..LISTINGS /\ w.id \in 0..Len(server)
  BY <1>1, WizardAssumption DEF WizardTypes, KnownListings
<1>3. /\ wizard' = w
      /\ copies' \in [0..LISTINGS -> Copies]
      /\ copies'[w.id] = [step |-> w.step, draft |-> w.draft]
      /\ auto' \in [timer : BOOLEAN, inflight : {auto'.inflight}]
      /\ auto'.inflight = auto.inflight
      /\ IsDraftSavable(w.draft) => auto'.timer = TRUE
  BY <1>1, <1>2, SetKeepsTypes
<1>4. WizardTypes'
  BY <1>1, <1>3 DEF WizardTypes
<1>5. KnownListings'
  BY <1>1, <1>2, <1>3 DEF KnownListings
<1>6. ReloadKeepsEdits' /\ SavedMeansSaved' /\ SaveCarriesTheEdits'
  BY <1>3 DEF ReloadKeepsEdits, SavedMeansSaved, SaveCarriesTheEdits
<1>7. ~overlap' => OneRequest'
  BY <1>1, <1>3 DEF OneRequest, Flying, Busy
<1> QED
  BY <1>4, <1>5, <1>6, <1>7 DEF WizardInv

\* The wizard's save state is read by one property only.
LEMMA WithSaveState ==
  ASSUME NEW w \in Wizards, NEW s \in {"idle", "saving", "saved", "error"}
  PROVE  /\ [w EXCEPT !.save = s] \in Wizards /\ [w EXCEPT !.save = s].save = s
         /\ [w EXCEPT !.save = s].open = w.open /\ [w EXCEPT !.save = s].id = w.id
         /\ [w EXCEPT !.save = s].step = w.step /\ [w EXCEPT !.save = s].draft = w.draft
         /\ [w EXCEPT !.save = s].edited = w.edited
BY DEF Wizards

LEMMA SaveOfTyped ==
  ASSUME NEW w \in Wizards, NEW mine \in BOOLEAN
  PROVE  /\ SaveOf(w, mine) \in WizardSaves /\ SaveOf(w, mine) # NoSave
         /\ SaveOf(w, mine).body = w.draft /\ SaveOf(w, mine).waiters = 0
         /\ SaveOf(w, mine).mine = mine /\ SaveOf(w, mine).id = w.id
         /\ SaveOf(w, mine).op = "update" => w.id # 0
<1>1. SaveOf(w, mine) \in WizardSaves
  BY DEF SaveOf, WizardSaves, Wizards
<1>2. SaveOf(w, mine).op # "none" /\ NoSave.op = "none"
  BY DEF SaveOf, NoSave
<1> QED
  BY <1>1, <1>2 DEF SaveOf

\* How a save ends while none overlaps: nothing follows it, or one save of the draft of now.
LEMMA HowASaveEnds ==
  ASSUME WizardTypes, NEW i \in Flying, NEW w \in Wizards, NEW timer \in BOOLEAN,
         SaveEnds(i, w, timer)
  PROVE  /\ saves' \in [1..SAVES -> WizardSaves]
         /\ \A k \in 1..SAVES : saves'[k].op = "update" =>
              (saves'[k] = saves[k] \/ (saves'[k].id = w.id /\ w.id # 0))
         /\ overlap' \in BOOLEAN
         /\ wizard' \in Wizards /\ wizard'.open = w.open /\ wizard'.id = w.id
         /\ wizard'.step = w.step /\ wizard'.draft = w.draft /\ wizard'.edited = w.edited
         /\ auto' \in [timer : BOOLEAN, inflight : {auto'.inflight}] /\ auto'.timer = timer
         /\ ~overlap' =>
              /\ ~overlap
              /\ \/ /\ saves' = [saves EXCEPT ![i] = NoSave]
                    /\ auto'.inflight = (IF saves[i].mine THEN 0 ELSE auto.inflight)
                    /\ wizard'.save = (IF saves[i].waiters > 0 THEN "idle" ELSE w.save)
                 \/ /\ Flying = {i} /\ ~Busy /\ wizard'.save = "saving"
                    /\ \E k \in 1..SAVES :
                         /\ saves' = [j \in 1..SAVES |-> IF j = k THEN SaveOf(w, saves[i].mine)
                                                         ELSE NoSave]
                         /\ auto'.inflight = IF saves[i].mine THEN k ELSE auto.inflight
<1> DEFINE n == IF IsDraftSavable(w.draft) THEN saves[i].waiters ELSE 0
           free == ((1..SAVES) \ Flying) \union {i}
           slots == CHOOSE used \in SUBSET free : Cardinality(used) = n
           next == CASE n > 0 -> "saving" [] n = 0 /\ saves[i].waiters > 0 -> "idle"
             [] OTHER -> w.save
           started == IF ~saves[i].mine THEN auto.inflight
                      ELSE IF n = 0 THEN 0 ELSE CHOOSE k \in slots : TRUE
<1>1. i \in 1..SAVES /\ saves[i] # NoSave
  BY DEF Flying
<1>2. saves[i] \in WizardSaves /\ saves[i].waiters \in Nat /\ saves[i].mine \in BOOLEAN
  BY <1>1 DEF WizardTypes, WizardSaves
<1>3. /\ saves' = [k \in 1..SAVES |-> IF k \in slots THEN SaveOf(w, saves[i].mine)
                                      ELSE IF k = i THEN NoSave ELSE saves[k]]
      /\ overlap' = (overlap \/ n > 1 \/ (n = 1 /\ (Flying # {i} \/ Busy)))
      /\ wizard' = [w EXCEPT !.save = next]
      /\ auto' = [timer |-> timer, inflight |-> started]
  BY DEF SaveEnds
<1>4. n \in Nat
  BY <1>2
<1>5. next \in {"idle", "saving", "saved", "error"} /\ (n > 0 => next = "saving")
      /\ (n = 0 => next = IF saves[i].waiters > 0 THEN "idle" ELSE w.save)
  <2>1. w.save \in {"idle", "saving", "saved", "error"}
    BY DEF Wizards
  <2> HIDE DEF n
  <2>2. CASE n > 0
    BY <1>4, <2>2
  <2>3. CASE n = 0 /\ saves[i].waiters > 0
    BY <2>1, <2>3
  <2>4. CASE n = 0 /\ ~(saves[i].waiters > 0)
    BY <2>1, <2>4
  <2> QED
    BY <1>4, <2>2, <2>3, <2>4
<1>6. auto'.inflight = started /\ auto'.timer = timer
      /\ auto' \in [timer : BOOLEAN, inflight : {auto'.inflight}]
  <2> HIDE DEF started
  <2> QED
    BY <1>3
<1>7. /\ wizard' \in Wizards /\ wizard'.open = w.open /\ wizard'.id = w.id
      /\ wizard'.step = w.step /\ wizard'.draft = w.draft /\ wizard'.edited = w.edited
      /\ wizard'.save = next
  <2> HIDE DEF next
  <2> QED
    BY <1>3, <1>5, WithSaveState
<1>8. NoSave \in WizardSaves /\ NoSave.op = "none"
  BY EmptiesTyped DEF NoSave
<1>9. /\ saves' \in [1..SAVES -> WizardSaves]
      /\ \A k \in 1..SAVES : saves'[k].op = "update" =>
           (saves'[k] = saves[k] \/ (saves'[k].id = w.id /\ w.id # 0))
  <2> HIDE DEF slots
  <2> QED
    BY <1>2, <1>3, <1>8, SaveOfTyped DEF WizardTypes
<1>10. overlap' \in BOOLEAN
  BY <1>3
<1>11. IsFiniteSet(free) /\ \A used \in SUBSET free : IsFiniteSet(used)
  <2>1. SAVES \in Int /\ 1 \in Int
    BY WizardAssumption
  <2>2. IsFiniteSet(1..SAVES) /\ free \in SUBSET (1..SAVES)
    BY <1>1, <2>1, FS_Interval
  <2> HIDE DEF free
  <2> QED
    BY <2>2, FS_Subset
<1>12. ASSUME ~overlap' PROVE ~overlap /\ (n = 0 \/ (n = 1 /\ Flying = {i} /\ ~Busy))
  <2> HIDE DEF n
  <2>1. ~overlap /\ ~(n > 1) /\ ~(n = 1 /\ (Flying # {i} \/ Busy))
    BY <1>3, <1>12, Zenon
  <2>2. n = 0 \/ n = 1
    BY <1>4, <2>1
  <2> QED
    BY <2>1, <2>2, Zenon
<1>13. CASE n = 0
  <2>1. slots = {}
    <3>1. {} \in SUBSET free /\ Cardinality({}) = 0
      BY FS_EmptySet
    <3>2. slots \in SUBSET free /\ Cardinality(slots) = 0
      <4> HIDE DEF free, n
      <4> QED
        BY <1>13, <3>1
    <3> HIDE DEF slots, free
    <3> QED
      BY <1>11, <3>2, FS_EmptySet
  <2>2. saves' = [saves EXCEPT ![i] = NoSave]
    <3> HIDE DEF slots
    <3> QED
      BY <1>1, <1>3, <2>1 DEF WizardTypes
  <2>3. started = IF saves[i].mine THEN 0 ELSE auto.inflight
    <3> HIDE DEF slots, n
    <3> QED
      BY <1>13
  <2> HIDE DEF n, started, next, slots
  <2> QED
    BY <1>5, <1>6, <1>7, <1>9, <1>10, <1>12, <1>13, <2>2, <2>3
<1>14. CASE n = 1
  <2>1. PICK k \in free : slots = {k}
    <3>1. {i} \in SUBSET free /\ Cardinality({i}) = 1
      BY FS_Singleton
    <3>2. slots \in SUBSET free /\ Cardinality(slots) = 1
      <4> HIDE DEF free, n
      <4> QED
        BY <1>14, <3>1
    <3> HIDE DEF slots, free
    <3>3. \E x : slots = {x}
      BY <1>11, <3>2, FS_Singleton
    <3> QED
      BY <3>2, <3>3
  <2>2. k \in 1..SAVES
    BY <1>1
  <2>3. started = IF saves[i].mine THEN k ELSE auto.inflight
    <3> HIDE DEF slots, n
    <3> QED
      BY <1>14, <2>1
  <2>4. ASSUME ~overlap'
        PROVE  saves' = [j \in 1..SAVES |-> IF j = k THEN SaveOf(w, saves[i].mine) ELSE NoSave]
    <3>1. \A j \in 1..SAVES : j # i => saves[j] = NoSave
      BY <1>12, <1>14, <2>4 DEF Flying
    <3> HIDE DEF slots
    <3> QED
      BY <1>3, <2>1, <3>1
  <2> HIDE DEF n, started, next, slots
  <2> QED
    BY <1>5, <1>6, <1>7, <1>9, <1>10, <1>12, <1>14, <2>2, <2>3, <2>4
<1>15. CASE n \notin {0, 1}
  <2> HIDE DEF n, started, next, slots
  <2> QED
    BY <1>6, <1>7, <1>9, <1>10, <1>12, <1>15
<1> QED
  BY <1>13, <1>14, <1>15

\* A save that ends keeps the invariant: `w` is the wizard it leaves, `timer` the timer; what
\* it wrote is right for the wizard whenever the edits on screen are the ones it carried.
LEMMA SaveEndsKeepsInv ==
  ASSUME WizardInv, NEW i \in Flying, NEW w \in Wizards, NEW timer \in BOOLEAN,
         SaveEnds(i, w, timer), UNCHANGED publish,
         w.id \in 0..Len(server'), w.open = wizard.open, w.draft = wizard.draft,
         auto.timer => timer,
         server' \in Seq(ServerListings), Len(server') <= LISTINGS, Len(server') >= Len(server),
         copies' \in [0..LISTINGS -> Copies],
         w.open /\ w.edited => copies'[w.id] = [step |-> w.step, draft |-> w.draft],
         w.save = "saved" /\ w.open /\ IsDraftSavable(w.draft) /\ ~timer /\ ~overlap
             /\ saves[i].waiters = 0
           => server'[w.id].edits = w.draft.edits
  PROVE  WizardInv'
<1>0. WizardTypes /\ KnownListings /\ (~overlap => OneRequest /\ SaveCarriesTheEdits)
  BY DEF WizardInv
<1>1. /\ saves' \in [1..SAVES -> WizardSaves]
      /\ \A k \in 1..SAVES : saves'[k].op = "update" =>
           (saves'[k] = saves[k] \/ (saves'[k].id = w.id /\ w.id # 0))
      /\ overlap' \in BOOLEAN
      /\ wizard' \in Wizards /\ wizard'.open = w.open /\ wizard'.id = w.id
      /\ wizard'.step = w.step /\ wizard'.draft = w.draft /\ wizard'.edited = w.edited
      /\ auto' \in [timer : BOOLEAN, inflight : {auto'.inflight}] /\ auto'.timer = timer
  BY <1>0, HowASaveEnds
<1>2. /\ ~overlap' => ~overlap
      /\ ~overlap' =>
           \/ /\ saves' = [saves EXCEPT ![i] = NoSave]
              /\ auto'.inflight = (IF saves[i].mine THEN 0 ELSE auto.inflight)
              /\ wizard'.save = (IF saves[i].waiters > 0 THEN "idle" ELSE w.save)
           \/ /\ Flying = {i} /\ ~Busy /\ wizard'.save = "saving"
              /\ \E k \in 1..SAVES :
                   /\ saves' = [j \in 1..SAVES |-> IF j = k THEN SaveOf(w, saves[i].mine)
                                                   ELSE NoSave]
                   /\ auto'.inflight = IF saves[i].mine THEN k ELSE auto.inflight
  BY <1>0, HowASaveEnds
<1>3. WizardTypes'
  BY <1>0, <1>1 DEF WizardTypes
<1>4. Len(server) \in Nat /\ Len(server') \in Nat
  BY <1>0 DEF WizardTypes
<1>5. KnownListings'
  <2>1. wizard'.id \in 0..Len(server')
    BY <1>1
  <2>2. \A k \in 1..SAVES : saves'[k].op = "update" => saves'[k].id \in 1..Len(server')
    <3> SUFFICES ASSUME NEW k \in 1..SAVES, saves'[k].op = "update"
                 PROVE  saves'[k].id \in 1..Len(server')
      OBVIOUS
    <3>1. CASE saves'[k] = saves[k]
      BY <1>0, <1>4, <3>1 DEF KnownListings
    <3>2. CASE saves'[k].id = w.id /\ w.id # 0
      BY <1>4, <3>2
    <3> QED
      BY <1>1, <3>1, <3>2
  <2>3. publish'.stage = "publishing" => publish'.id \in 1..Len(server')
    BY <1>0, <1>4 DEF KnownListings
  <2> QED
    BY <2>1, <2>2, <2>3 DEF KnownListings
<1>6. ReloadKeepsEdits'
  BY <1>1 DEF ReloadKeepsEdits
<1>7. CASE overlap'
  BY <1>3, <1>5, <1>6, <1>7 DEF WizardInv, SavedMeansSaved
<1>8. CASE ~overlap'
  <2>0. /\ ~overlap /\ OneRequest /\ SaveCarriesTheEdits /\ Flying = {i}
        /\ i \in 1..SAVES /\ saves[i] # NoSave /\ saves[i] \in WizardSaves
    BY <1>0, <1>2, <1>8 DEF OneRequest, Flying, WizardTypes
  <2>1. CASE /\ saves' = [saves EXCEPT ![i] = NoSave]
             /\ auto'.inflight = (IF saves[i].mine THEN 0 ELSE auto.inflight)
             /\ wizard'.save = (IF saves[i].waiters > 0 THEN "idle" ELSE w.save)
    <3>1. Flying' = {}
      <4>1. \A k \in 1..SAVES : k # i => saves[k] = NoSave
        BY <2>0 DEF Flying
      <4> QED
        BY <1>0, <2>0, <2>1, <4>1 DEF Flying, WizardTypes
    <3>2. auto'.inflight = 0
      BY <2>0, <2>1 DEF OneRequest
    <3>3. OneRequest' /\ SaveCarriesTheEdits'
      BY <3>1, <3>2 DEF OneRequest, SaveCarriesTheEdits
    <3>4. SavedMeansSaved'
      <4>1. wizard'.save = "saved" => w.save = "saved" /\ ~(saves[i].waiters > 0)
        BY <2>1
      <4>2. saves[i].waiters \in Nat
        BY <2>0 DEF WizardSaves
      <4>3. ~(saves[i].waiters > 0) => saves[i].waiters = 0
        BY <4>2
      <4> QED
        BY <1>1, <2>0, <4>1, <4>3 DEF SavedMeansSaved
    <3> QED
      BY <1>3, <1>5, <1>6, <3>3, <3>4 DEF WizardInv
  <2>2. CASE /\ ~Busy /\ wizard'.save = "saving"
             /\ \E k \in 1..SAVES :
                  /\ saves' = [j \in 1..SAVES |-> IF j = k THEN SaveOf(w, saves[i].mine)
                                                  ELSE NoSave]
                  /\ auto'.inflight = IF saves[i].mine THEN k ELSE auto.inflight
    <3>1. PICK k \in 1..SAVES :
            /\ saves' = [j \in 1..SAVES |-> IF j = k THEN SaveOf(w, saves[i].mine) ELSE NoSave]
            /\ auto'.inflight = IF saves[i].mine THEN k ELSE auto.inflight
      BY <2>2
    <3>2. saves[i].mine \in BOOLEAN
      BY <2>0 DEF WizardSaves
    <3> DEFINE now == SaveOf(w, saves[i].mine)
    <3>3. /\ now # NoSave /\ now.body = w.draft /\ now.mine = saves[i].mine /\ now.id = w.id
      BY <3>2, SaveOfTyped
    <3> HIDE DEF now
    <3>4. saves'[k] = now /\ \A j \in 1..SAVES : j # k => saves'[j] = NoSave
      BY <3>1 DEF now
    <3>5. Flying' = {k}
      BY <3>3, <3>4 DEF Flying
    <3>6. auto'.inflight # 0 => auto'.inflight = k /\ saves[i].mine
      BY <2>0, <3>1 DEF OneRequest
    <3>7. OneRequest'
      BY <2>2, <3>3, <3>4, <3>5, <3>6 DEF OneRequest, Busy
    <3>8. SaveCarriesTheEdits'
      BY <1>1, <3>3, <3>4, <3>5 DEF SaveCarriesTheEdits
    <3>9. SavedMeansSaved'
      BY <2>2 DEF SavedMeansSaved
    <3> QED
      BY <1>3, <1>5, <1>6, <3>7, <3>8, <3>9 DEF WizardInv
  <2> QED
    BY <1>2, <1>8, <2>1, <2>2
<1> QED
  BY <1>7, <1>8

LEMMA PatchKeepsInv ==
  ASSUME WizardInv, NEW d \in Drafts, NEW carried \in BOOLEAN, wizard.open,
         PatchDraft(d, carried)
  PROVE  WizardInv'
<1> DEFINE e == DraftEdited(d, carried)
           w == [wizard EXCEPT !.draft = e, !.edited = TRUE, !.save = "idle"]
<1>1. e \in Drafts
  BY DEF Drafts, DraftEdited
<1>2. Set(w) /\ UNCHANGED <<saves, publish, server, overlap>>
  BY DEF PatchDraft
<1> HIDE DEF e
<1>3. w \in Wizards /\ w.id = wizard.id /\ w.open = wizard.open
  BY <1>1 DEF WizardInv, WizardTypes, Wizards
<1> HIDE DEF w
<1> QED
  BY <1>2, <1>3, SetKeepsInv

LEMMA WizardInvStep == WizardInv /\ [WizardNext]_wizardVars => WizardInv'
<1> SUFFICES ASSUME WizardInv, [WizardNext]_wizardVars PROVE WizardInv'
  OBVIOUS
<1>0. /\ WizardTypes /\ KnownListings /\ ReloadKeepsEdits /\ SavedMeansSaved
      /\ ~overlap => OneRequest /\ SaveCarriesTheEdits
  BY DEF WizardInv
<1>a. /\ wizard \in Wizards /\ wizard.draft \in Drafts /\ wizard.id \in 0..LISTINGS
      /\ LISTINGS \in Nat /\ Len(server) \in Nat /\ server \in Seq(ServerListings)
      /\ SAVES \in Nat
  <2>1. wizard.draft \in Drafts
    BY <1>0 DEF WizardTypes, Wizards
  <2>2. LISTINGS \in Nat /\ SAVES \in Nat
    BY WizardAssumption
  <2>3. server \in Seq(ServerListings) /\ Len(server) \in Nat /\ Len(server) <= LISTINGS
    BY <1>0 DEF WizardTypes
  <2>4. wizard.id \in 0..LISTINGS
    BY <1>0, <2>2, <2>3 DEF KnownListings
  <2> QED
    BY <1>0, <2>1, <2>2, <2>3, <2>4 DEF WizardTypes
<1>1. ASSUME NEW id \in 0..Len(server), OpenWizard(id) PROVE WizardInv'
  <2>1. /\ wizard' = Rehydrated(id)
        /\ auto' = [timer |-> IsDraftSavable(copies[id].draft), inflight |-> 0]
        /\ UNCHANGED <<copies, saves, publish, server, overlap>>
    BY <1>1 DEF OpenWizard
  <2>2. id \in 0..LISTINGS /\ id \in Nat
    BY <1>a, <1>0 DEF WizardTypes
  <2>3. copies[id] \in Copies /\ copies[id].step \in Nat /\ copies[id].draft \in Drafts
    BY <1>0, <2>2 DEF WizardTypes, Copies
  <2>4. /\ wizard' \in Wizards /\ wizard'.open /\ wizard'.id = id /\ wizard'.save = "idle"
        /\ wizard'.draft = copies[id].draft
        /\ wizard'.edited => copies[id] # NoCopy /\ wizard'.step = copies[id].step
    <3> DEFINE step == IF copies[id] = NoCopy THEN 1 ELSE copies[id].step
               edited == copies[id] # NoCopy
               d == copies[id].draft
    <3>1. step \in Nat /\ edited \in BOOLEAN /\ (edited => step = copies[id].step)
      BY <2>3
    <3>2. wizard' = [open |-> TRUE, id |-> id, step |-> step, draft |-> d, edited |-> edited,
                     save |-> "idle"]
      BY <2>1 DEF Rehydrated
    <3>3. d \in Drafts
      BY <2>3
    <3> HIDE DEF step, edited, d
    <3>4. /\ wizard' \in Wizards /\ wizard'.open /\ wizard'.id = id /\ wizard'.save = "idle"
          /\ wizard'.draft = d /\ wizard'.edited = edited /\ wizard'.step = step
      BY <2>2, <3>1, <3>2, <3>3 DEF Wizards
    <3> QED
      BY <3>1, <3>4 DEF d, edited
  <2>5. /\ auto' \in [timer : BOOLEAN, inflight : {auto'.inflight}] /\ auto'.inflight = 0
        /\ auto'.timer = IsDraftSavable(wizard'.draft)
    <3> DEFINE on == IsDraftSavable(copies[id].draft)
    <3>1. on \in BOOLEAN
      BY DEF IsDraftSavable
    <3> HIDE DEF on
    <3>2. auto' = [timer |-> on, inflight |-> 0]
      BY <2>1 DEF on
    <3> QED
      BY <2>4, <3>1, <3>2 DEF on
  <2>6. WizardTypes'
    BY <1>0, <2>1, <2>4, <2>5 DEF WizardTypes
  <2>7. KnownListings'
    BY <1>0, <2>1, <2>4 DEF KnownListings
  <2>8. ReloadKeepsEdits'
    BY <2>1, <2>3, <2>4 DEF ReloadKeepsEdits, Copies
  <2>9. SavedMeansSaved' /\ SaveCarriesTheEdits'
    BY <2>4, <2>5 DEF SavedMeansSaved, SaveCarriesTheEdits
  <2>10. ~overlap' => OneRequest'
    BY <1>0, <2>1, <2>5 DEF OneRequest, Flying, Busy
  <2> QED
    BY <2>6, <2>7, <2>8, <2>9, <2>10 DEF WizardInv
<1>2. CASE LeaveWizard
  <2>1. /\ wizard' = [wizard EXCEPT !.open = FALSE]
        /\ auto' = [timer |-> FALSE, inflight |-> 0]
        /\ saves' = [i \in 1..SAVES |-> [saves[i] EXCEPT !.mine = FALSE]]
        /\ publish' = [publish EXCEPT !.here = FALSE]
        /\ UNCHANGED <<copies, server, overlap>>
    BY <1>2 DEF LeaveWizard
  <2>2. wizard' \in Wizards /\ wizard'.open = FALSE /\ wizard'.id = wizard.id
    BY <1>a, <2>1 DEF Wizards
  <2>3. /\ auto' \in [timer : BOOLEAN, inflight : {auto'.inflight}] /\ auto'.inflight = 0
    BY <2>1
  <2>4. /\ saves' \in [1..SAVES -> WizardSaves]
        /\ \A i \in 1..SAVES : /\ saves'[i].op = saves[i].op /\ saves'[i].id = saves[i].id
                               /\ saves[i] = NoSave => saves'[i] = NoSave
    <3> SUFFICES ASSUME NEW i \in 1..SAVES
                 PROVE  /\ [saves[i] EXCEPT !.mine = FALSE] \in WizardSaves
                        /\ [saves[i] EXCEPT !.mine = FALSE].op = saves[i].op
                        /\ [saves[i] EXCEPT !.mine = FALSE].id = saves[i].id
                        /\ saves[i] = NoSave => [saves[i] EXCEPT !.mine = FALSE] = NoSave
      BY <2>1
    <3>1. saves[i] \in WizardSaves
      BY <1>0 DEF WizardTypes
    <3>2. [NoSave EXCEPT !.mine = FALSE] = NoSave
      BY NoSaveStays
    <3> QED
      BY <3>1, <3>2 DEF WizardSaves
  <2>5. publish' \in Publishing /\ publish'.stage = publish.stage /\ publish'.id = publish.id
    BY <1>0, <2>1 DEF WizardTypes, Publishing
  <2>6. WizardTypes'
    BY <1>0, <2>1, <2>2, <2>3, <2>4, <2>5 DEF WizardTypes
  <2>7. KnownListings'
    BY <1>0, <2>1, <2>2, <2>4, <2>5 DEF KnownListings
  <2>8. ReloadKeepsEdits' /\ SavedMeansSaved' /\ SaveCarriesTheEdits'
    BY <2>2 DEF ReloadKeepsEdits, SavedMeansSaved, SaveCarriesTheEdits
  <2>9. ~overlap' => OneRequest'
    <3>1. Flying' \subseteq Flying
      BY <2>4 DEF Flying
    <3> QED
      BY <1>0, <2>1, <2>3, <2>5, <3>1 DEF OneRequest, Busy
  <2> QED
    BY <2>6, <2>7, <2>8, <2>9 DEF WizardInv
<1>3. CASE EditBasics \/ EditMetadata \/ EditPricing
  <2>1. PICK name \in {"basics", "metadata", "pricing"}, carried \in BOOLEAN :
          wizard.open /\ EditStep(name, carried)
    BY <1>3 DEF EditBasics, EditMetadata, EditPricing, OnStep
  <2>2. PICK ok \in BOOLEAN : PatchDraft(
          [wizard.draft EXCEPT !.valid = IF ok THEN @ \union {name} ELSE @ \ {name}], carried)
    BY <2>1 DEF EditStep
  <2>3. [wizard.draft EXCEPT !.valid = IF ok THEN @ \union {name} ELSE @ \ {name}] \in Drafts
    BY <1>a DEF Drafts
  <2> QED
    BY <2>1, <2>2, <2>3, PatchKeepsInv
<1>4. CASE HandleCategory
  <2>1. PICK lost \in SUBSET {"category", "metadata"} :
          /\ wizard.open
          /\ PatchDraft([wizard.draft EXCEPT !.valid = (@ \union {"category"}) \ lost], FALSE)
    BY <1>4 DEF HandleCategory, OnStep
  <2>2. [wizard.draft EXCEPT !.valid = (@ \union {"category"}) \ lost] \in Drafts
    BY <1>a DEF Drafts
  <2> QED
    BY <2>1, <2>2, PatchKeepsInv
<1>5. CASE HandleNext \/ Retreat
  <2>1. PICK step \in Nat : /\ wizard.open /\ Set([wizard EXCEPT !.step = step, !.edited = TRUE])
                            /\ UNCHANGED <<saves, publish, server, overlap>>
    <3>1. wizard.step \in Nat
      BY <1>a DEF Wizards
    <3>2. wizard.step + 1 \in Nat /\ (wizard.step > 1 => wizard.step - 1 \in Nat)
      BY <3>1
    <3> QED
      BY <1>5, <3>2 DEF HandleNext, Retreat
  <2> DEFINE w == [wizard EXCEPT !.step = step, !.edited = TRUE]
  <2>2. w \in Wizards /\ w.id = wizard.id /\ w.open = wizard.open
    BY <1>a DEF Wizards
  <2> HIDE DEF w
  <2>3. Set(w)
    BY <2>1 DEF w
  <2> QED
    BY <2>1, <2>2, <2>3, SetKeepsInv
<1>6. CASE SaveTimerFires
  <2>1. auto.timer /\ UNCHANGED <<copies, publish, server>>
    BY <1>6 DEF SaveTimerFires
  <2>2. CASE auto.inflight # 0
    <3> DEFINE n == auto.inflight
    <3>1. /\ saves' = [saves EXCEPT ![n].waiters = @ + 1]
          /\ auto' = [auto EXCEPT !.timer = FALSE] /\ UNCHANGED <<wizard, overlap>>
      BY <1>6, <2>2 DEF SaveTimerFires
    <3>2. auto' \in [timer : BOOLEAN, inflight : {auto'.inflight}] /\ auto'.inflight = n
      BY <1>0, <3>1 DEF WizardTypes
    <3>3. /\ saves' \in [1..SAVES -> WizardSaves]
          /\ \A i \in 1..SAVES : /\ saves'[i].op = saves[i].op /\ saves'[i].id = saves[i].id
                                 /\ saves'[i].mine = saves[i].mine
                                 /\ i # n => saves'[i] = saves[i]
                                 /\ i = n => saves'[i].waiters = saves[i].waiters + 1
      <4> HIDE DEF n
      <4>1. saves \in [1..SAVES -> WizardSaves]
        BY <1>0 DEF WizardTypes
      <4> DEFINE t == [saves[n] EXCEPT !.waiters = @ + 1]
      <4>2. saves' = [saves EXCEPT ![n] = t]
        BY <3>1
      <4>3. n \in 1..SAVES => /\ t \in WizardSaves /\ t.op = saves[n].op /\ t.id = saves[n].id
                               /\ t.mine = saves[n].mine /\ t.waiters = saves[n].waiters + 1
        BY <4>1, OneMoreWaits
      <4> HIDE DEF t
      <4> QED
        BY <4>1, <4>2, <4>3
    <3> HIDE DEF n
    <3>4. WizardTypes'
      BY <1>0, <2>1, <3>1, <3>2, <3>3 DEF WizardTypes
    <3>5. KnownListings' /\ ReloadKeepsEdits'
      BY <1>0, <2>1, <3>1, <3>3 DEF KnownListings, ReloadKeepsEdits
    <3>6. CASE overlap
      BY <3>1, <3>4, <3>5, <3>6 DEF WizardInv, SavedMeansSaved
    <3>7. CASE ~overlap
      <4>1. n \in Flying /\ n \in 1..SAVES /\ saves[n].mine
        BY <1>0, <2>2, <3>7 DEF OneRequest, n, Flying
      <4>2. saves'[n].waiters # 0 /\ saves'[n] # NoSave
        <5>1. saves[n].waiters \in Nat
          BY <1>0, <4>1 DEF WizardTypes, WizardSaves
        <5>2. saves'[n].waiters = saves[n].waiters + 1
          BY <3>3, <4>1
        <5>3. NoSave.waiters = 0
          BY DEF NoSave
        <5> QED
          BY <5>1, <5>2, <5>3
      <4>3. Flying' = Flying /\ Flying = {n}
        BY <1>0, <3>3, <3>7, <4>1, <4>2 DEF Flying, OneRequest
      <4>4. OneRequest'
        BY <1>0, <2>1, <3>2, <3>3, <3>7, <4>1, <4>3 DEF OneRequest, Busy
      <4>5. SaveCarriesTheEdits'
        BY <4>2, <4>3 DEF SaveCarriesTheEdits
      <4>6. SavedMeansSaved'
        BY <4>3 DEF SavedMeansSaved
      <4> QED
        BY <3>4, <3>5, <4>4, <4>5, <4>6 DEF WizardInv
    <3> QED
      BY <3>6, <3>7
  <2>3. CASE auto.inflight = 0 /\ ~IsDraftSavable(wizard.draft)
    <3>1. /\ wizard' = [wizard EXCEPT !.save = "idle"]
          /\ auto' = [auto EXCEPT !.timer = FALSE] /\ UNCHANGED <<saves, overlap>>
      BY <1>6, <2>3 DEF SaveTimerFires
    <3>2. auto' \in [timer : BOOLEAN, inflight : {auto'.inflight}] /\ auto'.inflight = 0
      BY <1>0, <2>3, <3>1 DEF WizardTypes
    <3>3. /\ wizard' \in Wizards /\ wizard'.save = "idle" /\ wizard'.open = wizard.open
          /\ wizard'.id = wizard.id /\ wizard'.step = wizard.step
          /\ wizard'.draft = wizard.draft /\ wizard'.edited = wizard.edited
      BY <1>a, <3>1, WithSaveState
    <3>4. WizardTypes' /\ KnownListings' /\ ReloadKeepsEdits'
      BY <1>0, <2>1, <3>1, <3>2, <3>3 DEF WizardTypes, KnownListings, ReloadKeepsEdits
    <3>5. SavedMeansSaved' /\ SaveCarriesTheEdits'
      BY <2>3, <3>3 DEF SavedMeansSaved, SaveCarriesTheEdits
    <3>6. ~overlap' => OneRequest'
      BY <1>0, <2>1, <3>1, <3>2 DEF OneRequest, Flying, Busy
    <3> QED
      BY <3>4, <3>5, <3>6 DEF WizardInv
  <2>4. CASE auto.inflight = 0 /\ IsDraftSavable(wizard.draft)
    <3> DEFINE i == CHOOSE k \in (1..SAVES) \ Flying : TRUE
    <3>1. /\ (1..SAVES) \ Flying # {}
          /\ saves' = [saves EXCEPT ![i] = SaveOf(wizard, TRUE)]
          /\ auto' = [timer |-> FALSE, inflight |-> i]
          /\ wizard' = [wizard EXCEPT !.save = "saving"]
          /\ overlap' = (overlap \/ Flying # {} \/ Busy)
      BY <1>6, <2>4 DEF SaveTimerFires
    <3>2. i \in 1..SAVES /\ i \notin Flying
      BY <3>1
    <3> HIDE DEF i
    <3>3. auto' \in [timer : BOOLEAN, inflight : {auto'.inflight}] /\ auto'.inflight = i
      BY <3>1
    <3> DEFINE now == SaveOf(wizard, TRUE)
    <3>4. /\ now \in WizardSaves /\ now # NoSave /\ now.body = wizard.draft /\ now.mine
          /\ now.id = wizard.id /\ (now.op = "update" => wizard.id # 0)
      BY <1>a, SaveOfTyped
    <3> HIDE DEF now
    <3>5. /\ saves' \in [1..SAVES -> WizardSaves] /\ saves'[i] = now
          /\ \A k \in 1..SAVES : k # i => saves'[k] = saves[k]
      BY <1>0, <3>1, <3>2, <3>4 DEF WizardTypes, now
    <3>6. /\ wizard' \in Wizards /\ wizard'.save = "saving" /\ wizard'.open = wizard.open
          /\ wizard'.id = wizard.id /\ wizard'.step = wizard.step
          /\ wizard'.draft = wizard.draft /\ wizard'.edited = wizard.edited
      BY <1>a, <3>1, WithSaveState
    <3>7. overlap' \in BOOLEAN /\ (~overlap' => ~overlap /\ Flying = {} /\ ~Busy)
      BY <3>1
    <3>8. WizardTypes'
      BY <1>0, <2>1, <3>3, <3>5, <3>6, <3>7 DEF WizardTypes
    <3>9. KnownListings'
      <4>1. wizard.id # 0 => wizard.id \in 1..Len(server)
        BY <1>0, <1>a DEF KnownListings
      <4> QED
        BY <1>0, <2>1, <3>4, <3>5, <3>6, <4>1 DEF KnownListings
    <3>10. ReloadKeepsEdits'
      BY <1>0, <2>1, <3>6 DEF ReloadKeepsEdits
    <3>11. SavedMeansSaved'
      BY <3>6 DEF SavedMeansSaved
    <3>12. ASSUME ~overlap' PROVE OneRequest' /\ SaveCarriesTheEdits'
      <4>1. \A k \in 1..SAVES : saves[k] = NoSave
        BY <3>7, <3>12 DEF Flying
      <4>2. Flying' = {i}
        BY <3>2, <3>4, <3>5, <4>1 DEF Flying
      <4>3. OneRequest'
        BY <2>1, <3>3, <3>4, <3>5, <3>7, <3>12, <4>2 DEF OneRequest, Busy
      <4>4. SaveCarriesTheEdits'
        BY <3>4, <3>5, <3>6, <4>2 DEF SaveCarriesTheEdits
      <4> QED
        BY <4>3, <4>4
    <3> QED
      BY <3>8, <3>9, <3>10, <3>11, <3>12 DEF WizardInv
  <2> QED
    BY <2>2, <2>3, <2>4
<1>7. ASSUME NEW i \in 1..SAVES, SaveSucceeds(i) PROVE WizardInv'
  <2>1. i \in Flying /\ saves[i] \in WizardSaves /\ saves[i].body \in Drafts
        /\ UNCHANGED publish
    BY <1>0, <1>7 DEF SaveSucceeds, Flying, WizardTypes, WizardSaves
  <2>t. auto.timer \in BOOLEAN
    BY <1>0 DEF WizardTypes
  <2>2. CASE saves[i].op = "update"
    <3> DEFINE id == saves[i].id
               w == [wizard EXCEPT !.save = "saved"]
    <3>1. /\ server' = Updated(id, saves[i].body)
          /\ SaveEnds(i, w, auto.timer) /\ UNCHANGED copies
      BY <1>7, <2>2 DEF SaveSucceeds
    <3>2. id \in 1..Len(server)
      BY <1>0, <2>2 DEF KnownListings
    <3>3. /\ w \in Wizards /\ w.save = "saved" /\ w.open = wizard.open /\ w.id = wizard.id
          /\ w.step = wizard.step /\ w.draft = wizard.draft /\ w.edited = wizard.edited
      BY <1>a, WithSaveState
    <3> HIDE DEF w, id
    <3> DEFINE row == [server[id] EXCEPT !.edits = saves[i].body.edits]
    <3>4. row \in ServerListings /\ row.edits = saves[i].body.edits
      <4>1. server[id] \in ServerListings
        BY <1>a, <3>2
      <4>2. saves[i].body.edits \in Nat
        BY <1>a, <2>1 DEF WizardSaves, Drafts
      <4> QED
        BY <4>1, <4>2, RowsWritten
    <3>5. server' = [server EXCEPT ![id] = row]
      BY <3>1 DEF Updated
    <3> HIDE DEF row
    <3>6. /\ server' \in Seq(ServerListings) /\ Len(server') = Len(server)
          /\ server'[id].edits = saves[i].body.edits
      BY <1>a, <3>2, <3>4, <3>5
    <3>7. /\ w.id \in 0..Len(server') /\ Len(server') <= LISTINGS
          /\ Len(server') >= Len(server) /\ copies' \in [0..LISTINGS -> Copies]
      BY <1>0, <1>a, <3>1, <3>3, <3>6 DEF KnownListings, WizardTypes
    <3>8. w.open /\ w.edited => copies'[w.id] = [step |-> w.step, draft |-> w.draft]
      BY <1>0, <3>1, <3>3 DEF ReloadKeepsEdits
    <3>9. ASSUME w.open, IsDraftSavable(w.draft), ~auto.timer, ~overlap, saves[i].waiters = 0
          PROVE  server'[w.id].edits = w.draft.edits
      BY <1>0, <2>1, <2>2, <3>3, <3>6, <3>9 DEF SaveCarriesTheEdits, id
    <3> QED
      BY <2>1, <2>t, <3>1, <3>3, <3>6, <3>7, <3>8, <3>9, SaveEndsKeepsInv
  <2>3. CASE saves[i].op # "update"
    <3> DEFINE id == Len(server) + 1
               v == SetListingId(wizard, id)
               w == [v EXCEPT !.save = "saved"]
               on == auto.timer \/ (v.open /\ IsDraftSavable(v.draft))
               row == [edits |-> saves[i].body.edits, status |-> "draft"]
    <3>1. /\ Len(server) < LISTINGS /\ server' = Append(server, row)
          /\ SaveEnds(i, w, Triggered(v).timer)
          /\ copies' = [copies EXCEPT ![v.id] = [step |-> v.step, draft |-> v.draft]]
      BY <1>7, <2>3 DEF SaveSucceeds, Created, WritePersisted
    <3>2. id \in 1..LISTINGS /\ id \in Nat
      BY <1>a, <3>1
    <3>3. /\ v \in Wizards /\ v.open = wizard.open /\ v.id = id /\ v.step = wizard.step
          /\ v.draft = wizard.draft
      BY <1>a, <3>2 DEF SetListingId, Wizards
    <3>4. Triggered(v).timer = on /\ on \in BOOLEAN
      <4>1. on \in BOOLEAN
        BY <2>t
      <4>2. Triggered(v) = [auto EXCEPT !.timer = on]
        BY DEF Triggered
      <4> HIDE DEF on, v
      <4> QED
        BY <1>0, <4>1, <4>2 DEF WizardTypes
    <3>5. on = FALSE => ~(v.open /\ IsDraftSavable(v.draft))
      OBVIOUS
    <3>6. auto.timer => on
      OBVIOUS
    <3>7. row \in ServerListings
      BY <2>1 DEF ServerListings, Drafts
    <3> HIDE DEF v, on, row
    <3>8. /\ w \in Wizards /\ w.save = "saved" /\ w.open = v.open /\ w.id = v.id
          /\ w.step = v.step /\ w.draft = v.draft /\ w.edited = v.edited
      BY <3>3, WithSaveState
    <3>9. /\ server' \in Seq(ServerListings) /\ Len(server') = Len(server) + 1
      BY <1>a, <3>1, <3>7
    <3>10. [step |-> v.step, draft |-> v.draft] \in Copies
      BY <3>3 DEF Wizards, Copies
    <3>11. /\ copies' \in [0..LISTINGS -> Copies]
           /\ copies'[w.id] = [step |-> w.step, draft |-> w.draft]
      BY <1>0, <3>1, <3>2, <3>3, <3>8, <3>10 DEF WizardTypes
    <3>12. w.id \in 0..Len(server') /\ Len(server') <= LISTINGS /\ Len(server') >= Len(server)
      BY <1>a, <3>2, <3>1, <3>3, <3>8, <3>9
    <3> HIDE DEF w, id
    <3> QED
      BY <2>1, <3>1, <3>3, <3>4, <3>5, <3>6, <3>8, <3>9, <3>11, <3>12, SaveEndsKeepsInv
  <2> QED
    BY <2>2, <2>3
<1>8. ASSUME NEW i \in 1..SAVES, SaveFails(i) PROVE WizardInv'
  <2> DEFINE w == [wizard EXCEPT !.save = "error"]
  <2>1. /\ i \in Flying /\ SaveEnds(i, w, auto.timer) /\ UNCHANGED <<copies, publish, server>>
    BY <1>8 DEF SaveFails, Flying
  <2>2. auto.timer \in BOOLEAN
    BY <1>0 DEF WizardTypes
  <2>3. /\ w \in Wizards /\ w.save = "error" /\ w.open = wizard.open /\ w.id = wizard.id
        /\ w.step = wizard.step /\ w.draft = wizard.draft /\ w.edited = wizard.edited
    BY <1>a, WithSaveState
  <2> HIDE DEF w
  <2>4. /\ server' \in Seq(ServerListings) /\ Len(server') <= LISTINGS
        /\ Len(server') >= Len(server) /\ copies' \in [0..LISTINGS -> Copies]
        /\ w.id \in 0..Len(server')
    BY <1>0, <1>a, <2>1, <2>3 DEF WizardTypes, KnownListings
  <2>5. w.open /\ w.edited => copies'[w.id] = [step |-> w.step, draft |-> w.draft]
    BY <1>0, <2>1, <2>3 DEF ReloadKeepsEdits
  <2> QED
    BY <2>1, <2>2, <2>3, <2>4, <2>5, SaveEndsKeepsInv
<1>9. CASE HandleSubmit
  <2>1. /\ ~Busy /\ overlap' = (overlap \/ Flying # {})
        /\ publish' = [stage |-> IF wizard.id = 0 THEN "creating" ELSE "publishing",
                       id |-> wizard.id, body |-> wizard.draft, here |-> TRUE]
        /\ UNCHANGED <<wizard, copies, auto, saves, server>>
    BY <1>9 DEF HandleSubmit
  <2>2. /\ publish' \in Publishing /\ publish'.id = wizard.id
        /\ publish'.stage = "publishing" => wizard.id # 0
    BY <1>a, <2>1 DEF Publishing
  <2>3. overlap' \in BOOLEAN /\ (~overlap' => ~overlap /\ Flying = {})
    BY <1>0, <2>1 DEF WizardTypes
  <2>4. WizardTypes'
    BY <1>0, <2>1, <2>2, <2>3 DEF WizardTypes
  <2>5. KnownListings'
    <3>1. wizard.id # 0 => wizard.id \in 1..Len(server)
      BY <1>0, <1>a DEF KnownListings
    <3> QED
      BY <1>0, <2>1, <2>2, <3>1 DEF KnownListings
  <2>6. ReloadKeepsEdits'
    BY <1>0, <2>1 DEF ReloadKeepsEdits
  <2>7. Flying' = Flying
    BY <2>1 DEF Flying
  <2>8. SavedMeansSaved'
    BY <1>0, <2>1, <2>3, <2>7 DEF SavedMeansSaved
  <2>9. ~overlap' => OneRequest' /\ SaveCarriesTheEdits'
    BY <1>0, <2>1, <2>3, <2>7 DEF OneRequest, SaveCarriesTheEdits
  <2> QED
    BY <2>4, <2>5, <2>6, <2>8, <2>9 DEF WizardInv
<1>10. CASE SubmitCreated
  <2> DEFINE id == Len(server) + 1
             v == SetListingId(wizard, id)
             row == [edits |-> publish.body.edits, status |-> "draft"]
  <2>1. /\ publish.stage = "creating" /\ Len(server) < LISTINGS /\ server' = Append(server, row)
        /\ Set(v) /\ publish' = [publish EXCEPT !.stage = "publishing", !.id = id]
        /\ UNCHANGED <<saves, overlap>>
    BY <1>10 DEF SubmitCreated, Created
  <2>2. id \in 1..LISTINGS /\ id \in 0..LISTINGS /\ id \in Nat
    BY <1>a, <2>1
  <2>3. row \in ServerListings
    BY <1>0 DEF WizardTypes, Publishing, Drafts, ServerListings
  <2>4. v \in Wizards /\ v.open = wizard.open /\ v.id = id /\ v.draft = wizard.draft
    BY <1>a, <2>2 DEF SetListingId, Wizards
  <2>5. publish' \in Publishing /\ publish'.stage = "publishing" /\ publish'.id = id
    BY <1>0, <2>1, <2>2 DEF WizardTypes, Publishing
  <2> HIDE DEF row, v
  <2>6. server' \in Seq(ServerListings) /\ Len(server') = id /\ Len(server') <= LISTINGS
    BY <1>a, <2>1, <2>2, <2>3
  <2>7. /\ wizard' = v
        /\ copies' \in [0..LISTINGS -> Copies]
        /\ copies'[v.id] = [step |-> v.step, draft |-> v.draft]
        /\ auto' \in [timer : BOOLEAN, inflight : {auto'.inflight}]
        /\ auto'.inflight = auto.inflight
        /\ v.open /\ IsDraftSavable(v.draft) => auto'.timer = TRUE
    BY <1>0, <2>1, <2>2, <2>4, SetKeepsTypes
  <2>8. WizardTypes'
    BY <1>0, <2>1, <2>4, <2>5, <2>6, <2>7 DEF WizardTypes
  <2>9. KnownListings'
    <3>1. wizard'.id \in 0..Len(server') /\ publish'.id \in 1..Len(server')
      BY <1>a, <2>2, <2>4, <2>5, <2>6, <2>7
    <3>2. \A i \in 1..SAVES : saves'[i].op = "update" => saves'[i].id \in 1..Len(server')
      BY <1>0, <1>a, <2>1, <2>6 DEF KnownListings
    <3> QED
      BY <3>1, <3>2 DEF KnownListings
  <2>10. ReloadKeepsEdits'
    BY <2>7 DEF ReloadKeepsEdits
  <2>11. SavedMeansSaved' /\ SaveCarriesTheEdits'
    BY <2>7 DEF SavedMeansSaved, SaveCarriesTheEdits
  <2>12. ~overlap' => OneRequest'
    BY <1>0, <2>1, <2>7 DEF OneRequest, Busy, Flying
  <2> QED
    BY <2>8, <2>9, <2>10, <2>11, <2>12 DEF WizardInv
<1>11. CASE SubmitPublished
  <2> DEFINE id == publish.id
  <2>1. /\ publish.stage = "publishing" /\ server' = [server EXCEPT ![id].status = "published"]
        /\ copies' = [copies EXCEPT ![wizard.id] = NoCopy]
        /\ wizard' = [ClosedWizard EXCEPT !.open = FALSE] /\ publish' = NotPublishing
        /\ auto' = [timer |-> FALSE, inflight |-> 0]
        /\ saves' = [i \in 1..SAVES |-> [saves[i] EXCEPT !.mine = FALSE]]
        /\ UNCHANGED overlap
    BY <1>11 DEF SubmitPublished
  <2>2. id \in 1..Len(server)
    BY <1>0, <2>1 DEF KnownListings
  <2> HIDE DEF id
  <2> DEFINE row == [server[id] EXCEPT !.status = "published"]
  <2>3. row \in ServerListings
    <3>1. server[id] \in ServerListings
      BY <1>a, <2>2
    <3> QED
      BY <3>1, RowsWritten
  <2>4. server' = [server EXCEPT ![id] = row]
    BY <2>1
  <2> HIDE DEF row
  <2>5. server' \in Seq(ServerListings) /\ Len(server') = Len(server)
    BY <1>a, <2>2, <2>3, <2>4
  <2>6. copies' \in [0..LISTINGS -> Copies]
    BY <1>0, <2>1, EmptiesTyped DEF WizardTypes
  <2>7. wizard' \in Wizards /\ wizard'.open = FALSE /\ wizard'.id = 0
    BY <2>1, EmptiesTyped DEF ClosedWizard, Wizards
  <2>8. publish' \in Publishing /\ publish'.stage = "idle"
    BY <2>1, EmptiesTyped DEF NotPublishing
  <2>9. auto' \in [timer : BOOLEAN, inflight : {auto'.inflight}] /\ auto'.inflight = 0
    BY <2>1
  <2>10. /\ saves' \in [1..SAVES -> WizardSaves]
         /\ \A i \in 1..SAVES : /\ saves'[i].op = saves[i].op /\ saves'[i].id = saves[i].id
                                /\ saves[i] = NoSave => saves'[i] = NoSave
    <3> SUFFICES ASSUME NEW i \in 1..SAVES
                 PROVE  /\ [saves[i] EXCEPT !.mine = FALSE] \in WizardSaves
                        /\ [saves[i] EXCEPT !.mine = FALSE].op = saves[i].op
                        /\ [saves[i] EXCEPT !.mine = FALSE].id = saves[i].id
                        /\ saves[i] = NoSave => [saves[i] EXCEPT !.mine = FALSE] = NoSave
      BY <2>1
    <3>1. saves[i] \in WizardSaves
      BY <1>0 DEF WizardTypes
    <3>2. [NoSave EXCEPT !.mine = FALSE] = NoSave
      BY NoSaveStays
    <3> QED
      BY <3>1, <3>2 DEF WizardSaves
  <2>11. WizardTypes'
    BY <1>0, <2>1, <2>5, <2>6, <2>7, <2>8, <2>9, <2>10 DEF WizardTypes
  <2>12. KnownListings'
    BY <1>0, <1>a, <2>5, <2>7, <2>8, <2>10 DEF KnownListings
  <2>13. ReloadKeepsEdits' /\ SavedMeansSaved' /\ SaveCarriesTheEdits'
    BY <2>7 DEF ReloadKeepsEdits, SavedMeansSaved, SaveCarriesTheEdits
  <2>14. ~overlap' => OneRequest'
    <3>1. Flying' \subseteq Flying
      BY <2>10 DEF Flying
    <3> QED
      BY <1>0, <2>1, <2>8, <2>9, <3>1 DEF OneRequest, Busy
  <2> QED
    BY <2>11, <2>12, <2>13, <2>14 DEF WizardInv
<1>12. CASE SubmitFails
  <2>1. publish' = NotPublishing /\ UNCHANGED <<wizard, copies, auto, saves, server, overlap>>
    BY <1>12 DEF SubmitFails
  <2>2. publish' \in Publishing /\ publish'.stage = "idle"
    BY <2>1, EmptiesTyped DEF NotPublishing
  <2>3. Flying' = Flying
    BY <2>1 DEF Flying
  <2> QED
    BY <1>0, <2>1, <2>2, <2>3
       DEF WizardInv, WizardTypes, KnownListings, ReloadKeepsEdits, SavedMeansSaved,
           SaveCarriesTheEdits, OneRequest, Busy
<1>13. CASE UNCHANGED wizardVars
  <2>1. Flying' = Flying
    BY <1>13 DEF Flying, wizardVars
  <2> QED
    BY <1>0, <1>13, <2>1
       DEF wizardVars, WizardInv, WizardTypes, KnownListings, ReloadKeepsEdits, SavedMeansSaved,
           SaveCarriesTheEdits, OneRequest, Busy
<1> QED
  BY <1>1, <1>2, <1>3, <1>4, <1>5, <1>6, <1>7, <1>8, <1>9, <1>10, <1>11, <1>12, <1>13
     DEF WizardNext

\* A draft loses no edit here, and no edit of a field that an update carries at the server
\* unless two writes of listings were in flight together, for any number of edits, saves,
\* waiters and visits (store.ts, autosave.ts, StepSubmit).
THEOREM DraftAgrees == WizardSpec => []DraftKeepsEdits
<1>1. WizardInv => DraftKeepsEdits
  BY DEF WizardInv, DraftKeepsEdits
<1> QED
  BY <1>1, WizardInvInit, WizardInvStep, PTL DEF WizardSpec

-----------------------------------------------------------------------------
(* The player of a cached trace.                                           *)

Players == [status : {"loading", "error", "ready", "playing", "paused", "complete"},
            step : Nat, emitted : Nat, auto : BOOLEAN]

StepTimer(n, i) == [play |-> n, kind |-> "step", i |-> i, at |-> StepStarts[i]]
EventTimer(n, i) == [play |-> n, kind |-> "event", i |-> i, at |-> EventTimes[i]]
FinalTimer(n) == [play |-> n, kind |-> "final", i |-> 1, at |-> Duration + 1]

ReplayTypes ==
  /\ player \in Players /\ playNo \in Nat /\ pending \subseteq TimersOf(playNo)
  /\ ReplayEvents = {} => player.emitted = 0

\* While a play goes on its final timer is pending, and so is the timer of the last step and
\* of the last event, unless that step is shown, or that event, and no other will follow.
LastTimersLast ==
  pending # {} =>
    /\ FinalTimer(playNo) \in pending
    /\ \/ StepTimer(playNo, Len(StepStarts)) \in pending
       \/ player.step = Len(StepStarts) /\ \A t \in pending : t.kind # "step"
    /\ \/ ReplayEvents # {} /\ EventTimer(playNo, Len(EventTimes)) \in pending
       \/ player.emitted = Len(EventTimes) /\ \A t \in pending : t.kind # "event"

ReplayInv == ReplayTypes /\ OneReplayAtATime /\ LastTimersLast /\ CompletesWithEverything

LEMMA TraceBounds ==
  /\ Len(StepStarts) \in Nat \ {0} /\ ReplaySteps = 1..Len(StepStarts)
  /\ Len(EventTimes) \in Nat /\ ReplayEvents = 1..Len(EventTimes)
  /\ \A i \in ReplaySteps : StepStarts[i] \in Nat /\ StepStarts[i] <= Duration
  /\ \A i \in ReplayEvents : EventTimes[i] \in Nat /\ EventTimes[i] <= Duration
  /\ Duration \in Nat
<1>1. /\ StepStarts \in Seq(Nat) /\ EventTimes \in Seq(Nat) /\ StepEnds \in Seq(Nat)
      /\ Duration \in Nat /\ ReplaySteps # {} /\ DOMAIN StepEnds = ReplaySteps
  BY ReplayAssumption
<1>2. /\ Len(StepStarts) \in Nat \ {0} /\ ReplaySteps = 1..Len(StepStarts)
      /\ Len(EventTimes) \in Nat /\ ReplayEvents = 1..Len(EventTimes)
  BY <1>1 DEF ReplaySteps, ReplayEvents
<1>3. ASSUME NEW i \in ReplaySteps PROVE StepStarts[i] \in Nat /\ StepEnds[i] \in Nat
  <2>1. i \in DOMAIN StepStarts
    BY DEF ReplaySteps
  <2>2. i \in DOMAIN StepEnds
    BY <1>1
  <2>3. \A s \in Seq(Nat) : \A k \in DOMAIN s : s[k] \in Nat
    OBVIOUS
  <2> QED
    BY <1>1, <2>1, <2>2, <2>3
<1>4. \A i \in ReplaySteps : StepStarts[i] \in 0..StepEnds[i] /\ StepEnds[i] <= Duration
  BY ReplayAssumption
<1>5. ASSUME NEW i \in ReplaySteps PROVE StepStarts[i] <= Duration
  <2>1. StepStarts[i] \in Nat /\ StepEnds[i] \in Nat /\ Duration \in Nat
    BY <1>1, <1>3
  <2>2. StepStarts[i] \in 0..StepEnds[i] /\ StepEnds[i] <= Duration
    BY <1>4
  <2> QED
    BY <2>1, <2>2
<1>6. \A i \in ReplayEvents : EventTimes[i] \in Nat /\ EventTimes[i] <= Duration
  <2>1. \A i \in ReplayEvents : EventTimes[i] \in 0..Duration
    BY ReplayAssumption
  <2> QED
    BY <1>1, <2>1
<1> QED
  BY <1>1, <1>2, <1>3, <1>5, <1>6

LEMMA TraceInOrder ==
  /\ \A i, j \in ReplaySteps : i <= j => StepStarts[i] <= StepStarts[j]
  /\ \A i, j \in ReplayEvents : i <= j => EventTimes[i] <= EventTimes[j]
<1>1. /\ \A i, j \in ReplaySteps : i < j => StepStarts[i] <= StepStarts[j]
      /\ \A i, j \in ReplayEvents : i < j => EventTimes[i] <= EventTimes[j]
  BY ReplayAssumption
<1>2. ASSUME NEW i \in ReplaySteps, NEW j \in ReplaySteps, i <= j
      PROVE  StepStarts[i] <= StepStarts[j]
  <2>1. CASE i = j
    BY <2>1, TraceBounds
  <2>2. CASE i < j
    BY <1>1, <2>2
  <2> QED
    BY <1>2, <2>1, <2>2, TraceBounds
<1>3. ASSUME NEW i \in ReplayEvents, NEW j \in ReplayEvents, i <= j
      PROVE  EventTimes[i] <= EventTimes[j]
  <2>1. CASE i = j
    BY <2>1, TraceBounds
  <2>2. CASE i < j
    BY <1>1, <2>2
  <2> QED
    BY <1>3, <2>1, <2>2, TraceBounds
<1> QED
  BY <1>2, <1>3

LEMMA TimerKinds ==
  ASSUME NEW n, NEW t \in TimersOf(n)
  PROVE  /\ t.play = n
         /\ \/ t.kind = "step" /\ t.i \in ReplaySteps /\ t = StepTimer(n, t.i)
            \/ t.kind = "event" /\ t.i \in ReplayEvents /\ t = EventTimer(n, t.i)
            \/ t.kind = "final" /\ t = FinalTimer(n)
  BY DEF TimersOf, StepTimer, EventTimer, FinalTimer

LEMMA TimersThere ==
  ASSUME NEW n
  PROVE  /\ TimersOf(n) # {} /\ FinalTimer(n) \in TimersOf(n)
         /\ StepTimer(n, Len(StepStarts)) \in TimersOf(n)
         /\ ReplayEvents # {} => EventTimer(n, Len(EventTimes)) \in TimersOf(n)
<1>1. Len(StepStarts) \in ReplaySteps
  BY TraceBounds
<1>2. ReplayEvents # {} => Len(EventTimes) \in ReplayEvents
  BY TraceBounds
<1>3. FinalTimer(n) \in TimersOf(n)
  BY DEF TimersOf, FinalTimer
<1>4. StepTimer(n, Len(StepStarts)) \in TimersOf(n)
  BY <1>1 DEF TimersOf, StepTimer
<1>5. ReplayEvents # {} => EventTimer(n, Len(EventTimes)) \in TimersOf(n)
  BY <1>2 DEF TimersOf, EventTimer
<1> QED
  BY <1>3, <1>4, <1>5

\* The last timer of each loop fires after the others of that loop, and the final one last.
LEMMA LoopsInOrder ==
  ASSUME NEW n, NEW t \in TimersOf(n), NEW u \in TimersOf(n), t # u, FiresBefore(t, u)
  PROVE  /\ t.kind # "final"
         /\ u.kind = "step" => t # StepTimer(n, Len(StepStarts))
         /\ u.kind = "event" => t # EventTimer(n, Len(EventTimes))
<1>1. /\ LoopOrder["step"] = 1 /\ LoopOrder["event"] = 2 /\ LoopOrder["final"] = 3
  BY DEF LoopOrder
<1>2. t.kind # "final"
  <2> SUFFICES ASSUME t.kind = "final" PROVE FALSE
    OBVIOUS
  <2>1. t = FinalTimer(n) /\ t.at = Duration + 1 /\ t.i = 1
    BY TimerKinds DEF FinalTimer
  <2>2. u.kind # "final"
    BY <2>1, TimerKinds
  <2>3. u.at \in Nat /\ u.at <= Duration
    BY <2>2, TimerKinds, TraceBounds DEF StepTimer, EventTimer
  <2> QED
    BY <2>1, <2>2, <2>3, TraceBounds DEF FiresBefore
<1>3. u.kind = "step" => t # StepTimer(n, Len(StepStarts))
  <2> SUFFICES ASSUME u.kind = "step", t = StepTimer(n, Len(StepStarts)) PROVE FALSE
    OBVIOUS
  <2>1. t.kind = "step" /\ t.i = Len(StepStarts) /\ t.at = StepStarts[Len(StepStarts)]
    BY DEF StepTimer
  <2>2. u.i \in ReplaySteps /\ u.at = StepStarts[u.i]
    BY TimerKinds DEF StepTimer
  <2>3. Len(StepStarts) \in ReplaySteps /\ u.i <= Len(StepStarts)
    BY <2>2, TraceBounds
  <2>4. StepStarts[u.i] <= StepStarts[Len(StepStarts)]
    BY <2>2, <2>3, TraceInOrder
  <2>5. t.at \in Nat /\ u.at \in Nat /\ u.at <= t.at /\ u.i <= t.i /\ u.i \in Nat /\ t.i \in Nat
    BY <2>1, <2>2, <2>3, <2>4, TraceBounds
  <2> QED
    BY <1>1, <2>1, <2>5 DEF FiresBefore
<1>4. u.kind = "event" => t # EventTimer(n, Len(EventTimes))
  <2> SUFFICES ASSUME u.kind = "event", t = EventTimer(n, Len(EventTimes)) PROVE FALSE
    OBVIOUS
  <2>1. t.kind = "event" /\ t.i = Len(EventTimes) /\ t.at = EventTimes[Len(EventTimes)]
    BY DEF EventTimer
  <2>2. u.i \in ReplayEvents /\ u.at = EventTimes[u.i]
    BY TimerKinds DEF EventTimer
  <2>3. Len(EventTimes) \in ReplayEvents /\ u.i <= Len(EventTimes)
    BY <2>2, TraceBounds
  <2>4. EventTimes[u.i] <= EventTimes[Len(EventTimes)]
    BY <2>2, <2>3, TraceInOrder
  <2>5. t.at \in Nat /\ u.at \in Nat /\ u.at <= t.at /\ u.i <= t.i /\ u.i \in Nat /\ t.i \in Nat
    BY <2>1, <2>2, <2>3, <2>4, TraceBounds
  <2> QED
    BY <1>1, <2>1, <2>5 DEF FiresBefore
<1> QED
  BY <1>2, <1>3, <1>4

LEMMA ReplayInvInit == ReplayInit => ReplayInv
<1> SUFFICES ASSUME ReplayInit PROVE ReplayInv
  OBVIOUS
<1>1. /\ player \in Players /\ player.status = "loading" /\ player.emitted = 0
      /\ playNo = 0 /\ pending = {}
  BY DEF ReplayInit, Players
<1> QED
  BY <1>1 DEF ReplayInv, ReplayTypes, OneReplayAtATime, LastTimersLast, CompletesWithEverything

\* Play sets every timer of a new play; none of another is left.
LEMMA PlayKeepsInv ==
  ASSUME ReplayTypes, NEW from \in Players, PlayFrom(from), pending = {},
         ReplayEvents = {} => from.emitted = 0
  PROVE  ReplayInv'
<1>1. /\ player' = [from EXCEPT !.status = "playing"] /\ playNo' = playNo + 1
      /\ pending' = TimersOf(playNo')
  BY DEF PlayFrom
<1>2. /\ player' \in Players /\ player'.status = "playing"
      /\ player'.emitted = from.emitted
  BY <1>1 DEF Players
<1>3. playNo' \in Nat
  BY <1>1 DEF ReplayTypes
<1>4. ReplayTypes'
  BY <1>1, <1>2, <1>3 DEF ReplayTypes
<1>5. OneReplayAtATime'
  BY <1>1, <1>2, TimerKinds, TimersThere DEF OneReplayAtATime
<1>6. ReplayEvents = {} => /\ player'.emitted = Len(EventTimes)
                           /\ \A t \in pending' : t.kind # "event"
  <2>1. ReplayEvents = {} => Len(EventTimes) = 0
    BY TraceBounds
  <2> QED
    BY <1>1, <1>2, <2>1, TimerKinds
<1>7. LastTimersLast'
  BY <1>1, <1>6, TimersThere DEF LastTimersLast
<1>8. CompletesWithEverything'
  BY <1>2 DEF CompletesWithEverything
<1> QED
  BY <1>4, <1>5, <1>7, <1>8 DEF ReplayInv

\* Nothing is pending in a player that does not play.
LEMMA StoppedKeepsInv ==
  ASSUME ReplayTypes, player' \in Players, player'.status \notin {"playing", "complete"},
         pending' = {}, playNo' = playNo, ReplayEvents = {} => player'.emitted = 0
  PROVE  ReplayInv'
  BY DEF ReplayInv, ReplayTypes, OneReplayAtATime, LastTimersLast, CompletesWithEverything

LEMMA ReplayInvStep == ReplayInv /\ [ReplayNext]_replayVars => ReplayInv'
<1> SUFFICES ASSUME ReplayInv, [ReplayNext]_replayVars PROVE ReplayInv'
  OBVIOUS
<1>a. /\ player \in Players /\ playNo \in Nat /\ pending \subseteq TimersOf(playNo)
      /\ ReplayEvents = {} => player.emitted = 0
      /\ ReplayTypes
  BY DEF ReplayInv, ReplayTypes
<1>b. player.status # "playing" => pending = {}
  BY DEF ReplayInv, OneReplayAtATime
<1>c. /\ WasReset(player) \in Players /\ WasReset(player).status = "ready"
      /\ WasReset(player).emitted = 0
  BY <1>a, TraceBounds DEF WasReset, Players
<1>1. CASE TraceLoads
  <2>1. pending = {}
    BY <1>1, <1>b DEF TraceLoads
  <2> DEFINE ready == [player EXCEPT !.status = "ready"]
  <2>2. /\ ready \in Players /\ ready.status = "ready" /\ ready.emitted = player.emitted
    BY <1>a DEF Players
  <2>3. \/ PlayFrom(ready)
        \/ player' = ready /\ UNCHANGED <<pending, playNo>>
    BY <1>1 DEF TraceLoads
  <2> HIDE DEF ready
  <2>4. CASE PlayFrom(ready)
    BY <1>a, <2>1, <2>2, <2>4, PlayKeepsInv
  <2>5. CASE player' = ready /\ UNCHANGED <<pending, playNo>>
    BY <1>a, <2>1, <2>2, <2>5, StoppedKeepsInv
  <2> QED
    BY <2>3, <2>4, <2>5
<1>2. CASE TraceFails
  <2>1. pending = {} /\ player' = [player EXCEPT !.status = "error"] /\ UNCHANGED <<pending, playNo>>
    BY <1>2, <1>b DEF TraceFails
  <2>2. player' \in Players /\ player'.status = "error" /\ player'.emitted = player.emitted
    BY <1>a, <2>1 DEF Players
  <2> QED
    BY <1>a, <2>1, <2>2, StoppedKeepsInv
<1>3. CASE RetryLoad
  <2>1. pending = {} /\ player' = [player EXCEPT !.status = "loading"] /\ UNCHANGED <<pending, playNo>>
    BY <1>3, <1>b DEF RetryLoad
  <2>2. player' \in Players /\ player'.status = "loading" /\ player'.emitted = player.emitted
    BY <1>a, <2>1 DEF Players
  <2> QED
    BY <1>a, <2>1, <2>2, StoppedKeepsInv
<1>4. CASE ClickPlay
  <2>1. pending = {} /\ (PlayFrom(WasReset(player)) \/ PlayFrom(player))
    BY <1>4, <1>b DEF ClickPlay
  <2> QED
    BY <1>a, <1>c, <2>1, PlayKeepsInv
<1>5. CASE Pause
  <2>1. player' = [player EXCEPT !.status = "paused"] /\ pending' = {} /\ playNo' = playNo
    BY <1>5 DEF Pause
  <2>2. player' \in Players /\ player'.status = "paused" /\ player'.emitted = player.emitted
    BY <1>a, <2>1 DEF Players
  <2> QED
    BY <1>a, <2>1, <2>2, StoppedKeepsInv
<1>6. CASE Reset
  <2>1. \/ /\ player' = [WasReset(player) EXCEPT !.status = "playing"]
           /\ pending' = TimersOf(playNo + 1) /\ playNo' = playNo + 1
        \/ player' = WasReset(player) /\ pending' = {} /\ playNo' = playNo
    BY <1>6 DEF Reset
  <2>2. CASE player' = WasReset(player) /\ pending' = {} /\ playNo' = playNo
    BY <1>a, <1>c, <2>2, StoppedKeepsInv
  <2>3. CASE /\ player' = [WasReset(player) EXCEPT !.status = "playing"]
             /\ pending' = TimersOf(playNo + 1) /\ playNo' = playNo + 1
    <3>1. player' \in Players /\ player'.status = "playing" /\ player'.emitted = 0
      BY <1>c, <2>3 DEF Players
    <3>2. playNo' \in Nat /\ pending' = TimersOf(playNo')
      BY <1>a, <2>3
    <3>3. ReplayTypes' /\ OneReplayAtATime' /\ CompletesWithEverything'
      BY <3>1, <3>2, TimerKinds, TimersThere
         DEF ReplayTypes, OneReplayAtATime, CompletesWithEverything
    <3>4. ReplayEvents = {} => Len(EventTimes) = 0 /\ \A t \in pending' : t.kind # "event"
      BY <3>2, TraceBounds, TimerKinds
    <3>5. LastTimersLast'
      BY <3>1, <3>2, <3>4, TimersThere DEF LastTimersLast
    <3> QED
      BY <3>3, <3>5 DEF ReplayInv
  <2> QED
    BY <2>1, <2>2, <2>3
<1>7. CASE CloseReplay
  <2>1. /\ player' = [player EXCEPT !.status = "loading", !.step = 1, !.emitted = 0]
        /\ pending' = {} /\ playNo' = playNo
    BY <1>7 DEF CloseReplay
  <2>2. player' \in Players /\ player'.status = "loading" /\ player'.emitted = 0
    BY <1>a, <2>1 DEF Players
  <2> QED
    BY <1>a, <2>1, <2>2, StoppedKeepsInv
<1>8. ASSUME NEW step \in ReplaySteps, SeekTo(step) PROVE ReplayInv'
  <2> DEFINE emitted == EventsUntil(StepEnds[step])
  <2>1. /\ player' = [player EXCEPT !.status = "paused", !.step = step, !.emitted = emitted]
        /\ pending' = {} /\ playNo' = playNo
    BY <1>8 DEF SeekTo
  <2>2. emitted \in Nat /\ (ReplayEvents = {} => emitted = 0)
    <3> DEFINE seen == {i \in ReplayEvents : EventTimes[i] <= StepEnds[step]}
    <3>1. emitted = Cardinality(seen) /\ seen \subseteq ReplayEvents
      BY DEF EventsUntil
    <3>2. IsFiniteSet(ReplayEvents)
      BY TraceBounds, FS_Interval
    <3>3. IsFiniteSet(seen)
      BY <3>1, <3>2, FS_Subset
    <3>4. ReplayEvents = {} => seen = {}
      OBVIOUS
    <3> QED
      BY <3>1, <3>3, <3>4, FS_CardinalityType, FS_EmptySet
  <2> HIDE DEF emitted
  <2>3. player' \in Players /\ player'.status = "paused" /\ player'.emitted = emitted
    <3>1. step \in Nat
      BY TraceBounds
    <3> QED
      BY <1>a, <2>1, <2>2, <3>1 DEF Players
  <2> QED
    BY <1>a, <2>1, <2>2, <2>3, StoppedKeepsInv
<1>9. ASSUME NEW n \in 1..playNo, TimerFires(n) PROVE ReplayInv'
  <2>1. PICK t \in NextOf(n) : player' = Fired(t) /\ pending' = pending \ {t} /\ playNo' = playNo
    BY <1>9 DEF TimerFires
  <2>2. /\ t \in pending /\ t.play = n /\ pending # {} /\ player.status = "playing"
        /\ \A u \in pending : u.play = playNo
    BY <2>1 DEF NextOf, ReplayInv, OneReplayAtATime
  <2>3. t \in TimersOf(playNo) /\ \A u \in pending : u \in TimersOf(playNo)
    BY <1>a, <2>2
  <2>4. \A u \in pending : t = u \/ FiresBefore(t, u)
    BY <2>1, <2>2 DEF NextOf
  <2>5. /\ FinalTimer(playNo) \in pending
        /\ \/ StepTimer(playNo, Len(StepStarts)) \in pending
           \/ player.step = Len(StepStarts) /\ \A u \in pending : u.kind # "step"
        /\ \/ ReplayEvents # {} /\ EventTimer(playNo, Len(EventTimes)) \in pending
           \/ player.emitted = Len(EventTimes) /\ \A u \in pending : u.kind # "event"
    BY <2>2 DEF ReplayInv, LastTimersLast
  <2>6. \A u \in pending' :
          /\ t.kind # "final" /\ u \in TimersOf(playNo)
          /\ u.kind = "step" => t # StepTimer(playNo, Len(StepStarts))
          /\ u.kind = "event" => t # EventTimer(playNo, Len(EventTimes))
    BY <2>1, <2>3, <2>4, LoopsInOrder
  <2>7. CASE t.kind = "step"
    <3>1. player' = [player EXCEPT !.step = t.i] /\ t.i \in ReplaySteps /\ t = StepTimer(playNo, t.i)
      BY <2>1, <2>3, <2>7, TimerKinds DEF Fired
    <3>2. /\ player' \in Players /\ player'.status = "playing" /\ player'.step = t.i
          /\ player'.emitted = player.emitted
      BY <1>a, <2>2, <3>1, TraceBounds DEF Players
    <3>3. /\ FinalTimer(playNo) # t
          /\ \A i \in ReplayEvents : EventTimer(playNo, i) # t
      BY <2>7 DEF FinalTimer, EventTimer
    <3>4. StepTimer(playNo, Len(StepStarts)) \in pending
      BY <2>2, <2>5, <2>7
    <3>5. \/ StepTimer(playNo, Len(StepStarts)) \in pending'
          \/ player'.step = Len(StepStarts) /\ \A u \in pending' : u.kind # "step"
      <4>1. CASE t = StepTimer(playNo, Len(StepStarts))
        <5>1. t.i = Len(StepStarts)
          BY <4>1 DEF StepTimer
        <5> QED
          BY <2>6, <3>2, <4>1, <5>1
      <4>2. CASE t # StepTimer(playNo, Len(StepStarts))
        BY <2>1, <3>4, <4>2
      <4> QED
        BY <4>1, <4>2
    <3>6. \/ ReplayEvents # {} /\ EventTimer(playNo, Len(EventTimes)) \in pending'
          \/ player'.emitted = Len(EventTimes) /\ \A u \in pending' : u.kind # "event"
      <4>1. ReplayEvents # {} => Len(EventTimes) \in ReplayEvents
        BY TraceBounds
      <4> QED
        BY <2>1, <2>5, <3>2, <3>3, <4>1
    <3>7. FinalTimer(playNo) \in pending'
      BY <2>1, <2>5, <3>3
    <3>8. ReplayTypes'
      BY <1>a, <2>1, <3>2 DEF ReplayTypes
    <3>9. OneReplayAtATime' /\ CompletesWithEverything'
      BY <2>1, <2>2, <3>2, <3>7 DEF OneReplayAtATime, CompletesWithEverything
    <3>10. LastTimersLast'
      BY <2>1, <3>5, <3>6, <3>7 DEF LastTimersLast
    <3> QED
      BY <3>8, <3>9, <3>10 DEF ReplayInv
  <2>8. CASE t.kind = "event"
    <3>1. player' = [player EXCEPT !.emitted = t.i] /\ t.i \in ReplayEvents /\ t = EventTimer(playNo, t.i)
      BY <2>1, <2>3, <2>8, TimerKinds DEF Fired
    <3>2. /\ player' \in Players /\ player'.status = "playing" /\ player'.step = player.step
          /\ player'.emitted = t.i
      BY <1>a, <2>2, <3>1, TraceBounds DEF Players
    <3>3. /\ FinalTimer(playNo) # t
          /\ StepTimer(playNo, Len(StepStarts)) # t
      BY <2>8 DEF FinalTimer, StepTimer
    <3>4. ReplayEvents # {} /\ EventTimer(playNo, Len(EventTimes)) \in pending
      BY <2>2, <2>5, <2>8
    <3>5. \/ EventTimer(playNo, Len(EventTimes)) \in pending'
          \/ player'.emitted = Len(EventTimes) /\ \A u \in pending' : u.kind # "event"
      <4>1. CASE t = EventTimer(playNo, Len(EventTimes))
        <5>1. t.i = Len(EventTimes)
          BY <4>1 DEF EventTimer
        <5> QED
          BY <2>6, <3>2, <4>1, <5>1
      <4>2. CASE t # EventTimer(playNo, Len(EventTimes))
        BY <2>1, <3>4, <4>2
      <4> QED
        BY <4>1, <4>2
    <3>6. \/ StepTimer(playNo, Len(StepStarts)) \in pending'
          \/ player'.step = Len(StepStarts) /\ \A u \in pending' : u.kind # "step"
      BY <2>1, <2>5, <3>2, <3>3
    <3>7. FinalTimer(playNo) \in pending'
      BY <2>1, <2>5, <3>3
    <3>8. ReplayTypes'
      BY <1>a, <2>1, <3>2, <3>4 DEF ReplayTypes
    <3>9. OneReplayAtATime' /\ CompletesWithEverything'
      BY <2>1, <2>2, <3>2, <3>7 DEF OneReplayAtATime, CompletesWithEverything
    <3>10. LastTimersLast'
      BY <2>1, <3>4, <3>5, <3>6, <3>7 DEF LastTimersLast
    <3> QED
      BY <3>8, <3>9, <3>10 DEF ReplayInv
  <2>9. CASE t.kind = "final"
    <3>1. pending' = {}
      BY <2>6, <2>9
    <3>2. pending = {t}
      BY <2>1, <2>2, <3>1
    <3>3. /\ player.step = Len(StepStarts) /\ player.emitted = Len(EventTimes)
      <4>1. /\ StepTimer(playNo, Len(StepStarts)) # t
            /\ EventTimer(playNo, Len(EventTimes)) # t
        BY <2>9 DEF StepTimer, EventTimer
      <4> QED
        BY <2>5, <3>2, <4>1
    <3>4. player' = [player EXCEPT !.status = "complete"]
      BY <2>1, <2>9 DEF Fired
    <3>5. /\ player' \in Players /\ player'.status = "complete" /\ player'.step = player.step
          /\ player'.emitted = player.emitted
      BY <1>a, <3>4 DEF Players
    <3> QED
      BY <1>a, <2>1, <3>1, <3>3, <3>5
         DEF ReplayInv, ReplayTypes, OneReplayAtATime, LastTimersLast, CompletesWithEverything
  <2> QED
    BY <2>3, <2>7, <2>8, <2>9, TimerKinds
<1>10. CASE UNCHANGED replayVars
  BY <1>10 DEF replayVars, ReplayInv, ReplayTypes, OneReplayAtATime, LastTimersLast,
               CompletesWithEverything
<1> QED
  BY <1>1, <1>2, <1>3, <1>4, <1>5, <1>6, <1>7, <1>8, <1>9, <1>10 DEF ReplayNext

-----------------------------------------------------------------------------
(* The reveal and its clock.                                               *)

Clocks == [ref : Nat, state : Nat, shown : Nat, prev : Nat \union {NoTimestamp}]
Narrations(beat) == [beat : {beat}, completed : BOOLEAN, calls : {0, 1}]

RevealTypes ==
  /\ bake \in [open : BOOLEAN, playing : BOOLEAN]
  /\ clock \in Clocks /\ effects \in BOOLEAN
  /\ passed \in [now : Nat, played : Nat]
  /\ narrated \in Narrations(narrated.beat)

\* While the modal is open the last timestamp is the present, or there is none; and there is
\* none in a pause.
TimestampIsNow ==
  bake.open /\ clock.prev # NoTimestamp => bake.playing /\ clock.prev = passed.now

\* onComplete was called only if completedRef says so.
CallsAreRemembered == narrated.calls = 1 => narrated.completed

RevealInv == /\ RevealTypes /\ TimestampIsNow /\ CallsAreRemembered
             /\ PausedTimeNotCounted /\ BeatToldIsShown

LEMMA WhatIsTold ==
  ASSUME NEW was, was \in Narrations(was.beat), was.calls = 1 => was.completed, NEW at
  PROVE  /\ ToldAfter(was, at) \in Narrations(ToldAfter(was, at).beat)
         /\ ToldAfter(was, at).beat = ActiveBeat(at)
         /\ ToldAfter(was, at).calls = 1 => ToldAfter(was, at).completed
<1> DEFINE beat == IF BeatChanged(was.beat, ActiveBeat(at)) THEN ActiveBeat(at) ELSE was.beat
           done == was.completed \/ CameraCompleted(at)
           calls == was.calls + IF Completes(was, at) THEN 1 ELSE 0
<1>1. ToldAfter(was, at) = [beat |-> beat, completed |-> done, calls |-> calls]
  BY DEF ToldAfter
<1>2. beat = ActiveBeat(at)
  BY DEF BeatChanged
<1>3. done \in BOOLEAN
  OBVIOUS
<1>4. was.calls \in {0, 1} /\ was.completed \in BOOLEAN
  BY DEF Narrations
<1>5. calls \in {0, 1} /\ (calls = 1 => done)
  <2>1. CASE Completes(was, at)
    <3>1. ~was.completed /\ CameraCompleted(at)
      BY <2>1 DEF Completes
    <3>2. was.calls = 0
      BY <1>4, <3>1
    <3>3. calls = 1
      BY <2>1, <3>2
    <3> QED
      BY <3>1, <3>3
  <2>2. CASE ~Completes(was, at)
    <3>1. calls = was.calls
      BY <1>4, <2>2
    <3> QED
      BY <1>4, <3>1
  <2> QED
    BY <2>1, <2>2
<1> HIDE DEF beat, done, calls
<1> QED
  BY <1>1, <1>2, <1>3, <1>5 DEF Narrations

LEMMA RestTyped == Rest \in Clocks
  BY DEF Rest, Clocks

LEMMA RevealInvInit == RevealInit => RevealInv
<1> SUFFICES ASSUME RevealInit PROVE RevealInv
  OBVIOUS
<1>1. /\ bake = [open |-> FALSE, playing |-> TRUE] /\ clock = Rest /\ effects = FALSE
      /\ passed = [now |-> 0, played |-> 0]
      /\ narrated = [beat |-> NoBeat, completed |-> FALSE, calls |-> 0]
  BY DEF RevealInit
<1>2. narrated \in Narrations(narrated.beat)
  BY <1>1 DEF Narrations
<1>3. RevealTypes
  BY <1>1, <1>2, RestTyped DEF RevealTypes
<1>4. TimestampIsNow /\ CallsAreRemembered /\ BeatToldIsShown
  BY <1>1 DEF TimestampIsNow, CallsAreRemembered, BeatToldIsShown
<1>5. PausedTimeNotCounted
  BY <1>1 DEF PausedTimeNotCounted, Rest
<1> QED
  BY <1>3, <1>4, <1>5 DEF RevealInv

LEMMA RevealInvStep == RevealInv /\ [RevealNext]_revealVars => RevealInv'
<1> SUFFICES ASSUME RevealInv, [RevealNext]_revealVars PROVE RevealInv'
  OBVIOUS
<1>a. /\ clock \in Clocks /\ passed \in [now : Nat, played : Nat]
      /\ clock.ref \in Nat /\ clock.state \in Nat /\ clock.shown \in Nat
      /\ clock.prev \in Nat \union {NoTimestamp}
      /\ passed.now \in Nat /\ passed.played \in Nat
  BY DEF RevealInv, RevealTypes, Clocks
<1>b. /\ clock.ref <= passed.played /\ clock.state <= passed.played
      /\ clock.shown <= passed.played
  BY DEF RevealInv, PausedTimeNotCounted
<1>c. /\ narrated \in Narrations(narrated.beat) /\ (narrated.calls = 1 => narrated.completed)
  BY DEF RevealInv, RevealTypes, CallsAreRemembered
<1>d. bake \in [open : BOOLEAN, playing : BOOLEAN] /\ effects \in BOOLEAN
  BY DEF RevealInv, RevealTypes
<1>e. /\ Flushed(clock) \in Clocks /\ Flushed(clock).ref = clock.shown
      /\ Flushed(clock).state = clock.state /\ Flushed(clock).shown = clock.shown
      /\ Flushed(clock).prev = clock.prev
  BY <1>a DEF Flushed, Clocks
<1>f. /\ ToldAfter(narrated, clock.shown) \in Narrations(ToldAfter(narrated, clock.shown).beat)
      /\ ToldAfter(narrated, clock.shown).beat = ActiveBeat(clock.shown)
      /\ ToldAfter(narrated, clock.shown).calls = 1 => ToldAfter(narrated, clock.shown).completed
  BY <1>c, WhatIsTold
<1>1. CASE OpenBake
  <2>1. /\ bake' = [bake EXCEPT !.open = TRUE] /\ clock' = Rest /\ effects' = FALSE
        /\ passed' = [passed EXCEPT !.played = 0]
    BY <1>1 DEF OpenBake
  <2> DEFINE fresh == [beat |-> NoBeat, completed |-> FALSE, calls |-> 0]
  <2>2. narrated' = ToldAfter(fresh, 0)
    BY <1>1 DEF OpenBake
  <2>3. fresh \in Narrations(fresh.beat) /\ fresh.calls = 0
    BY DEF Narrations
  <2> HIDE DEF fresh
  <2>4. /\ narrated' \in Narrations(narrated'.beat) /\ narrated'.beat = ActiveBeat(0)
        /\ narrated'.calls = 1 => narrated'.completed
    BY <2>2, <2>3, WhatIsTold
  <2>5. passed' \in [now : Nat, played : Nat] /\ passed'.played = 0
    BY <1>a, <2>1
  <2>6. clock'.ref = 0 /\ clock'.state = 0 /\ clock'.shown = 0 /\ clock'.prev = NoTimestamp
    BY <2>1 DEF Rest
  <2>7. bake' \in [open : BOOLEAN, playing : BOOLEAN]
    BY <1>d, <2>1
  <2>8. RevealTypes'
    BY <2>1, <2>4, <2>5, <2>7, RestTyped DEF RevealTypes
  <2>9. TimestampIsNow' /\ CallsAreRemembered' /\ BeatToldIsShown'
    BY <2>4, <2>6 DEF TimestampIsNow, CallsAreRemembered, BeatToldIsShown
  <2>10. PausedTimeNotCounted'
    BY <2>5, <2>6 DEF PausedTimeNotCounted
  <2> QED
    BY <2>8, <2>9, <2>10 DEF RevealInv
<1>2. CASE CloseBake
  <2>1. /\ bake' = [bake EXCEPT !.open = FALSE] /\ effects' = FALSE
        /\ UNCHANGED <<clock, narrated, passed>>
    BY <1>2 DEF CloseBake
  <2>2. bake' \in [open : BOOLEAN, playing : BOOLEAN] /\ bake'.open = FALSE
    BY <1>d, <2>1
  <2>3. RevealTypes'
    BY <1>a, <1>c, <2>1, <2>2 DEF RevealTypes
  <2> QED
    BY <1>b, <1>c, <2>1, <2>2, <2>3
       DEF RevealInv, TimestampIsNow, CallsAreRemembered, PausedTimeNotCounted, BeatToldIsShown
<1>3. CASE Commit
  <2> DEFINE before == IF effects THEN Flushed(clock) ELSE clock
  <2>1. /\ clock' = [before EXCEPT !.shown = clock.state] /\ effects' = TRUE
        /\ UNCHANGED <<bake, passed>>
        /\ \/ narrated' = ToldAfter(narrated, clock.shown)
           \/ narrated' = narrated
    BY <1>3 DEF Commit
  <2>2. /\ before \in Clocks /\ before.ref <= passed.played /\ before.state = clock.state
        /\ before.prev = clock.prev
    BY <1>a, <1>b, <1>e
  <2> HIDE DEF before
  <2>3. /\ clock' \in Clocks /\ clock'.ref = before.ref /\ clock'.state = clock.state
        /\ clock'.shown = clock.state /\ clock'.prev = clock.prev
    BY <1>a, <2>1, <2>2 DEF Clocks
  <2>4. /\ narrated' \in Narrations(narrated'.beat) /\ (narrated'.calls = 1 => narrated'.completed)
    BY <1>c, <1>f, <2>1
  <2>5. RevealTypes'
    BY <1>a, <1>d, <2>1, <2>3, <2>4 DEF RevealTypes
  <2>6. TimestampIsNow'
    BY <2>1, <2>3 DEF RevealInv, TimestampIsNow
  <2>7. PausedTimeNotCounted'
    BY <1>b, <2>1, <2>2, <2>3 DEF PausedTimeNotCounted
  <2> QED
    BY <2>1, <2>4, <2>5, <2>6, <2>7 DEF RevealInv, CallsAreRemembered, BeatToldIsShown
<1>4. CASE EffectsRun
  <2>1. /\ clock' = Flushed(clock) /\ narrated' = ToldAfter(narrated, clock.shown)
        /\ effects' = FALSE /\ UNCHANGED <<bake, passed>>
    BY <1>4 DEF EffectsRun
  <2>2. RevealTypes'
    BY <1>a, <1>d, <1>e, <1>f, <2>1 DEF RevealTypes
  <2>3. TimestampIsNow'
    BY <1>e, <2>1 DEF RevealInv, TimestampIsNow
  <2>4. PausedTimeNotCounted'
    BY <1>b, <1>e, <2>1 DEF PausedTimeNotCounted
  <2>5. CallsAreRemembered' /\ BeatToldIsShown'
    BY <1>e, <1>f, <2>1 DEF CallsAreRemembered, BeatToldIsShown
  <2> QED
    BY <2>2, <2>3, <2>4, <2>5 DEF RevealInv
<1>5. CASE TogglePlay
  <2> DEFINE before == IF effects THEN Flushed(clock) ELSE clock
             moved == IF before.state # before.shown THEN before.state ELSE before.ref
             after == [before EXCEPT !.shown = before.state, !.ref = moved]
             heard == IF effects THEN ToldAfter(narrated, clock.shown) ELSE narrated
  <2>1. /\ clock' = [after EXCEPT !.prev = NoTimestamp]
        /\ narrated' = ToldAfter(heard, clock.state)
        /\ effects' = FALSE /\ bake' = [bake EXCEPT !.playing = ~bake.playing]
        /\ UNCHANGED passed
    BY <1>5 DEF TogglePlay, LosesTimestamp
  <2>2. /\ before \in Clocks /\ before.ref <= passed.played /\ before.state = clock.state
    BY <1>a, <1>b, <1>e
  <2>3. heard \in Narrations(heard.beat) /\ (heard.calls = 1 => heard.completed)
    BY <1>c, <1>f
  <2> HIDE DEF before, heard
  <2>4. moved \in Nat /\ moved <= passed.played
    BY <1>b, <2>2 DEF Clocks
  <2> HIDE DEF moved
  <2>5. /\ after \in Clocks /\ after.ref = moved /\ after.state = clock.state
        /\ after.shown = clock.state
    BY <2>2, <2>4 DEF Clocks
  <2> HIDE DEF after
  <2>6. /\ clock' \in Clocks /\ clock'.ref = moved /\ clock'.state = clock.state
        /\ clock'.shown = clock.state /\ clock'.prev = NoTimestamp
    BY <2>1, <2>5 DEF Clocks
  <2>7. /\ narrated' \in Narrations(narrated'.beat) /\ (narrated'.calls = 1 => narrated'.completed)
        /\ narrated'.beat = ActiveBeat(clock.state)
    BY <2>1, <2>3, WhatIsTold
  <2>8. bake' \in [open : BOOLEAN, playing : BOOLEAN]
    BY <1>d, <2>1
  <2>9. RevealTypes'
    BY <1>a, <2>1, <2>6, <2>7, <2>8 DEF RevealTypes
  <2>10. PausedTimeNotCounted'
    BY <1>b, <2>1, <2>4, <2>6 DEF PausedTimeNotCounted
  <2> QED
    BY <2>6, <2>7, <2>9, <2>10 DEF RevealInv, TimestampIsNow, CallsAreRemembered, BeatToldIsShown
<1>6. ASSUME NEW delta \in DELTAS, Frame(delta) PROVE RevealInv'
  <2> DEFINE now == passed.now + delta
             elapsed == Ticked(clock, now)
             state == IF elapsed = clock.ref THEN clock.state ELSE elapsed
             more == IF clock.prev = NoTimestamp THEN 0 ELSE delta
  <2>1. /\ bake.open /\ bake.playing
        /\ clock' = [clock EXCEPT !.prev = now, !.ref = elapsed, !.state = state]
        /\ passed' = [now |-> now, played |-> passed.played + more]
        /\ UNCHANGED <<bake, effects, narrated>>
    BY <1>6 DEF Frame
  <2>2. delta \in Nat /\ now \in Nat
    BY <1>a, RevealAssumption
  <2>3. more \in Nat /\ elapsed = clock.ref + more
    <3>1. CASE clock.prev = NoTimestamp
      BY <1>a, <3>1 DEF Ticked
    <3>2. CASE clock.prev # NoTimestamp
      <4>1. clock.prev = passed.now
        BY <2>1, <3>2 DEF RevealInv, TimestampIsNow
      <4> QED
        BY <1>a, <2>2, <3>2, <4>1 DEF Ticked
    <3> QED
      BY <3>1, <3>2
  <2> HIDE DEF now, elapsed, more
  <2>4. elapsed \in Nat /\ state \in Nat
    BY <1>a, <2>3
  <2>5. elapsed <= passed.played + more /\ state <= passed.played + more
    BY <1>a, <1>b, <2>3
  <2> HIDE DEF state
  <2>6. /\ clock' \in Clocks /\ clock'.ref = elapsed /\ clock'.state = state
        /\ clock'.shown = clock.shown /\ clock'.prev = now
    BY <1>a, <2>1, <2>2, <2>4 DEF Clocks
  <2>7. /\ passed' \in [now : Nat, played : Nat] /\ passed'.now = now
        /\ passed'.played = passed.played + more
    BY <1>a, <2>1, <2>2, <2>3
  <2>8. RevealTypes'
    BY <1>c, <1>d, <2>1, <2>6, <2>7 DEF RevealTypes
  <2>9. PausedTimeNotCounted'
    BY <1>a, <1>b, <2>3, <2>5, <2>6, <2>7 DEF PausedTimeNotCounted
  <2>10. TimestampIsNow'
    BY <2>1, <2>6, <2>7 DEF TimestampIsNow
  <2>11. CallsAreRemembered' /\ BeatToldIsShown'
    BY <2>1, <2>6 DEF RevealInv, CallsAreRemembered, BeatToldIsShown
  <2> QED
    BY <2>8, <2>9, <2>10, <2>11 DEF RevealInv
<1>7. ASSUME NEW delta \in DELTAS, TimePasses(delta) PROVE RevealInv'
  <2>1. /\ ~(bake.open /\ bake.playing) /\ passed' = [passed EXCEPT !.now = @ + delta]
        /\ UNCHANGED <<bake, clock, effects, narrated>>
    BY <1>7 DEF TimePasses
  <2>2. delta \in Nat
    BY RevealAssumption
  <2>3. passed' \in [now : Nat, played : Nat] /\ passed'.played = passed.played
    BY <1>a, <2>1, <2>2
  <2>4. RevealTypes'
    BY <1>a, <1>c, <1>d, <2>1, <2>3 DEF RevealTypes
  <2>5. PausedTimeNotCounted'
    BY <1>b, <2>1, <2>3 DEF PausedTimeNotCounted
  <2>6. TimestampIsNow' /\ CallsAreRemembered' /\ BeatToldIsShown'
    BY <2>1 DEF RevealInv, TimestampIsNow, CallsAreRemembered, BeatToldIsShown
  <2> QED
    BY <2>4, <2>5, <2>6 DEF RevealInv
<1>8. CASE UNCHANGED revealVars
  BY <1>8 DEF revealVars, RevealInv, RevealTypes, TimestampIsNow, CallsAreRemembered,
              PausedTimeNotCounted, BeatToldIsShown
<1> QED
  BY <1>1, <1>2, <1>3, <1>4, <1>5, <1>6, <1>7, <1>8 DEF RevealNext

-----------------------------------------------------------------------------
(* The tower and its rebuilds.                                             *)

Towers(floors, world) ==
  [mount : {"not", "importing", "initialising", "building", "done"}, pixi : BOOLEAN,
   root : BOOLEAN, heard : BOOLEAN, floors : {floors}, world : {world}]
Rebuilds == [world : TowerWorlds, latest : BOOLEAN, ofMount : BOOLEAN]

TowerTypes ==
  /\ tower \in Towers(tower.floors, tower.world) /\ tower.world \in TowerWorlds
  /\ rebuilds \in Seq(Rebuilds) /\ \E S : scene \in Seq(S)
  /\ built \in BOOLEAN

\* Before the renderer is ready there is no scene root and nothing is being built; a scene
\* root without the module is one nothing was ever drawn in.
NothingBeforeTheRoot ==
  /\ tower.mount \in {"not", "importing", "initialising"} =>
       ~tower.root /\ rebuilds = <<>> /\ ~built
  /\ tower.root /\ ~tower.pixi => rebuilds = <<>>
  /\ built => Drawable(tower)

\* As long as something can be drawn, the rebuild begun last is one of the present world.
LatestIsOfTheWorld ==
  tower.root => \A k \in DOMAIN rebuilds : rebuilds[k].latest => rebuilds[k].world = tower.world

TowerInv == TowerTypes /\ NothingBeforeTheRoot /\ LatestIsOfTheWorld /\ EveryFloorIsDrawn

\* What is left of a sequence is what it held.
LEMMA StillThere ==
  ASSUME NEW S, NEW s \in Seq(S), NEW k \in DOMAIN s
  PROVE  /\ RemoveAt(s, k) \in Seq(S)
         /\ \A j \in DOMAIN RemoveAt(s, k) : \E i \in DOMAIN s : RemoveAt(s, k)[j] = s[i]
<1>1. k \in 1..Len(s) /\ Len(s) \in Nat
  OBVIOUS
<1> DEFINE a == SubSeq(s, 1, k - 1)
           b == SubSeq(s, k + 1, Len(s))
<1>2. RemoveAt(s, k) = a \o b
  BY DEF RemoveAt
<1>3. a \in Seq(S) /\ Len(a) = k - 1 /\ \A j \in 1..(k - 1) : a[j] = s[j]
  BY <1>1
<1>4. b \in Seq(S) /\ Len(b) = Len(s) - k /\ \A j \in 1..(Len(s) - k) : b[j] = s[j + k]
  BY <1>1
<1> HIDE DEF a, b
<1>5. a \o b \in Seq(S) /\ Len(a \o b) = Len(s) - 1
  BY <1>1, <1>3, <1>4
<1>6. ASSUME NEW j \in 1..(Len(s) - 1) PROVE \E i \in DOMAIN s : (a \o b)[j] = s[i]
  <2>1. CASE j \in 1..(k - 1)
    BY <1>1, <1>3, <1>4, <2>1
  <2>2. CASE j \in k..(Len(s) - 1)
    <3> DEFINE m == j - (k - 1)
    <3>1. m \in 1..(Len(s) - k) /\ m + k = j + 1 /\ j + 1 \in 1..Len(s)
      BY <1>1, <2>2
    <3>2. (a \o b)[j] = b[m]
      <4>1. Len(a) = k - 1 /\ Len(b) = Len(s) - k
        BY <1>3, <1>4
      <4>2. j \in 1..(Len(a) + Len(b)) /\ ~(j <= Len(a)) /\ j - Len(a) = m
        BY <1>1, <2>2, <4>1
      <4>3. \A i \in 1..(Len(a) + Len(b)) :
              (a \o b)[i] = IF i <= Len(a) THEN a[i] ELSE b[i - Len(a)]
        BY <1>3, <1>4, ConcatProperties, Zenon
      <4> QED
        BY <4>2, <4>3
    <3> HIDE DEF m
    <3>3. b[m] = s[m + k]
      BY <1>4, <3>1
    <3>4. b[m] = s[j + 1] /\ j + 1 \in DOMAIN s
      BY <3>1, <3>3
    <3> QED
      BY <3>2, <3>4
  <2>3. j \in 1..(k - 1) \/ j \in k..(Len(s) - 1)
    BY <1>1
  <2> QED
    BY <2>1, <2>2, <2>3
<1> DEFINE c == a \o b
<1>7. c \in Seq(S) /\ DOMAIN c = 1..(Len(s) - 1)
  <2> HIDE DEF c
  <2>1. c \in Seq(S) /\ Len(c) = Len(s) - 1
    BY <1>5 DEF c
  <2> QED
    BY <2>1
<1> QED
  BY <1>2, <1>6, <1>7

LEMMA TowerInvInit == TowerInit => TowerInv
<1> SUFFICES ASSUME TowerInit PROVE TowerInv
  OBVIOUS
<1>1. /\ tower \in [mount : {"not"}, pixi : {FALSE}, root : {FALSE}, heard : {FALSE},
                    floors : {<<>>}, world : TowerWorlds]
      /\ scene = <<>> /\ rebuilds = <<>> /\ built = FALSE
  BY DEF TowerInit
<1>2. tower \in Towers(tower.floors, tower.world) /\ tower.world \in TowerWorlds
  BY <1>1 DEF Towers
<1>3. rebuilds \in Seq(Rebuilds) /\ scene \in Seq({})
  BY <1>1
<1> QED
  BY <1>1, <1>2, <1>3
     DEF TowerInv, TowerTypes, NothingBeforeTheRoot, LatestIsOfTheWorld, EveryFloorIsDrawn

\* The states a rebuild is asked for in: the present one but for its floors or its world, or
\* that of a renderer that has just become ready.
Rebuildable(now) ==
  /\ now \in Towers(now.floors, now.world) /\ now.world \in TowerWorlds
  /\ now.mount \in {"building", "done"} \/ (now.mount = tower.mount /\ now.root = tower.root)
  /\ now.root /\ ~now.pixi => rebuilds = <<>>
  /\ (now.root = tower.root /\ now.pixi = tower.pixi) \/ (rebuilds = <<>> /\ ~built)

Rebuilding(now) == tower' = now /\ (Begun(now, TRUE) \/ Begun(now, FALSE))

\* A rebuild that begins empties the scene and is the one of the present world.
LEMMA BeginningKeepsInv ==
  ASSUME TowerInv, NEW now, Rebuildable(now), Rebuilding(now)
  PROVE  TowerInv'
<1> tower' = now
  BY DEF Rebuilding
<1> PICK ofMount \in BOOLEAN : Begun(now, ofMount)
  BY DEF Rebuilding
<1>0. /\ now \in Towers(now.floors, now.world) /\ now.world \in TowerWorlds
      /\ now.root /\ ~now.pixi => rebuilds = <<>>
      /\ (now.root = tower.root /\ now.pixi = tower.pixi) \/ (rebuilds = <<>> /\ ~built)
  BY DEF Rebuildable
<1>1. /\ rebuilds \in Seq(Rebuilds) /\ built \in BOOLEAN /\ \E S : scene \in Seq(S)
      /\ built => Drawable(tower)
      /\ tower.mount \in {"not", "importing", "initialising"} =>
           ~tower.root /\ rebuilds = <<>> /\ ~built
  BY DEF TowerInv, TowerTypes, NothingBeforeTheRoot
<1>2. /\ now.pixi \in BOOLEAN /\ now.root \in BOOLEAN
      /\ now.mount \in {"not", "importing", "initialising", "building", "done"}
  BY <1>0 DEF Towers
<1>3. now.mount \in {"building", "done"} \/ (now.mount = tower.mount /\ now.root = tower.root)
  BY DEF Rebuildable
<1>4. CASE Drawable(now)
  <2> DEFINE r == [world |-> now.world, latest |-> TRUE, ofMount |-> ofMount]
             old == [k \in DOMAIN rebuilds |-> Superseded(rebuilds[k])]
  <2>1. scene' = <<>> /\ built' = FALSE /\ rebuilds' = Append(old, r)
    BY <1>4 DEF Begun
  <2>2. r \in Rebuilds /\ r.world = now.world
    BY <1>0 DEF Rebuilds
  <2>3. /\ old \in Seq(Rebuilds) /\ DOMAIN old = 1..Len(rebuilds)
        /\ \A k \in DOMAIN old : old[k].latest = FALSE
    <3>1. \A k \in 1..Len(rebuilds) : /\ Superseded(rebuilds[k]) \in Rebuilds
                                      /\ Superseded(rebuilds[k]).latest = FALSE
      <4> SUFFICES ASSUME NEW k \in 1..Len(rebuilds)
                   PROVE  /\ Superseded(rebuilds[k]) \in Rebuilds
                          /\ Superseded(rebuilds[k]).latest = FALSE
        OBVIOUS
      <4>1. rebuilds[k] \in Rebuilds
        BY <1>1
      <4> QED
        BY <4>1 DEF Superseded, Rebuilds
    <3>2. Len(rebuilds) \in Nat /\ DOMAIN rebuilds = 1..Len(rebuilds)
      BY <1>1
    <3>3. old \in [1..Len(rebuilds) -> Rebuilds]
      BY <3>1, <3>2
    <3>4. old \in Seq(Rebuilds) /\ DOMAIN old = 1..Len(rebuilds)
      BY <3>2, <3>3
    <3> QED
      BY <3>1, <3>2, <3>4
  <2> HIDE DEF r, old
  <2>4. /\ rebuilds' \in Seq(Rebuilds)
        /\ \A k \in DOMAIN rebuilds' : rebuilds'[k].latest => rebuilds'[k].world = now.world
    <3>1. rebuilds' \in Seq(Rebuilds) /\ Len(rebuilds') = Len(old) + 1
      BY <2>1, <2>2, <2>3
    <3>2. ASSUME NEW k \in DOMAIN rebuilds', rebuilds'[k].latest
          PROVE  rebuilds'[k].world = now.world
      <4>1. rebuilds'[k] = r \/ (k \in DOMAIN old /\ rebuilds'[k] = old[k])
        BY <2>1, <2>2, <2>3, <3>1, <3>2
      <4> QED
        BY <2>2, <2>3, <3>2, <4>1
    <3> QED
      BY <3>1, <3>2
  <2>5. now.root = TRUE /\ now.pixi = TRUE
    BY <1>2, <1>4 DEF Drawable
  <2>6. now.mount \notin {"not", "importing", "initialising"}
    BY <1>1, <1>3, <2>5
  <2>7. scene' \in Seq({})
    BY <2>1
  <2>8. TowerTypes'
    BY <1>0, <2>1, <2>4, <2>7 DEF TowerTypes
  <2> QED
    BY <2>1, <2>4, <2>5, <2>6, <2>8
       DEF TowerInv, NothingBeforeTheRoot, LatestIsOfTheWorld, EveryFloorIsDrawn
<1>5. CASE ~Drawable(now)
  <2>1. UNCHANGED <<scene, rebuilds, built>>
    BY <1>5 DEF Begun
  <2>2. ~built
    BY <1>0, <1>1, <1>5 DEF Drawable
  <2>3. now.root => rebuilds = <<>>
    BY <1>0, <1>2, <1>5 DEF Drawable
  <2>4. LatestIsOfTheWorld'
    BY <2>1, <2>3 DEF LatestIsOfTheWorld
  <2>5. TowerTypes'
    BY <1>0, <1>1, <2>1 DEF TowerTypes
  <2>6. NothingBeforeTheRoot'
    BY <1>1, <1>3, <2>1, <2>2, <2>3 DEF NothingBeforeTheRoot
  <2> QED
    BY <2>1, <2>2, <2>4, <2>5, <2>6 DEF TowerInv, EveryFloorIsDrawn
<1> QED
  BY <1>4, <1>5

LEMMA TowerInvStep == TowerInv /\ [TowerNext]_towerVars => TowerInv'
<1> SUFFICES ASSUME TowerInv, [TowerNext]_towerVars PROVE TowerInv'
  OBVIOUS
<1>a. /\ tower \in Towers(tower.floors, tower.world) /\ tower.world \in TowerWorlds
      /\ rebuilds \in Seq(Rebuilds) /\ \E S : scene \in Seq(S)
      /\ built \in BOOLEAN
  BY DEF TowerInv, TowerTypes
<1>b. /\ tower.mount \in {"not", "importing", "initialising"} =>
           ~tower.root /\ rebuilds = <<>> /\ ~built
      /\ tower.root /\ ~tower.pixi => rebuilds = <<>>
      /\ built => Drawable(tower)
  BY DEF TowerInv, NothingBeforeTheRoot
<1>1. CASE MountStarts
  <2>1. /\ tower.mount = "not" /\ tower' = [tower EXCEPT !.mount = "importing"]
        /\ UNCHANGED <<scene, rebuilds, built>>
    BY <1>1 DEF MountStarts
  <2>2. /\ tower' \in Towers(tower'.floors, tower'.world) /\ tower'.mount = "importing"
        /\ tower'.world = tower.world /\ tower'.root = tower.root
    BY <1>a, <2>1 DEF Towers
  <2>3. TowerTypes'
    BY <1>a, <2>1, <2>2 DEF TowerTypes
  <2> QED
    BY <1>b, <2>1, <2>2, <2>3
       DEF TowerInv, NothingBeforeTheRoot, LatestIsOfTheWorld, EveryFloorIsDrawn
<1>2. CASE ModuleImported
  <2>1. /\ tower.mount = "importing"
        /\ tower' = [tower EXCEPT !.mount = "initialising", !.pixi = TRUE]
        /\ UNCHANGED <<scene, rebuilds, built>>
    BY <1>2 DEF ModuleImported
  <2>2. /\ tower' \in Towers(tower'.floors, tower'.world) /\ tower'.mount = "initialising"
        /\ tower'.world = tower.world /\ tower'.root = tower.root
    BY <1>a, <2>1 DEF Towers
  <2>3. TowerTypes'
    BY <1>a, <2>1, <2>2 DEF TowerTypes
  <2> QED
    BY <1>b, <2>1, <2>2, <2>3
       DEF TowerInv, NothingBeforeTheRoot, LatestIsOfTheWorld, EveryFloorIsDrawn
<1>3. CASE RendererReady
  <2> DEFINE now == [tower EXCEPT !.root = TRUE, !.mount = IF tower.pixi THEN "building" ELSE "done",
                                  !.heard = ~tower.pixi]
  <2>1. tower.mount = "initialising" /\ tower' = now /\ Begun(now, TRUE)
    BY <1>3 DEF RendererReady
  <2>2. /\ now \in Towers(now.floors, now.world) /\ now.world = tower.world
        /\ now.mount \in {"building", "done"}
    BY <1>a DEF Towers
  <2> HIDE DEF now
  <2>3. now.root /\ ~now.pixi => rebuilds = <<>>
    BY <1>b, <2>1
  <2>4. rebuilds = <<>> /\ ~built
    BY <1>b, <2>1
  <2>5. now.world \in TowerWorlds
    BY <1>a, <2>2
  <2> QED
    <3>1. Rebuildable(now)
      BY <2>2, <2>3, <2>4, <2>5 DEF Rebuildable
    <3>2. Rebuilding(now)
      BY <2>1 DEF Rebuilding
    <3> QED
      BY <3>1, <3>2, BeginningKeepsInv
<1>4. CASE Unmount
  <2>1. /\ tower.mount # "not"
        /\ tower' = [tower EXCEPT !.pixi = FALSE, !.root = FALSE, !.heard = FALSE]
        /\ scene' = <<>> /\ built' = FALSE /\ rebuilds' = rebuilds
    BY <1>4 DEF Unmount
  <2>2. /\ tower' \in Towers(tower'.floors, tower'.world) /\ tower'.root = FALSE
        /\ tower'.world = tower.world /\ tower'.mount = tower.mount
    BY <1>a, <2>1 DEF Towers
  <2>3. scene' \in Seq({})
    BY <2>1
  <2>4. TowerTypes'
    BY <1>a, <2>1, <2>2, <2>3 DEF TowerTypes
  <2> QED
    BY <1>b, <2>1, <2>2, <2>4
       DEF TowerInv, NothingBeforeTheRoot, LatestIsOfTheWorld, EveryFloorIsDrawn
<1>5. ASSUME NEW k \in DOMAIN rebuilds, RebuildDraws(k) \/ RebuildFails(k) PROVE TowerInv'
  <2>1. rebuilds[k] \in Rebuilds /\ rebuilds # <<>>
    BY <1>a
  <2>2. /\ rebuilds' = RemoveAt(rebuilds, k) /\ rebuilds' \in Seq(Rebuilds)
        /\ \A j \in DOMAIN rebuilds' : \E i \in DOMAIN rebuilds : rebuilds'[j] = rebuilds[i]
    <3>1. rebuilds' = RemoveAt(rebuilds, k)
      BY <1>5 DEF RebuildDraws, RebuildFails
    <3> QED
      BY <1>a, <3>1, StillThere
  <2>3. /\ tower' \in Towers(tower'.floors, tower'.world) /\ tower'.world = tower.world
        /\ tower'.floors = tower.floors /\ tower'.root = tower.root /\ tower'.pixi = tower.pixi
        /\ tower'.mount \in {tower.mount, "done"}
    <3>1. PICK drawn \in BOOLEAN : tower' = MountEnds(rebuilds[k], drawn)
      BY <1>5 DEF RebuildDraws, RebuildFails
    <3>2. CASE rebuilds[k].ofMount
      <4>1. tower' = [tower EXCEPT !.mount = "done", !.heard = drawn]
        BY <3>1, <3>2 DEF MountEnds
      <4> QED
        BY <1>a, <4>1 DEF Towers
    <3>3. CASE ~rebuilds[k].ofMount
      BY <1>a, <3>1, <3>3 DEF MountEnds
    <3> QED
      BY <3>2, <3>3
  <2>4. tower.mount \notin {"not", "importing", "initialising"}
    BY <1>b, <2>1
  <2>5. LatestIsOfTheWorld'
    BY <2>2, <2>3 DEF TowerInv, LatestIsOfTheWorld
  <2>6. CASE RebuildFails(k)
    <3>1. UNCHANGED <<scene, built>>
      BY <2>6 DEF RebuildFails
    <3>2. TowerTypes'
      BY <1>a, <2>2, <2>3, <3>1 DEF TowerTypes
    <3>3. NothingBeforeTheRoot'
      BY <1>b, <2>1, <2>3, <2>4, <3>1 DEF NothingBeforeTheRoot, Drawable
    <3> QED
      BY <2>3, <2>5, <3>1, <3>2, <3>3 DEF TowerInv, EveryFloorIsDrawn
  <2>7. CASE RebuildDraws(k)
    <3>1. /\ tower.root /\ scene' = Append(scene, Drawn(rebuilds[k]))
          /\ built' = (built \/ rebuilds[k].latest)
      BY <2>7 DEF RebuildDraws
    <3>2. PICK S : scene \in Seq(S)
      BY <1>a
    <3>3. /\ scene' \in Seq(S \union {Drawn(rebuilds[k])})
          /\ \A x \in ToSet(scene) : x \in ToSet(scene')
          /\ Drawn(rebuilds[k]) \in ToSet(scene')
      <4> DEFINE d == Drawn(rebuilds[k])
      <4> HIDE DEF d
      <4>1. scene' = Append(scene, d)
        BY <3>1 DEF d
      <4>2. scene \in Seq(S \union {d}) /\ d \in S \union {d}
        BY <3>2
      <4>3. /\ scene' \in Seq(S \union {d}) /\ Len(scene') = Len(scene) + 1
            /\ \A j \in 1..Len(scene) : scene'[j] = scene[j]
            /\ scene'[Len(scene) + 1] = d
        BY <4>1, <4>2
      <4>4. DOMAIN scene = 1..Len(scene) /\ DOMAIN scene' = 1..(Len(scene) + 1) /\ Len(scene) \in Nat
        BY <4>2, <4>3
      <4>5. \A x \in ToSet(scene) : x \in ToSet(scene')
        BY <4>3, <4>4 DEF ToSet
      <4>6. d \in ToSet(scene')
        BY <4>3, <4>4 DEF ToSet
      <4> QED
        BY <4>3, <4>5, <4>6 DEF d
    <3>4. built' \in BOOLEAN
      BY <1>a, <2>1, <3>1 DEF Rebuilds
    <3>5. TowerTypes'
      BY <1>a, <2>2, <2>3, <3>3, <3>4 DEF TowerTypes
    <3>6. tower.pixi
      BY <1>b, <2>1, <3>1
    <3>7. NothingBeforeTheRoot'
      BY <2>3, <2>4, <3>1, <3>6 DEF NothingBeforeTheRoot, Drawable
    <3>8. EveryFloorIsDrawn'
      <4>1. CASE rebuilds[k].latest
        <5>1. rebuilds[k].world = tower.world
          BY <3>1, <4>1 DEF TowerInv, LatestIsOfTheWorld
        <5>2. Drawn(rebuilds[k]) = [world |-> tower'.world, floors |-> TopFloors(tower'.floors)]
          BY <2>3, <5>1 DEF Drawn
        <5> QED
          BY <3>3, <5>2 DEF EveryFloorIsDrawn
      <4>2. CASE ~rebuilds[k].latest
        <5>1. built' => built
          BY <3>1, <4>2
        <5>2. built => [world |-> tower.world, floors |-> TopFloors(tower.floors)] \in ToSet(scene)
          BY DEF TowerInv, EveryFloorIsDrawn
        <5> QED
          BY <2>3, <3>3, <5>1, <5>2 DEF EveryFloorIsDrawn
      <4> QED
        BY <4>1, <4>2
    <3> QED
      BY <2>5, <3>5, <3>7, <3>8 DEF TowerInv
  <2> QED
    BY <1>5, <2>6, <2>7
<1>6. ASSUME NEW who \in Builders, AddFloor(who) \/ StepHeard(who) PROVE TowerInv'
  <2> DEFINE more == Append(tower.floors, who)
             now == [tower EXCEPT !.floors = more]
  <2>1. tower' = now /\ Begun(now, FALSE)
    BY <1>6 DEF AddFloor, StepHeard, Raised
  <2> HIDE DEF more
  <2>2. /\ now \in Towers(now.floors, now.world) /\ now.world = tower.world
        /\ now.root = tower.root /\ now.pixi = tower.pixi
        /\ now.mount = tower.mount
    BY <1>a DEF Towers
  <2> HIDE DEF now
  <2>3. now.root /\ ~now.pixi => rebuilds = <<>>
    BY <1>b, <2>2
  <2>4. now.world \in TowerWorlds
    BY <1>a, <2>2
  <2> QED
    <3>1. Rebuildable(now)
      BY <2>2, <2>3, <2>4 DEF Rebuildable
    <3>2. Rebuilding(now)
      BY <2>1 DEF Rebuilding
    <3> QED
      BY <3>1, <3>2, BeginningKeepsInv
<1>7. ASSUME NEW next \in TowerWorlds, SetWorld(next) PROVE TowerInv'
  <2> DEFINE now == [tower EXCEPT !.world = next]
  <2>1. tower' = now /\ Begun(now, FALSE)
    BY <1>7 DEF SetWorld
  <2>2. /\ now \in Towers(now.floors, now.world) /\ now.world = next
        /\ now.root = tower.root /\ now.pixi = tower.pixi
        /\ now.mount = tower.mount
    BY <1>a DEF Towers
  <2> HIDE DEF now
  <2>3. now.root /\ ~now.pixi => rebuilds = <<>>
    BY <1>b, <2>2
  <2> QED
    <3>1. Rebuildable(now)
      BY <2>2, <2>3 DEF Rebuildable
    <3>2. Rebuilding(now)
      BY <2>1 DEF Rebuilding
    <3> QED
      BY <3>1, <3>2, BeginningKeepsInv
<1>8. CASE UNCHANGED towerVars
  BY <1>8 DEF towerVars, TowerInv, TowerTypes, NothingBeforeTheRoot, LatestIsOfTheWorld,
              EveryFloorIsDrawn, Drawable, TopFloors
<1> QED
  BY <1>1, <1>2, <1>3, <1>4, <1>5, <1>6, <1>7, <1>8 DEF TowerNext

-----------------------------------------------------------------------------
\* The demonstrations play on one clock and end with everything shown: a player has the
\* timers of one click and completes after its last step and event, a reveal counts no pause,
\* completes once and has told the beat on screen, and a tower whose last rebuild has drawn
\* shows every floor in the present world (LumioReplay, BlueprintReveal,
\* ConstructionAnimation).
THEOREM DemonstrationsAgree ==
  ReplaySpec /\ RevealSpec /\ TowerSpec => []DemonstrationsAddUp
<1>1. ReplayInv => OneReplayAtATime /\ CompletesWithEverything
  BY DEF ReplayInv
<1>2. RevealInv => PausedTimeNotCounted /\ CompletedAtMostOnce /\ BeatToldIsShown
  BY DEF RevealInv, RevealTypes, Narrations, CompletedAtMostOnce
<1>3. TowerInv => EveryFloorIsDrawn
  BY DEF TowerInv
<1>4. ReplayInv /\ RevealInv /\ TowerInv => DemonstrationsAddUp
  BY <1>1, <1>2, <1>3 DEF DemonstrationsAddUp
<1>5. ReplaySpec => []ReplayInv
  BY ReplayInvInit, ReplayInvStep, PTL DEF ReplaySpec
<1>6. RevealSpec => []RevealInv
  BY RevealInvInit, RevealInvStep, PTL DEF RevealSpec
<1>7. TowerSpec => []TowerInv
  BY TowerInvInit, TowerInvStep, PTL DEF TowerSpec
<1> QED
  BY <1>4, <1>5, <1>6, <1>7, PTL

-----------------------------------------------------------------------------
(* The canvas of a run and its connections.                                *)

SourceRecords == [session : Endpoints, open : BOOLEAN, attempts : Nat, timers : Nat,
                  kept : BOOLEAN, disposed : BOOLEAN]
Canvases == [run : PipelineRuns, status : [Endpoints -> {"idle", "active", "completed", "failed"}],
             tool : [Endpoints -> BOOLEAN]]

Connections == {"idle", "connecting", "open", "reconnecting", "error", "closed"}

VizTypes ==
  /\ subscriber \in [life : {"new", "live", "disposed"}, url : BOOLEAN, conn : Connections]
  /\ wanted \subseteq Endpoints
  /\ sockets \in Seq({"connecting", "open", "closed"})
  /\ wsRetry \in [attempts : Nat, timers : Int, kept : BOOLEAN]
  /\ canvas \in Canvases /\ told \in [Endpoints -> PipelineRuns \union {"none"}]

\* Errors set timers until the attempts are used up; what is not pending any more has fired
\* or was cleared.
TimersSet(h) == IF h.attempts <= ATTEMPTS THEN h.attempts ELSE ATTEMPTS
TimersGone(h) == TimersSet(h) - h.timers

\* A handle's timers come from its errors, and a source that was closed but not disposed of
\* was closed by one of them.
AddsUp(h) ==
  /\ h.attempts <= REPEATS /\ h.timers <= TimersSet(h)
  /\ h.kept => h.timers > 0
  /\ ~h.open /\ ~h.disposed => TimersGone(h) > 0

\* The timers of a session that fired when their source was closed already, or were cleared.
LateTimers(srcs, s) ==
  {t \in (DOMAIN srcs) \X (2..REPEATS) :
     srcs[t[1]].session = s /\ t[2] <= TimersGone(srcs[t[1]])}
LiveOf(srcs, s) == {i \in DOMAIN srcs : srcs[i].session = s /\ srcs[i].open}
Registered(act, s) == IF act[s] # 0 THEN 1 ELSE 0

\* The source registered for a session is one of that session, and open.
RegisteredIsOpen(srcs, act) ==
  \A s \in Endpoints : act[s] # 0 =>
    act[s] \in DOMAIN srcs /\ srcs[act[s]].session = s /\ srcs[act[s]].open

\* Every open source is the registered one or was opened by such a timer.
OpenForAReason(srcs, act) ==
  \A s \in Endpoints :
    Cardinality(LiveOf(srcs, s)) <= Registered(act, s) + Cardinality(LateTimers(srcs, s))

Accounted(srcs, act) ==
  /\ srcs \in Seq(SourceRecords) /\ act \in [Endpoints -> Nat]
  /\ \A i \in DOMAIN srcs : AddsUp(srcs[i])
  /\ RegisteredIsOpen(srcs, act) /\ OpenForAReason(srcs, act)

VizInv == VizTypes /\ Accounted(sources, active) /\ CanvasShowsItsRun

LEMMA VizBounds ==
  /\ ATTEMPTS \in Nat \ {0} /\ REPEATS \in Nat \ {0} /\ IsFiniteSet(Endpoints)
  /\ OwnRun \in PipelineRuns
  BY VizAssumption

\* The counting behind one step of the event sources: a source more takes the place of the
\* registered one, of one that closes, or of a timer that comes late.
Explained(A, B, L, M, n, m) ==
  \/ B \subseteq A /\ n <= m
  \/ \E y \in A : B \subseteq A \ {y}
  \/ n = 0 /\ m = 1 /\ \E x : B \subseteq A \union {x}
  \/ m = 1 /\ \E x : \E y \in A : B \subseteq (A \ {y}) \union {x}
  \/ m = 1 /\ \E x : B \subseteq A \union {x} /\ \E p \in M : p \notin L

LEMMA CountsStayBelow ==
  ASSUME NEW A, NEW B, NEW L, NEW M, NEW n \in {0, 1}, NEW m \in {0, 1},
         IsFiniteSet(A), IsFiniteSet(M), L \subseteq M, Cardinality(A) <= n + Cardinality(L),
         Explained(A, B, L, M, n, m)
  PROVE  Cardinality(B) <= m + Cardinality(M)
<1>1. /\ IsFiniteSet(L) /\ Cardinality(L) \in Nat /\ Cardinality(M) \in Nat
      /\ Cardinality(A) \in Nat /\ Cardinality(L) <= Cardinality(M)
  BY FS_Subset, FS_CardinalityType
<1>2. ASSUME NEW C, NEW c \in Nat, IsFiniteSet(C), Cardinality(C) <= c, B \subseteq C
      PROVE  Cardinality(B) <= c /\ Cardinality(B) \in Nat
  <2>1. /\ IsFiniteSet(B) /\ Cardinality(B) \in Nat /\ Cardinality(C) \in Nat
        /\ Cardinality(B) <= Cardinality(C)
    BY <1>2, FS_Subset, FS_CardinalityType
  <2> QED
    BY <1>2, <2>1
<1>3. ASSUME NEW C, IsFiniteSet(C), NEW x
      PROVE  /\ IsFiniteSet(C \union {x}) /\ Cardinality(C) \in Nat
             /\ Cardinality(C \union {x}) \in Nat
             /\ Cardinality(C \union {x}) <= Cardinality(C) + 1
  <2>1. Cardinality(C) \in Nat
    BY <1>3, FS_CardinalityType
  <2>2. /\ IsFiniteSet(C \union {x})
        /\ Cardinality(C \union {x}) = IF x \in C THEN Cardinality(C) ELSE Cardinality(C) + 1
    BY <1>3, FS_AddElement
  <2> QED
    BY <2>1, <2>2
<1>4. ASSUME NEW y \in A
      PROVE  /\ IsFiniteSet(A \ {y}) /\ Cardinality(A \ {y}) \in Nat
             /\ Cardinality(A \ {y}) = Cardinality(A) - 1
  BY FS_RemoveElement, FS_CardinalityType
<1>5. CASE B \subseteq A /\ n <= m
  <2>1. Cardinality(B) <= Cardinality(A) /\ Cardinality(B) \in Nat
    BY <1>1, <1>2, <1>5
  <2> QED
    BY <1>1, <1>5, <2>1
<1>6. ASSUME NEW y \in A, B \subseteq A \ {y} PROVE Cardinality(B) <= m + Cardinality(M)
  <2>1. /\ IsFiniteSet(A \ {y}) /\ Cardinality(A \ {y}) \in Nat
        /\ Cardinality(A \ {y}) = Cardinality(A) - 1
    BY <1>4
  <2>2. Cardinality(B) <= Cardinality(A \ {y}) /\ Cardinality(B) \in Nat
    BY <1>2, <1>6, <2>1
  <2> QED
    BY <1>1, <2>1, <2>2
<1>7. ASSUME n = 0, m = 1, NEW x, B \subseteq A \union {x}
      PROVE  Cardinality(B) <= m + Cardinality(M)
  <2>1. /\ Cardinality(A \union {x}) <= Cardinality(A) + 1
        /\ Cardinality(A \union {x}) \in Nat /\ IsFiniteSet(A \union {x})
    BY <1>3
  <2>2. Cardinality(B) <= Cardinality(A \union {x}) /\ Cardinality(B) \in Nat
    BY <1>2, <1>7, <2>1
  <2> QED
    BY <1>1, <1>7, <2>1, <2>2
<1>8. ASSUME m = 1, NEW x, NEW y \in A, B \subseteq (A \ {y}) \union {x}
      PROVE  Cardinality(B) <= m + Cardinality(M)
  <2>0. /\ IsFiniteSet(A \ {y}) /\ Cardinality(A \ {y}) \in Nat
        /\ Cardinality(A \ {y}) = Cardinality(A) - 1
    BY <1>4
  <2>1. /\ Cardinality((A \ {y}) \union {x}) <= Cardinality(A \ {y}) + 1
        /\ Cardinality((A \ {y}) \union {x}) \in Nat /\ IsFiniteSet((A \ {y}) \union {x})
    BY <1>3, <1>4, <2>0
  <2>2. Cardinality(B) <= Cardinality((A \ {y}) \union {x}) /\ Cardinality(B) \in Nat
    BY <1>2, <1>8, <2>1
  <2> QED
    BY <1>1, <1>8, <2>0, <2>1, <2>2
<1>9. ASSUME m = 1, NEW x, B \subseteq A \union {x}, NEW p \in M, p \notin L
      PROVE  Cardinality(B) <= m + Cardinality(M)
  <2>1. /\ Cardinality(A \union {x}) <= Cardinality(A) + 1
        /\ Cardinality(A \union {x}) \in Nat /\ IsFiniteSet(A \union {x})
    BY <1>3
  <2>2. Cardinality(B) <= Cardinality(A \union {x}) /\ Cardinality(B) \in Nat
    BY <1>2, <1>9, <2>1
  <2>3. Cardinality(L \union {p}) = Cardinality(L) + 1
    BY <1>1, <1>9, FS_AddElement
  <2>4. L \union {p} \subseteq M
    BY <1>9
  <2>5. Cardinality(L \union {p}) <= Cardinality(M)
    BY <2>4, FS_Subset
  <2> QED
    BY <1>1, <1>9, <2>1, <2>2, <2>3, <2>5
<1> QED
  BY <1>5, <1>6, <1>7, <1>8, <1>9 DEF Explained

LEMMA TimersCounted ==
  ASSUME NEW h \in SourceRecords
  PROVE  TimersSet(h) \in Nat /\ TimersSet(h) <= h.attempts /\ TimersGone(h) \in Int
<1>1. h.attempts \in Nat /\ h.timers \in Nat
  BY DEF SourceRecords
<1> QED
  BY <1>1, VizBounds DEF TimersSet, TimersGone

LEMMA SourcesFinite ==
  ASSUME NEW srcs \in Seq(SourceRecords), NEW s
  PROVE  IsFiniteSet(LiveOf(srcs, s)) /\ IsFiniteSet(LateTimers(srcs, s))
<1>1. DOMAIN srcs = 1..Len(srcs) /\ Len(srcs) \in Nat
  OBVIOUS
<1>2. IsFiniteSet(DOMAIN srcs) /\ IsFiniteSet(2..REPEATS)
  BY <1>1, VizBounds, FS_Interval
<1>3. IsFiniteSet((DOMAIN srcs) \X (2..REPEATS))
  BY <1>2, FS_Product
<1> QED
  BY <1>2, <1>3, FS_Subset DEF LiveOf, LateTimers

\* Timers that come late only grow in number as long as no handle gets one back.
LEMMA LateTimersGrow ==
  ASSUME NEW old \in Seq(SourceRecords), NEW new \in Seq(SourceRecords), NEW s,
         Len(old) <= Len(new),
         \A i \in DOMAIN old : /\ old[i].session = new[i].session
                               /\ TimersGone(old[i]) <= TimersGone(new[i])
  PROVE  LateTimers(old, s) \subseteq LateTimers(new, s)
<1>1. \A i \in DOMAIN old : i \in DOMAIN new
  OBVIOUS
<1>2. \A i \in DOMAIN old : TimersGone(old[i]) \in Int /\ TimersGone(new[i]) \in Int
  <2> SUFFICES ASSUME NEW i \in DOMAIN old
               PROVE  TimersGone(old[i]) \in Int /\ TimersGone(new[i]) \in Int
    OBVIOUS
  <2>1. old[i] \in SourceRecords /\ new[i] \in SourceRecords
    BY <1>1
  <2> QED
    BY <2>1, TimersCounted
<1>3. ASSUME NEW i \in DOMAIN old, NEW k \in 2..REPEATS, old[i].session = s,
             k <= TimersGone(old[i])
      PROVE  i \in DOMAIN new /\ new[i].session = s /\ k <= TimersGone(new[i])
  BY <1>1, <1>2, <1>3, VizBounds
<1> QED
  BY <1>3 DEF LateTimers

LEMMA NewSourceAddsUp ==
  ASSUME NEW s \in Endpoints
  PROVE  /\ NewSource(s) \in SourceRecords /\ NewSource(s).session = s /\ NewSource(s).open
         /\ AddsUp(NewSource(s))
<1>1. /\ NewSource(s) \in SourceRecords /\ NewSource(s).session = s /\ NewSource(s).open = TRUE
      /\ NewSource(s).attempts = 0 /\ NewSource(s).timers = 0 /\ NewSource(s).kept = FALSE
  BY DEF NewSource, SourceRecords
<1>2. TimersSet(NewSource(s)) = 0
  BY <1>1, VizBounds DEF TimersSet
<1> QED
  BY <1>1, <1>2, VizBounds DEF AddsUp

LEMMA DroppedAddsUp ==
  ASSUME NEW h \in SourceRecords, AddsUp(h)
  PROVE  /\ Dropped(h) \in SourceRecords /\ Dropped(h).session = h.session
         /\ Dropped(h).open = FALSE /\ AddsUp(Dropped(h))
         /\ TimersGone(h) <= TimersGone(Dropped(h))
<1> DEFINE left == IF h.kept THEN h.timers - 1 ELSE h.timers
<1>1. left \in Nat /\ left <= h.timers
  BY DEF AddsUp, SourceRecords
<1>2. Dropped(h) = [h EXCEPT !.disposed = TRUE, !.open = FALSE, !.kept = FALSE, !.timers = left]
  BY DEF Dropped
<1> HIDE DEF left
<1>3. /\ Dropped(h) \in SourceRecords /\ Dropped(h).session = h.session
      /\ Dropped(h).open = FALSE /\ Dropped(h).disposed = TRUE /\ Dropped(h).kept = FALSE
      /\ Dropped(h).timers = left /\ Dropped(h).attempts = h.attempts
  BY <1>1, <1>2 DEF SourceRecords
<1>4. TimersSet(Dropped(h)) = TimersSet(h) /\ TimersSet(h) \in Nat /\ h.timers \in Nat
  BY <1>3, TimersCounted DEF TimersSet, SourceRecords
<1>5. TimersGone(h) <= TimersGone(Dropped(h))
  BY <1>1, <1>3, <1>4 DEF TimersGone
<1>6. AddsUp(Dropped(h))
  BY <1>1, <1>3, <1>4 DEF AddsUp
<1> QED
  BY <1>3, <1>5, <1>6

\* Of the timers of a handle one fires; if it is the one the handle knows, it forgets it.
LEMMA SpentAddsUp ==
  ASSUME NEW h \in SourceRecords, AddsUp(h), NEW last \in BOOLEAN,
         MayFire(h.timers, h.kept, last)
  PROVE  LET t == TimerSpent(h, last) IN
         /\ t \in SourceRecords /\ t.session = h.session /\ t.open = h.open
         /\ t.disposed = h.disposed /\ AddsUp(t) /\ TimersGone(t) = TimersGone(h) + 1
         /\ TimersGone(t) \in 1..REPEATS
<1> DEFINE kept == IF last THEN FALSE ELSE h.kept
           left == h.timers - 1
           t == [h EXCEPT !.timers = left, !.kept = kept]
<1>1. TimerSpent(h, last) = t
  BY Zenon DEF TimerSpent
<1>2. h.timers \in Nat /\ h.attempts \in Nat /\ h.kept \in BOOLEAN /\ h.timers > 0
  BY DEF SourceRecords, MayFire
<1>3. kept \in BOOLEAN /\ (kept => h.timers - 1 > 0)
  <2>1. CASE last
    BY <2>1
  <2>2. CASE ~last
    BY <1>2, <2>2 DEF MayFire
  <2> QED
    BY <2>1, <2>2
<1>a. left \in Nat /\ left = h.timers - 1
  BY <1>2
<1> HIDE DEF kept, left
<1>b. /\ t \in SourceRecords /\ t.session = h.session /\ t.open = h.open
      /\ t.disposed = h.disposed /\ t.timers = left /\ t.kept = kept
      /\ t.attempts = h.attempts
  BY <1>3, <1>a DEF SourceRecords
<1>4. /\ t \in SourceRecords /\ t.session = h.session /\ t.open = h.open
      /\ t.disposed = h.disposed /\ t.timers = h.timers - 1 /\ t.kept = kept
      /\ t.attempts = h.attempts
  BY <1>a, <1>b
<1> HIDE DEF t
<1>5. TimersSet(t) = TimersSet(h) /\ TimersSet(h) \in Nat /\ TimersSet(h) <= h.attempts
  BY <1>4, TimersCounted DEF TimersSet
<1>6. /\ h.attempts <= REPEATS /\ h.timers <= TimersSet(h)
      /\ ~h.open /\ ~h.disposed => TimersGone(h) > 0
  BY DEF AddsUp
<1>7. TimersGone(t) = TimersGone(h) + 1 /\ TimersGone(t) \in 1..REPEATS
  BY <1>2, <1>4, <1>5, <1>6, VizBounds DEF TimersGone
<1>8. t.attempts <= REPEATS /\ t.timers <= TimersSet(t) /\ TimersGone(t) > 0
  BY <1>2, <1>4, <1>5, <1>6, <1>7, VizBounds
<1>9. AddsUp(t)
  BY <1>3, <1>4, <1>8 DEF AddsUp
<1> QED
  BY <1>1, <1>4, <1>7, <1>9

LEMMA ErrorAddsUp ==
  ASSUME NEW h \in SourceRecords, AddsUp(h), h.open, h.attempts < REPEATS,
         NEW t, \/ h.attempts + 1 > ATTEMPTS /\ t = [h EXCEPT !.attempts = h.attempts + 1]
                \/ /\ h.attempts + 1 <= ATTEMPTS
                   /\ t = [h EXCEPT !.attempts = h.attempts + 1, !.timers = h.timers + 1,
                                    !.kept = TRUE]
  PROVE  /\ t \in SourceRecords /\ t.session = h.session /\ t.open = h.open /\ AddsUp(t)
         /\ TimersGone(h) <= TimersGone(t)
<1>1. h.timers \in Nat /\ h.attempts \in Nat
  BY DEF SourceRecords
<1>2. /\ h.timers <= TimersSet(h) /\ (h.kept => h.timers > 0)
  BY DEF AddsUp
<1>3. CASE h.attempts + 1 > ATTEMPTS /\ t = [h EXCEPT !.attempts = h.attempts + 1]
  <2>1. /\ t \in SourceRecords /\ t.session = h.session /\ t.open = h.open
        /\ t.kept = h.kept /\ t.timers = h.timers /\ t.attempts = h.attempts + 1
    <3> DEFINE tries == h.attempts + 1
    <3>1. tries \in Nat /\ t = [h EXCEPT !.attempts = tries]
      BY <1>1, <1>3
    <3> HIDE DEF tries
    <3>2. /\ t \in SourceRecords /\ t.session = h.session /\ t.open = h.open
          /\ t.kept = h.kept /\ t.timers = h.timers /\ t.attempts = tries
      BY <3>1 DEF SourceRecords
    <3> QED
      BY <3>2 DEF tries
  <2>2. TimersSet(t) = ATTEMPTS /\ TimersSet(h) = ATTEMPTS
    BY <1>1, <1>3, <2>1, VizBounds DEF TimersSet
  <2>3. TimersGone(h) <= TimersGone(t)
    BY <1>1, <2>1, <2>2, VizBounds DEF TimersGone
  <2>4. t.attempts <= REPEATS
    BY <1>1, <2>1, VizBounds
  <2>5. t.timers <= TimersSet(t)
    BY <1>2, <2>1, <2>2
  <2>6. t.kept => t.timers > 0
    BY <1>2, <2>1
  <2>7. AddsUp(t)
    BY <2>1, <2>4, <2>5, <2>6, Zenon DEF AddsUp
  <2> QED
    BY <2>1, <2>3, <2>7
<1>4. CASE /\ h.attempts + 1 <= ATTEMPTS
           /\ t = [h EXCEPT !.attempts = h.attempts + 1, !.timers = h.timers + 1, !.kept = TRUE]
  <2>1. /\ t \in SourceRecords /\ t.session = h.session /\ t.open = h.open
        /\ t.kept = TRUE /\ t.timers = h.timers + 1 /\ t.attempts = h.attempts + 1
    <3> DEFINE tries == h.attempts + 1
               more == h.timers + 1
    <3>1. /\ tries \in Nat /\ more \in Nat
          /\ t = [h EXCEPT !.attempts = tries, !.timers = more, !.kept = TRUE]
      BY <1>1, <1>4
    <3> HIDE DEF tries, more
    <3>2. /\ t \in SourceRecords /\ t.session = h.session /\ t.open = h.open
          /\ t.kept = TRUE /\ t.timers = more /\ t.attempts = tries
      BY <3>1 DEF SourceRecords
    <3> QED
      BY <3>2 DEF tries, more
  <2>2. TimersSet(t) = h.attempts + 1 /\ TimersSet(h) = h.attempts
    BY <1>1, <1>4, <2>1, VizBounds DEF TimersSet
  <2>3. TimersGone(h) <= TimersGone(t)
    BY <1>1, <2>1, <2>2 DEF TimersGone
  <2>4. t.attempts <= REPEATS /\ t.timers <= TimersSet(t) /\ t.timers > 0
    BY <1>1, <1>2, <2>1, <2>2, VizBounds
  <2>5. AddsUp(t)
    BY <2>1, <2>4, Zenon DEF AddsUp
  <2> QED
    BY <2>1, <2>3, <2>5
<1> QED
  BY <1>3, <1>4

\* One session after a step of the sources.
LEMMA OneSessionStaysBelow ==
  ASSUME NEW old, NEW act, Accounted(old, act), NEW new \in Seq(SourceRecords), NEW act2,
         NEW s \in Endpoints, LateTimers(old, s) \subseteq LateTimers(new, s),
         Explained(LiveOf(old, s), LiveOf(new, s), LateTimers(old, s), LateTimers(new, s),
                   Registered(act, s), Registered(act2, s))
  PROVE  Cardinality(LiveOf(new, s)) <= Registered(act2, s) + Cardinality(LateTimers(new, s))
<1>1. Cardinality(LiveOf(old, s)) <= Registered(act, s) + Cardinality(LateTimers(old, s))
  BY DEF Accounted, OpenForAReason
<1>2. IsFiniteSet(LiveOf(old, s)) /\ IsFiniteSet(LateTimers(new, s))
  BY SourcesFinite DEF Accounted
<1>3. Registered(act, s) \in {0, 1} /\ Registered(act2, s) \in {0, 1}
  BY DEF Registered
<1> QED
  BY <1>1, <1>2, <1>3, CountsStayBelow

\* Errors, and timers of a handle that was disposed of, leave every source as open as it was.
LEMMA InPlaceKeepsAccount ==
  ASSUME NEW old, NEW act, Accounted(old, act), NEW new \in Seq(SourceRecords), Len(new) = Len(old),
         \A i \in DOMAIN old : /\ new[i].session = old[i].session /\ new[i].open = old[i].open
                               /\ TimersGone(old[i]) <= TimersGone(new[i]) /\ AddsUp(new[i])
  PROVE  Accounted(new, act)
<1>1. /\ old \in Seq(SourceRecords) /\ DOMAIN new = DOMAIN old /\ act \in [Endpoints -> Nat]
  BY DEF Accounted
<1>2. RegisteredIsOpen(new, act)
  BY <1>1 DEF Accounted, RegisteredIsOpen
<1>3. ASSUME NEW s \in Endpoints
      PROVE  Cardinality(LiveOf(new, s)) <= Registered(act, s) + Cardinality(LateTimers(new, s))
  <2>1. LateTimers(old, s) \subseteq LateTimers(new, s)
    BY <1>1, LateTimersGrow
  <2>2. LiveOf(new, s) \subseteq LiveOf(old, s)
    BY <1>1 DEF LiveOf
  <2>3. Registered(act, s) <= Registered(act, s)
    BY DEF Registered
  <2> QED
    BY <2>1, <2>2, <2>3, OneSessionStaysBelow DEF Explained
<1> QED
  BY <1>1, <1>2, <1>3 DEF Accounted, OpenForAReason

\* Disposing of registered sources.
LEMMA DroppingKeepsAccount ==
  ASSUME NEW old, NEW act, Accounted(old, act), NEW D \in SUBSET Endpoints, \A s \in D : act[s] # 0,
         NEW new, new = [i \in DOMAIN old |-> IF \E s \in D : act[s] = i THEN Dropped(old[i]) ELSE old[i]],
         NEW act2, act2 = [s \in Endpoints |-> IF s \in D THEN 0 ELSE act[s]]
  PROVE  Accounted(new, act2) /\ Len(new) = Len(old)
<1>1. /\ old \in Seq(SourceRecords) /\ act \in [Endpoints -> Nat]
      /\ \A i \in DOMAIN old : AddsUp(old[i])
      /\ \A s \in Endpoints : act[s] # 0 =>
           act[s] \in DOMAIN old /\ old[act[s]].session = s /\ old[act[s]].open
  BY DEF Accounted, RegisteredIsOpen
<1>2. DOMAIN old = 1..Len(old) /\ Len(old) \in Nat
  BY <1>1
<1>3. \A i \in DOMAIN old : /\ new[i] \in SourceRecords /\ new[i].session = old[i].session
                            /\ TimersGone(old[i]) <= TimersGone(new[i]) /\ AddsUp(new[i])
                            /\ new[i].open => old[i].open
  <2> SUFFICES ASSUME NEW i \in DOMAIN old
               PROVE  /\ new[i] \in SourceRecords /\ new[i].session = old[i].session
                      /\ TimersGone(old[i]) <= TimersGone(new[i]) /\ AddsUp(new[i])
                      /\ new[i].open => old[i].open
    OBVIOUS
  <2>1. old[i] \in SourceRecords /\ AddsUp(old[i]) /\ TimersGone(old[i]) \in Int
    BY <1>1, TimersCounted
  <2>2. CASE \E s \in D : act[s] = i
    <3>1. new[i] = Dropped(old[i])
      BY <2>2
    <3> QED
      BY <2>1, <3>1, DroppedAddsUp
  <2>3. CASE ~\E s \in D : act[s] = i
    <3>1. new[i] = old[i]
      BY <2>3
    <3> QED
      BY <2>1, <3>1
  <2> QED
    BY <2>2, <2>3
<1>4. new \in Seq(SourceRecords) /\ Len(new) = Len(old)
  BY <1>2, <1>3
<1>5. act2 \in [Endpoints -> Nat]
  BY <1>1
<1>6. RegisteredIsOpen(new, act2)
  <2> SUFFICES ASSUME NEW s \in Endpoints, act2[s] # 0
               PROVE  act2[s] \in DOMAIN new /\ new[act2[s]].session = s /\ new[act2[s]].open
    BY DEF RegisteredIsOpen
  <2>1. s \notin D /\ act2[s] = act[s]
    BY <1>5
  <2>2. act[s] \in DOMAIN old /\ old[act[s]].session = s /\ old[act[s]].open
    BY <1>1, <2>1
  <2>3. ~\E z \in D : act[z] = act[s]
    BY <1>1, <2>1, <2>2
  <2>4. new[act[s]] = old[act[s]]
    BY <2>2, <2>3
  <2> QED
    BY <1>2, <1>4, <2>1, <2>2, <2>4
<1>7. ASSUME NEW s \in Endpoints
      PROVE  Cardinality(LiveOf(new, s)) <= Registered(act2, s) + Cardinality(LateTimers(new, s))
  <2>1. LateTimers(old, s) \subseteq LateTimers(new, s)
    <3>1. Len(old) <= Len(new)
      BY <1>2, <1>4
    <3>2. \A i \in DOMAIN old : /\ old[i].session = new[i].session
                                /\ TimersGone(old[i]) <= TimersGone(new[i])
      BY <1>3
    <3> QED
      BY <1>1, <1>4, <3>1, <3>2, LateTimersGrow
  <2>2. LiveOf(new, s) \subseteq LiveOf(old, s)
    BY <1>2, <1>3, <1>4 DEF LiveOf
  <2>3. CASE s \in D
    <3>1. act[s] \in LiveOf(old, s)
      BY <1>1, <2>3 DEF LiveOf
    <3>2. new[act[s]] = Dropped(old[act[s]])
      BY <1>1, <2>3
    <3>3. new[act[s]].open = FALSE
      <4>1. old[act[s]] \in SourceRecords /\ AddsUp(old[act[s]])
        BY <1>1, <2>3
      <4> QED
        BY <3>2, <4>1, DroppedAddsUp
    <3>4. act[s] \notin LiveOf(new, s)
      BY <3>3 DEF LiveOf
    <3>5. \E y \in LiveOf(old, s) : LiveOf(new, s) \subseteq LiveOf(old, s) \ {y}
      BY <2>2, <3>1, <3>4
    <3> QED
      BY <1>4, <2>1, <3>5, OneSessionStaysBelow DEF Explained
  <2>4. CASE s \notin D
    <3>1. Registered(act, s) <= Registered(act2, s)
      <4>1. act2[s] = act[s]
        BY <2>4
      <4> QED
        BY <4>1 DEF Registered
    <3> QED
      BY <1>4, <2>1, <2>2, <3>1, OneSessionStaysBelow DEF Explained
  <2> QED
    BY <2>3, <2>4
<1> QED
  BY <1>2, <1>3, <1>4, <1>5, <1>6, <1>7 DEF Accounted, OpenForAReason

\* The sessions order[1..n], none of which has a source registered, get one each.
OneEach(old, act, n, order, act2) ==
  /\ n \in Nat /\ order \in [1..n -> Endpoints] /\ act2 \in [Endpoints -> Nat]
  /\ \A j, k \in 1..n : order[j] = order[k] => j = k
  /\ \A k \in 1..n : act[order[k]] = 0 /\ act2[order[k]] = Len(old) + k
  /\ \A s \in Endpoints : (\A k \in 1..n : order[k] # s) => act2[s] = act[s]

Opened(old, n, order) == old \o [k \in 1..n |-> NewSource(order[k])]

\* Opening a source for each of n sessions that have none registered.
LEMMA OpeningKeepsAccount ==
  ASSUME NEW old, NEW act, Accounted(old, act), NEW n, NEW order, NEW act2,
         OneEach(old, act, n, order, act2),
         NEW new, new = Opened(old, n, order)
  PROVE  Accounted(new, act2) /\ Len(new) = Len(old) + n
<1>0. /\ n \in Nat /\ order \in [1..n -> Endpoints] /\ act2 \in [Endpoints -> Nat]
      /\ \A j, k \in 1..n : order[j] = order[k] => j = k
      /\ \A k \in 1..n : act[order[k]] = 0 /\ act2[order[k]] = Len(old) + k
      /\ \A s \in Endpoints : (\A k \in 1..n : order[k] # s) => act2[s] = act[s]
  BY DEF OneEach
<1>1. /\ old \in Seq(SourceRecords) /\ act \in [Endpoints -> Nat]
      /\ \A i \in DOMAIN old : AddsUp(old[i])
      /\ \A s \in Endpoints : act[s] # 0 =>
           act[s] \in DOMAIN old /\ old[act[s]].session = s /\ old[act[s]].open
  BY DEF Accounted, RegisteredIsOpen
<1>2. DOMAIN old = 1..Len(old) /\ Len(old) \in Nat
  BY <1>1
<1> DEFINE opened == [k \in 1..n |-> NewSource(order[k])]
<1>3. opened \in Seq(SourceRecords) /\ Len(opened) = n
  BY <1>0, NewSourceAddsUp
<1>4. \A k \in 1..n : opened[k] = NewSource(order[k])
  OBVIOUS
<1>b. new = old \o opened /\ old \in Seq(SourceRecords)
  BY <1>1 DEF Opened
<1> HIDE DEF opened
<1>c. /\ new \in Seq(SourceRecords) /\ Len(new) = Len(old) + n
      /\ \A i \in 1..(Len(old) + n) : new[i] = IF i <= Len(old) THEN old[i] ELSE opened[i - Len(old)]
  BY <1>3, <1>b, ConcatProperties
<1>d. \A k \in 1..n : new[Len(old) + k] = opened[k]
  <2> SUFFICES ASSUME NEW k \in 1..n PROVE new[Len(old) + k] = opened[k]
    OBVIOUS
  <2>1. Len(old) + k \in 1..(Len(old) + n) /\ ~(Len(old) + k <= Len(old)) /\ (Len(old) + k) - Len(old) = k
    BY <1>0, <1>2
  <2> QED
    BY <1>c, <2>1
<1>e. \A i \in DOMAIN old : new[i] = old[i]
  <2> SUFFICES ASSUME NEW i \in DOMAIN old PROVE new[i] = old[i]
    OBVIOUS
  <2>1. i \in 1..(Len(old) + n) /\ i <= Len(old)
    BY <1>0, <1>2
  <2> QED
    BY <1>c, <2>1
<1>5. /\ new \in Seq(SourceRecords) /\ Len(new) = Len(old) + n
      /\ \A i \in DOMAIN old : new[i] = old[i]
      /\ \A k \in 1..n : new[Len(old) + k] = opened[k]
  BY <1>c, <1>d, <1>e
<1>a. old \in Seq(SourceRecords) /\ new \in Seq(SourceRecords) /\ Len(old) <= Len(new)
  BY <1>0, <1>1, <1>2, <1>5
<1>6. DOMAIN new = 1..(Len(old) + n)
  BY <1>0, <1>5
<1>7. \A i \in DOMAIN new : i \in DOMAIN old \/ \E k \in 1..n : i = Len(old) + k
  <2> SUFFICES ASSUME NEW i \in DOMAIN new, i \notin DOMAIN old
               PROVE  \E k \in 1..n : i = Len(old) + k
    OBVIOUS
  <2>1. i - Len(old) \in 1..n /\ i = Len(old) + (i - Len(old))
    BY <1>0, <1>2, <1>6
  <2> QED
    BY <2>1
<1>8. \A i \in DOMAIN new : AddsUp(new[i])
  <2> SUFFICES ASSUME NEW i \in DOMAIN new PROVE AddsUp(new[i])
    OBVIOUS
  <2>1. CASE i \in DOMAIN old
    BY <1>1, <1>5, <2>1
  <2>2. ASSUME NEW k \in 1..n, i = Len(old) + k PROVE AddsUp(new[i])
    <3>1. new[i] = NewSource(order[k]) /\ order[k] \in Endpoints
      BY <1>0, <1>4, <1>5, <2>2
    <3> QED
      BY <3>1, NewSourceAddsUp
  <2> QED
    BY <1>7, <2>1, <2>2
<1>9. \A i \in DOMAIN old : i \in DOMAIN new
  BY <1>0, <1>2, <1>6
<1>10. RegisteredIsOpen(new, act2)
  <2> SUFFICES ASSUME NEW s \in Endpoints, act2[s] # 0
               PROVE  act2[s] \in DOMAIN new /\ new[act2[s]].session = s /\ new[act2[s]].open
    BY DEF RegisteredIsOpen
  <2>1. CASE \A k \in 1..n : order[k] # s
    <3>1. act2[s] = act[s]
      BY <1>0, <2>1
    <3> QED
      BY <1>1, <1>5, <1>9, <3>1
  <2>2. ASSUME NEW k \in 1..n, order[k] = s
        PROVE  act2[s] \in DOMAIN new /\ new[act2[s]].session = s /\ new[act2[s]].open
    <3>1. act2[s] = Len(old) + k /\ new[act2[s]] = NewSource(s)
      BY <1>0, <1>4, <1>5, <2>2
    <3>2. act2[s] \in DOMAIN new
      BY <1>0, <1>2, <1>6, <2>2, <3>1
    <3>3. NewSource(s).session = s /\ NewSource(s).open
      BY NewSourceAddsUp
    <3> QED
      BY <3>1, <3>2, <3>3, Zenon
  <2> QED
    BY <2>1, <2>2
<1>11. ASSUME NEW s \in Endpoints
       PROVE  Cardinality(LiveOf(new, s)) <= Registered(act2, s) + Cardinality(LateTimers(new, s))
  <2>1. LateTimers(old, s) \subseteq LateTimers(new, s)
    <3>2. \A i \in DOMAIN old : /\ old[i].session = new[i].session
                                /\ TimersGone(old[i]) <= TimersGone(new[i])
      <4> SUFFICES ASSUME NEW i \in DOMAIN old
                   PROVE  /\ old[i].session = new[i].session
                          /\ TimersGone(old[i]) <= TimersGone(new[i])
        OBVIOUS
      <4>1. old[i] \in SourceRecords /\ new[i] = old[i]
        BY <1>1, <1>5
      <4>2. TimersGone(old[i]) \in Int
        BY <4>1, TimersCounted
      <4> QED
        BY <4>1, <4>2
    <3> QED
      BY <1>a, <3>2, LateTimersGrow
  <2>2. CASE \A k \in 1..n : order[k] # s
    <3>1. act2[s] = act[s]
      BY <1>0, <2>2
    <3>2. LiveOf(new, s) \subseteq LiveOf(old, s)
      <4> SUFFICES ASSUME NEW i \in DOMAIN new, new[i].session = s, new[i].open
                   PROVE  i \in LiveOf(old, s)
        BY DEF LiveOf
      <4>1. ASSUME NEW k \in 1..n, i = Len(old) + k PROVE FALSE
        <5>1. new[i] = NewSource(order[k])
          BY <1>4, <1>5, <4>1
        <5>2. new[i].session = order[k]
          BY <1>0, <5>1, NewSourceAddsUp
        <5> QED
          BY <2>2, <5>2
      <4>2. i \in DOMAIN old /\ new[i] = old[i]
        BY <1>5, <1>7, <4>1
      <4> QED
        BY <4>2 DEF LiveOf
    <3>3. Registered(act, s) <= Registered(act2, s)
      BY <3>1 DEF Registered
    <3> QED
      BY <1>a, <2>1, <3>2, <3>3, OneSessionStaysBelow DEF Explained
  <2>3. ASSUME NEW m \in 1..n, order[m] = s
        PROVE  Cardinality(LiveOf(new, s)) <= Registered(act2, s) + Cardinality(LateTimers(new, s))
    <3>1. act[s] = 0 /\ act2[s] = Len(old) + m
      BY <1>0, <2>3
    <3>2. Registered(act, s) = 0 /\ Registered(act2, s) = 1
      BY <1>2, <3>1 DEF Registered
    <3>3. LiveOf(new, s) \subseteq LiveOf(old, s) \union {Len(old) + m}
      <4> SUFFICES ASSUME NEW i \in DOMAIN new, new[i].session = s, new[i].open, i # Len(old) + m
                   PROVE  i \in LiveOf(old, s)
        BY DEF LiveOf
      <4>1. ASSUME NEW k \in 1..n, i = Len(old) + k PROVE FALSE
        <5>1. new[i] = NewSource(order[k])
          BY <1>4, <1>5, <4>1
        <5>2. new[i].session = order[k]
          BY <1>0, <5>1, NewSourceAddsUp
        <5>3. k = m
          BY <1>0, <2>3, <5>2
        <5> QED
          BY <4>1, <5>3
      <4>2. i \in DOMAIN old /\ new[i] = old[i]
        BY <1>5, <1>7, <4>1
      <4> QED
        BY <4>2 DEF LiveOf
    <3>4. \E x : LiveOf(new, s) \subseteq LiveOf(old, s) \union {x}
      BY <3>3
    <3> QED
      BY <1>a, <2>1, <3>2, <3>4, OneSessionStaysBelow DEF Explained
  <2> QED
    BY <2>2, <2>3
<1> QED
  BY <1>0, <1>5, <1>8, <1>10, <1>11 DEF Accounted, OpenForAReason

\* What replacing one element of a sequence and appending another does to it.
LEMMA ReplacedAndAppended ==
  ASSUME NEW S, NEW seq \in Seq(S), NEW i \in DOMAIN seq, NEW t \in S, NEW e \in S
  PROVE  LET new == Append([seq EXCEPT ![i] = t], e) IN
         /\ new \in Seq(S) /\ Len(new) = Len(seq) + 1 /\ new[i] = t /\ new[Len(seq) + 1] = e
         /\ \A j \in DOMAIN seq : j # i => new[j] = seq[j]
<1>1. /\ [seq EXCEPT ![i] = t] \in Seq(S) /\ Len([seq EXCEPT ![i] = t]) = Len(seq)
      /\ [seq EXCEPT ![i] = t][i] = t /\ i \in 1..Len(seq)
      /\ \A j \in 1..Len(seq) : j # i => [seq EXCEPT ![i] = t][j] = seq[j]
  OBVIOUS
<1>2. ASSUME NEW mid \in Seq(S), Len(mid) = Len(seq), mid[i] = t,
             \A j \in 1..Len(seq) : j # i => mid[j] = seq[j]
      PROVE  /\ Append(mid, e) \in Seq(S) /\ Len(Append(mid, e)) = Len(seq) + 1
             /\ Append(mid, e)[i] = t /\ Append(mid, e)[Len(seq) + 1] = e
             /\ \A j \in DOMAIN seq : j # i => Append(mid, e)[j] = seq[j]
  BY <1>1, <1>2
<1> QED
  BY <1>1, <1>2

\* A timer of handle i closes its source and opens another for the session.
LEMMA ReopeningKeepsAccount ==
  ASSUME NEW old, NEW act, Accounted(old, act), NEW i \in DOMAIN old, NEW s, s = old[i].session,
         NEW t \in SourceRecords, t.session = s, t.open = FALSE, AddsUp(t), ~old[i].disposed,
         TimersGone(t) = TimersGone(old[i]) + 1, TimersGone(t) \in 1..REPEATS,
         NEW new, new = Append([old EXCEPT ![i] = t], NewSource(s)),
         NEW act2, act2 = [act EXCEPT ![s] = Len(old) + 1]
  PROVE  Accounted(new, act2)
<1>1. /\ old \in Seq(SourceRecords) /\ act \in [Endpoints -> Nat]
      /\ \A j \in DOMAIN old : AddsUp(old[j])
      /\ \A z \in Endpoints : act[z] # 0 =>
           act[z] \in DOMAIN old /\ old[act[z]].session = z /\ old[act[z]].open
  BY DEF Accounted, RegisteredIsOpen
<1>2. DOMAIN old = 1..Len(old) /\ Len(old) \in Nat
  BY <1>1
<1>3. old[i] \in SourceRecords /\ s \in Endpoints
  <2>1. old \in Seq(SourceRecords)
    BY <1>1
  <2>2. old[i] \in SourceRecords
    BY <2>1
  <2> QED
    BY <2>2 DEF SourceRecords
<1>4. NewSource(s) \in SourceRecords /\ NewSource(s).session = s /\ NewSource(s).open /\ AddsUp(NewSource(s))
  BY <1>3, NewSourceAddsUp
<1>5. /\ new \in Seq(SourceRecords) /\ Len(new) = Len(old) + 1 /\ new[i] = t
      /\ \A j \in DOMAIN old : j # i => new[j] = old[j]
      /\ new[Len(old) + 1] = NewSource(s)
  <2>1. old \in Seq(SourceRecords)
    BY <1>1
  <2> QED
    BY <1>4, <2>1, ReplacedAndAppended
<1>a. old \in Seq(SourceRecords) /\ new \in Seq(SourceRecords) /\ Len(old) <= Len(new)
  BY <1>1, <1>2, <1>5
<1>6. DOMAIN new = 1..(Len(old) + 1) /\ \A j \in DOMAIN old : j \in DOMAIN new
  BY <1>2, <1>5
<1>7. \A j \in DOMAIN new : j \in DOMAIN old \/ j = Len(old) + 1
  BY <1>2, <1>6
<1>8. \A j \in DOMAIN new : AddsUp(new[j])
  <2> SUFFICES ASSUME NEW j \in DOMAIN new PROVE AddsUp(new[j])
    OBVIOUS
  <2>1. CASE j = Len(old) + 1
    BY <1>4, <1>5, <2>1
  <2>2. CASE j = i
    BY <1>5, <2>2
  <2>3. CASE j \in DOMAIN old /\ j # i
    BY <1>1, <1>5, <2>3
  <2> QED
    BY <1>7, <2>1, <2>2, <2>3
<1>9. /\ act2 \in [Endpoints -> Nat] /\ act2[s] = Len(old) + 1
      /\ \A z \in Endpoints : z # s => act2[z] = act[z]
  BY <1>1, <1>2, <1>3
<1>10. RegisteredIsOpen(new, act2)
  <2> SUFFICES ASSUME NEW z \in Endpoints, act2[z] # 0
               PROVE  act2[z] \in DOMAIN new /\ new[act2[z]].session = z /\ new[act2[z]].open
    BY DEF RegisteredIsOpen
  <2>1. CASE z = s
    <3>1. Len(old) + 1 \in DOMAIN new
      BY <1>2, <1>6
    <3> QED
      BY <1>4, <1>5, <1>9, <2>1, <3>1
  <2>2. CASE z # s
    <3>1. /\ act2[z] = act[z] /\ act[z] \in DOMAIN old /\ old[act[z]].session = z
          /\ old[act[z]].open
      BY <1>1, <1>9, <2>2
    <3>2. act[z] # i
      BY <2>2, <3>1
    <3> QED
      BY <1>5, <1>6, <3>1, <3>2
  <2> QED
    BY <2>1, <2>2
<1>11. \A j \in DOMAIN old : /\ old[j].session = new[j].session
                             /\ TimersGone(old[j]) <= TimersGone(new[j])
  <2> SUFFICES ASSUME NEW j \in DOMAIN old
               PROVE  /\ old[j].session = new[j].session
                      /\ TimersGone(old[j]) <= TimersGone(new[j])
    OBVIOUS
  <2>1. TimersGone(old[j]) \in Int
    BY <1>1, TimersCounted
  <2>2. CASE j = i
    BY <1>5, <2>1, <2>2
  <2>3. CASE j # i
    BY <1>5, <2>1, <2>3
  <2> QED
    BY <2>2, <2>3
<1>12. ASSUME NEW z \in Endpoints
       PROVE  Cardinality(LiveOf(new, z)) <= Registered(act2, z) + Cardinality(LateTimers(new, z))
  <2>1. LateTimers(old, z) \subseteq LateTimers(new, z)
    BY <1>a, <1>11, LateTimersGrow
  <2>2. \A j \in LiveOf(new, z) : j # Len(old) + 1 => j # i /\ j \in LiveOf(old, z)
    BY <1>5, <1>7 DEF LiveOf
  <2>3. CASE z # s
    <3>1. LiveOf(new, z) \subseteq LiveOf(old, z)
      BY <1>4, <1>5, <2>2, <2>3 DEF LiveOf
    <3>2. Registered(act, z) <= Registered(act2, z)
      BY <1>9, <2>3 DEF Registered
    <3> QED
      BY <1>5, <2>1, <3>1, <3>2, OneSessionStaysBelow DEF Explained
  <2>4. CASE z = s
    <3>1. Registered(act2, z) = 1
      BY <1>2, <1>9, <2>4 DEF Registered
    <3>2. CASE old[i].open
      <4>1. i \in LiveOf(old, z)
        BY <2>4, <3>2 DEF LiveOf
      <4>2. LiveOf(new, z) \subseteq (LiveOf(old, z) \ {i}) \union {Len(old) + 1}
        BY <2>2
      <4>3. \E x : \E y \in LiveOf(old, z) : LiveOf(new, z) \subseteq (LiveOf(old, z) \ {y}) \union {x}
        BY <4>1, <4>2
      <4> QED
        BY <1>5, <2>1, <3>1, <4>3, OneSessionStaysBelow DEF Explained
    <3>3. CASE ~old[i].open
      <4> DEFINE p == <<i, TimersGone(t)>>
      <4>1. TimersGone(old[i]) > 0 /\ TimersGone(old[i]) \in Int
        BY <1>1, <1>3, <3>3, TimersCounted DEF AddsUp
      <4>2. TimersGone(t) \in 2..REPEATS
        BY <4>1, VizBounds
      <4>3. p \in LateTimers(new, z)
        BY <1>5, <1>6, <2>4, <4>2 DEF LateTimers
      <4>4. p \notin LateTimers(old, z)
        BY <4>1 DEF LateTimers
      <4>5. LiveOf(new, z) \subseteq LiveOf(old, z) \union {Len(old) + 1}
        BY <2>2
      <4>6. \E x : LiveOf(new, z) \subseteq LiveOf(old, z) \union {x}
                   /\ \E q \in LateTimers(new, z) : q \notin LateTimers(old, z)
        BY <4>3, <4>4, <4>5
      <4> QED
        BY <1>5, <2>1, <3>1, <4>6, OneSessionStaysBelow DEF Explained
    <3> QED
      BY <3>2, <3>3
  <2> QED
    BY <2>3, <2>4
<1> QED
  BY <1>5, <1>8, <1>9, <1>10, <1>12 DEF Accounted, OpenForAReason

\* reconcileSseSessions: what is no longer wanted is disposed of, then what is missing opened.
LEMMA ReconciledKeepsAccount ==
  ASSUME NEW old, NEW act, Accounted(old, act), wanted \subseteq Endpoints
  PROVE  /\ Accounted(Reconciled(old, act).srcs, Reconciled(old, act).act)
         /\ Len(old) <= Len(Reconciled(old, act).srcs)
<1> DEFINE gone    == {s \in Endpoints : act[s] # 0 /\ s \notin wanted}
           missing == {s \in wanted : act[s] = 0}
           n       == Cardinality(missing)
           swept   == [i \in DOMAIN old |->
                         IF \E s \in gone : act[s] = i THEN Dropped(old[i]) ELSE old[i]]
           order   == CHOOSE f \in Bijection(1..n, missing) : TRUE
           opened  == [k \in 1..n |-> NewSource(order[k])]
           place   == [s \in missing |-> CHOOSE k \in DOMAIN opened : order[k] = s]
           without == [s \in Endpoints |-> IF s \in gone THEN 0 ELSE act[s]]
           after   == [s \in Endpoints |-> CASE s \in missing -> Len(old) + place[s]
                                              [] s \in gone -> 0
                                              [] OTHER -> act[s]]
<1>1. Reconciled(old, act) = [srcs |-> swept \o opened, act |-> after]
  BY Zenon DEF Reconciled
<1>2. old \in Seq(SourceRecords) /\ Len(old) \in Nat /\ act \in [Endpoints -> Nat]
  <2>1. old \in Seq(SourceRecords) /\ act \in [Endpoints -> Nat]
    BY DEF Accounted
  <2> QED
    BY <2>1
<1>3. missing \subseteq Endpoints /\ IsFiniteSet(missing) /\ n \in Nat
  <2>1. missing \subseteq Endpoints
    OBVIOUS
  <2>2. IsFiniteSet(missing)
    BY <2>1, VizBounds, FS_Subset
  <2> QED
    BY <2>1, <2>2, FS_CardinalityType
<1>4. order \in Bijection(1..n, missing)
  <2>1. ExistsBijection(1..n, missing)
    BY <1>3, FS_CardinalityType
  <2>2. Bijection(1..n, missing) # {}
    BY <2>1 DEF ExistsBijection
  <2> QED
    BY <2>2
<1> HIDE DEF order, n
<1>5. /\ order \in [1..n -> missing] /\ (\A j, k \in 1..n : order[j] = order[k] => j = k)
      /\ \A s \in missing : \E k \in 1..n : order[k] = s
  BY <1>4 DEF Bijection, Injection, Surjection, IsInjective
<1>6. \A s \in missing : place[s] \in 1..n /\ order[place[s]] = s
  BY <1>5
<1>7. \A k \in 1..n : place[order[k]] = k
  BY <1>5, <1>6
<1> HIDE DEF place
<1>8. Accounted(swept, without) /\ Len(swept) = Len(old)
  <2>1. gone \in SUBSET Endpoints /\ \A s \in gone : act[s] # 0
    OBVIOUS
  <2> HIDE DEF gone
  <2> QED
    BY <2>1, DroppingKeepsAccount
<1>9. \A s \in missing : s \in Endpoints /\ s \notin gone /\ without[s] = 0
  BY <1>3
<1>10. after \in [Endpoints -> Nat]
  <2> SUFFICES ASSUME NEW s \in Endpoints
               PROVE  (CASE s \in missing -> Len(old) + place[s] [] s \in gone -> 0 [] OTHER -> act[s]) \in Nat
    OBVIOUS
  <2>1. CASE s \in missing
    BY <1>2, <1>6, <1>9, <2>1
  <2>2. CASE s \notin missing
    BY <1>2, <2>2
  <2> QED
    BY <2>1, <2>2
<1>11. \A k \in 1..n : after[order[k]] = Len(swept) + k
  <2> SUFFICES ASSUME NEW k \in 1..n PROVE after[order[k]] = Len(swept) + k
    OBVIOUS
  <2>1. order[k] \in missing /\ order[k] \in Endpoints /\ order[k] \notin gone
    BY <1>5, <1>9
  <2>2. after[order[k]] = Len(old) + place[order[k]]
    BY <2>1
  <2> QED
    BY <1>7, <1>8, <2>2
<1>12. \A s \in Endpoints : (\A k \in 1..n : order[k] # s) => after[s] = without[s]
  <2> SUFFICES ASSUME NEW s \in Endpoints, \A k \in 1..n : order[k] # s
               PROVE  after[s] = without[s]
    OBVIOUS
  <2>1. s \notin missing
    BY <1>5
  <2> QED
    BY <2>1
<1>13. order \in [1..n -> Endpoints] /\ \A k \in 1..n : without[order[k]] = 0
  BY <1>5, <1>9
<1> HIDE DEF swept, without, after
<1>14. OneEach(swept, without, n, order, after)
  BY <1>3, <1>5, <1>10, <1>11, <1>12, <1>13 DEF OneEach
<1>15. Accounted(Opened(swept, n, order), after) /\ Len(Opened(swept, n, order)) = Len(swept) + n
  BY <1>8, <1>14, OpeningKeepsAccount
<1>16. swept \o opened = Opened(swept, n, order)
  BY DEF Opened
<1> HIDE DEF opened
<1>17. Reconciled(old, act).srcs = Opened(swept, n, order) /\ Reconciled(old, act).act = after
  <2>1. [srcs |-> swept \o opened, act |-> after].srcs = swept \o opened
        /\ [srcs |-> swept \o opened, act |-> after].act = after
    OBVIOUS
  <2> QED
    BY <1>1, <1>16, <2>1, Zenon
<1>18. Len(old) <= Len(Opened(swept, n, order))
  BY <1>2, <1>3, <1>8, <1>15
<1> QED
  BY <1>15, <1>17, <1>18, Zenon

\* What an event does to the canvas touches the node it is of only.
LEMMA CanvasAfter ==
  ASSUME NEW c \in Canvases, NEW n \in Endpoints, NEW event
  PROVE  /\ ApplyStep(c, n, event) \in Canvases /\ ApplyStep(c, n, event).run = c.run
         /\ \A m \in Endpoints : m # n => /\ ApplyStep(c, n, event).status[m] = c.status[m]
                                          /\ ApplyStep(c, n, event).tool[m] = c.tool[m]
<1> DEFINE Touches(d) ==
             /\ d \in Canvases /\ d.run = c.run
             /\ \A m \in Endpoints : m # n => d.status[m] = c.status[m] /\ d.tool[m] = c.tool[m]
<1>1. ASSUME NEW v \in {"active", "failed"} PROVE Touches([c EXCEPT !.status[n] = v])
  BY DEF Canvases
<1>2. Touches([c EXCEPT !.status[n] = "completed", !.tool[n] = FALSE])
  BY DEF Canvases
<1>3. Touches([c EXCEPT !.tool[n] = TRUE]) /\ Touches(c)
  BY DEF Canvases
<1> HIDE DEF Touches
<1>4. Touches(ApplyStep(c, n, event))
  <2>1. CASE event = "step.started"
    BY <1>1, <2>1 DEF ApplyStep
  <2>2. CASE event = "step.completed"
    BY <1>2, <2>2 DEF ApplyStep
  <2>3. CASE event = "step.failed"
    BY <1>1, <2>3 DEF ApplyStep
  <2>4. CASE event = "step.tool_use"
    BY <1>3, <2>4 DEF ApplyStep
  <2>5. CASE event \notin {"step.started", "step.completed", "step.failed", "step.tool_use"}
    BY <1>3, <2>5 DEF ApplyStep
  <2> QED
    BY <2>1, <2>2, <2>3, <2>4, <2>5
<1> QED
  BY <1>4 DEF Touches

LEMMA PublishKeepsRun ==
  ASSUME canvas \in Canvases, told \in [Endpoints -> PipelineRuns \union {"none"}],
         CanvasShowsItsRun, NEW n \in Endpoints, NEW event, Publish(n, event)
  PROVE  /\ canvas' \in Canvases /\ told' \in [Endpoints -> PipelineRuns \union {"none"}]
         /\ CanvasShowsItsRun'
<1>1. CASE OwnRun # canvas.run
  <2>1. canvas' = canvas /\ told' = told
    BY <1>1 DEF Publish, Heard
  <2> QED
    BY <2>1 DEF CanvasShowsItsRun
<1>2. CASE OwnRun = canvas.run
  <2>1. canvas' = ApplyStep(canvas, n, event)
    BY <1>2 DEF Publish, Heard
  <2>2. /\ canvas' \in Canvases /\ canvas'.run = canvas.run
        /\ \A m \in Endpoints : m # n => canvas'.status[m] = canvas.status[m]
                                         /\ canvas'.tool[m] = canvas.tool[m]
    BY <2>1, CanvasAfter
  <2>3. told' = IF canvas' = canvas THEN told ELSE [told EXCEPT ![n] = OwnRun]
    BY DEF Publish
  <2>4. CASE canvas' = canvas
    <3>1. told' = told
      BY <2>3, <2>4
    <3> QED
      BY <2>4, <3>1 DEF CanvasShowsItsRun
  <2>5. CASE canvas' # canvas
    <3>1. told' = [told EXCEPT ![n] = OwnRun]
      BY <2>3, <2>5
    <3>2. told' \in [Endpoints -> PipelineRuns \union {"none"}]
      BY <3>1, VizBounds
    <3>3. ASSUME NEW m \in Endpoints, canvas'.status[m] # "idle" \/ canvas'.tool[m]
          PROVE  told'[m] = canvas'.run
      <4>1. CASE m = n
        BY <1>2, <2>2, <3>1, <4>1
      <4>2. CASE m # n
        <5>1. canvas.status[m] # "idle" \/ canvas.tool[m]
          BY <2>2, <3>3, <4>2
        <5>2. told[m] = canvas.run
          BY <5>1 DEF CanvasShowsItsRun
        <5> QED
          BY <2>2, <3>1, <4>2, <5>2
      <4> QED
        BY <4>1, <4>2
    <3> QED
      BY <2>2, <3>2, <3>3 DEF CanvasShowsItsRun
  <2> QED
    BY <2>4, <2>5
<1> QED
  BY <1>1, <1>2

LEMMA BlankKeepsRun ==
  ASSUME NEW r \in PipelineRuns, canvas' = BlankCanvas(r), told' = [n \in Endpoints |-> "none"]
  PROVE  /\ canvas' \in Canvases /\ told' \in [Endpoints -> PipelineRuns \union {"none"}]
         /\ CanvasShowsItsRun'
  BY DEF BlankCanvas, Canvases, CanvasShowsItsRun

LEMMA VizInvInit == VizInit => VizInv
<1> SUFFICES ASSUME VizInit PROVE VizInv
  OBVIOUS
<1>1. VizTypes /\ CanvasShowsItsRun
  BY VizBounds DEF VizInit, VizTypes, Connections, Canvases, BlankCanvas, CanvasShowsItsRun
<1>2. /\ sources = <<>> /\ active = [s \in Endpoints |-> 0] /\ DOMAIN sources = {}
      /\ sources \in Seq(SourceRecords)
  BY DEF VizInit
<1>3. RegisteredIsOpen(sources, active)
  BY <1>2 DEF RegisteredIsOpen
<1>4. ASSUME NEW s \in Endpoints
      PROVE  Cardinality(LiveOf(sources, s)) <= Registered(active, s) + Cardinality(LateTimers(sources, s))
  <2>1. LiveOf(sources, s) = {} /\ LateTimers(sources, s) = {}
    BY <1>2 DEF LiveOf, LateTimers
  <2>2. Registered(active, s) = 0
    BY <1>2 DEF Registered
  <2> QED
    BY <2>1, <2>2, FS_EmptySet
<1> QED
  BY <1>1, <1>2, <1>3, <1>4 DEF VizInv, Accounted, OpenForAReason

\* What scheduleWsReconnect reads and writes.
Retries == [attempts : Nat, timers : Int, kept : BOOLEAN, conn : Connections]

LEMMA ScheduledIsARetry ==
  ASSUME NEW r \in Retries
  PROVE  ScheduleWsReconnect(r) \in Retries
<1> DEFINE tries == r.attempts + 1
           more  == r.timers + 1
<1>1. tries \in Nat /\ more \in Int
  BY DEF Retries
<1>2. ScheduleWsReconnect(r) \in {[r EXCEPT !.attempts = tries, !.conn = "error"],
        [r EXCEPT !.attempts = tries, !.timers = more, !.kept = TRUE, !.conn = "reconnecting"]}
  <2>1. CASE tries > ATTEMPTS
    BY <2>1, Zenon DEF ScheduleWsReconnect
  <2>2. CASE ~(tries > ATTEMPTS)
    BY <2>2, Zenon DEF ScheduleWsReconnect
  <2> QED
    BY <2>1, <2>2
<1> HIDE DEF tries, more
<1> QED
  BY <1>1, <1>2 DEF Retries, Connections

\* The subscriber, its sockets, the canvas and the wanted sessions after every step.
LEMMA VizTypesStep ==
  ASSUME VizInv, [VizNext]_vizVars
  PROVE  VizTypes' /\ CanvasShowsItsRun'
<1>0. VizTypes /\ CanvasShowsItsRun /\ sources \in Seq(SourceRecords)
  BY DEF VizInv, Accounted
<1>a. /\ sockets \in Seq({"connecting", "open", "closed"})
      /\ Append(sockets, "connecting") \in Seq({"connecting", "open", "closed"})
  <2>1. sockets \in Seq({"connecting", "open", "closed"})
    BY <1>0 DEF VizTypes
  <2> QED
    BY <2>1
<1>1. CASE StartSubscriber
  <2>1. /\ subscriber' \in {[subscriber EXCEPT !.life = "live", !.conn = "connecting"],
                            [subscriber EXCEPT !.life = "live", !.conn = "open"]}
        /\ sockets' \in {Append(sockets, "connecting"), sockets}
        /\ UNCHANGED <<wanted, wsRetry, canvas, told>>
    BY <1>1 DEF StartSubscriber
  <2>2. subscriber' \in [life : {"new", "live", "disposed"}, url : BOOLEAN, conn : Connections]
    BY <1>0, <2>1 DEF VizTypes, Connections
  <2>3. sockets' \in Seq({"connecting", "open", "closed"})
    BY <1>a, <2>1
  <2> QED
    BY <1>0, <2>1, <2>2, <2>3 DEF VizTypes, CanvasShowsItsRun
<1>2. CASE DisposeSubscriber
  <2> DEFINE left == IF wsRetry.kept THEN wsRetry.timers - 1 ELSE wsRetry.timers
  <2>1. /\ subscriber' = [subscriber EXCEPT !.life = "disposed", !.conn = "closed"]
        /\ sockets' = [i \in DOMAIN sockets |-> IF i = Len(sockets) THEN "closed" ELSE sockets[i]]
        /\ wsRetry' = [wsRetry EXCEPT !.kept = FALSE, !.timers = left]
        /\ UNCHANGED <<wanted, canvas, told>>
    BY <1>2 DEF DisposeSubscriber
  <2>2. subscriber' \in [life : {"new", "live", "disposed"}, url : BOOLEAN, conn : Connections]
    BY <1>0, <2>1 DEF VizTypes, Connections
  <2>3. sockets' \in Seq({"connecting", "open", "closed"})
    BY <1>0, <2>1 DEF VizTypes
  <2>4. left \in Int
    BY <1>0 DEF VizTypes
  <2> HIDE DEF left
  <2>5. wsRetry' \in [attempts : Nat, timers : Int, kept : BOOLEAN]
    BY <1>0, <2>1, <2>4 DEF VizTypes
  <2> QED
    BY <1>0, <2>1, <2>2, <2>3, <2>5 DEF VizTypes, CanvasShowsItsRun
<1>3. CASE Reconcile
  BY <1>0, <1>3 DEF Reconcile, VizTypes, CanvasShowsItsRun
<1>4. CASE SessionsChange
  BY <1>0, <1>4 DEF SessionsChange, VizTypes, CanvasShowsItsRun
<1>5. CASE Rehydrate
  <2>1. canvas.run \in PipelineRuns
    BY <1>0 DEF VizTypes, Canvases
  <2>2. canvas' \in Canvases /\ told' \in [Endpoints -> PipelineRuns \union {"none"}] /\ CanvasShowsItsRun'
    BY <1>5, <2>1, BlankKeepsRun DEF Rehydrate
  <2> QED
    BY <1>0, <1>5, <2>2 DEF Rehydrate, VizTypes
<1>6. ASSUME NEW r \in PipelineRuns, ShowRun(r) PROVE VizTypes' /\ CanvasShowsItsRun'
  <2>2. canvas' \in Canvases /\ told' \in [Endpoints -> PipelineRuns \union {"none"}] /\ CanvasShowsItsRun'
    BY <1>6, BlankKeepsRun DEF ShowRun
  <2> QED
    BY <1>0, <1>6, <2>2 DEF ShowRun, VizTypes
<1>7. ASSUME NEW i \in DOMAIN sources, NEW t, SourceFrame(i, t) PROVE VizTypes' /\ CanvasShowsItsRun'
  <2>1. sources[i] \in SourceRecords
    BY <1>0
  <2>2. sources[i].session \in Endpoints
    BY <2>1 DEF SourceRecords
  <2>3. canvas' \in Canvases /\ told' \in [Endpoints -> PipelineRuns \union {"none"}] /\ CanvasShowsItsRun'
    BY <1>0, <1>7, <2>2, PublishKeepsRun DEF SourceFrame, VizTypes
  <2> QED
    BY <1>0, <1>7, <2>3 DEF SourceFrame, VizTypes
<1>8. ASSUME NEW i \in DOMAIN sources, SourceError(i) PROVE VizTypes' /\ CanvasShowsItsRun'
  <2>1. subscriber' \in {[subscriber EXCEPT !.conn = "error"], [subscriber EXCEPT !.conn = "reconnecting"]}
    BY <1>8 DEF SourceError
  <2>2. UNCHANGED <<wanted, sockets, wsRetry, canvas, told>>
    BY <1>8 DEF SourceError
  <2> QED
    BY <1>0, <2>1, <2>2 DEF VizTypes, CanvasShowsItsRun, Connections
<1>9. ASSUME NEW i \in DOMAIN sources, NEW last, SourceTimer(i, last) PROVE VizTypes' /\ CanvasShowsItsRun'
  BY <1>0, <1>9 DEF SourceTimer, VizTypes, CanvasShowsItsRun
<1>10. ASSUME NEW i \in DOMAIN sockets, SocketOpens(i) PROVE VizTypes' /\ CanvasShowsItsRun'
  <2>1. /\ subscriber' = [subscriber EXCEPT !.conn = "open"]
        /\ sockets' = [sockets EXCEPT ![i] = "open"] /\ wsRetry' = [wsRetry EXCEPT !.attempts = 0]
        /\ UNCHANGED <<wanted, canvas, told>>
    BY <1>10 DEF SocketOpens
  <2>2. subscriber' \in [life : {"new", "live", "disposed"}, url : BOOLEAN, conn : Connections]
    BY <1>0, <2>1 DEF VizTypes, Connections
  <2>3. sockets' \in Seq({"connecting", "open", "closed"})
    BY <1>0, <2>1 DEF VizTypes
  <2>4. wsRetry' \in [attempts : Nat, timers : Int, kept : BOOLEAN]
    BY <1>0, <2>1 DEF VizTypes
  <2> QED
    BY <1>0, <2>1, <2>2, <2>3, <2>4 DEF VizTypes, CanvasShowsItsRun
<1>11. ASSUME NEW i \in DOMAIN sockets, NEW failed, SocketEnds(i, failed) PROVE VizTypes' /\ CanvasShowsItsRun'
  <2>1. sockets' = [sockets EXCEPT ![i] = "closed"] /\ UNCHANGED <<wanted, canvas, told>>
    BY <1>11 DEF SocketEnds
  <2>2. sockets' \in Seq({"connecting", "open", "closed"})
    BY <1>0, <2>1 DEF VizTypes
  <2>3. Retrying \in Retries
    BY <1>0 DEF Retrying, VizTypes, Retries
  <2>4. \/ UNCHANGED <<wsRetry, subscriber>>
        \/ \E r \in Retries : SetRetrying(r)
    <3>1. ScheduleWsReconnect(Retrying) \in Retries
      BY <2>3, ScheduledIsARetry
    <3>2. ScheduleWsReconnect(ScheduleWsReconnect(Retrying)) \in Retries
      BY <3>1, ScheduledIsARetry
    <3> QED
      BY <1>11, <3>1, <3>2 DEF SocketEnds
  <2>5. CASE UNCHANGED <<wsRetry, subscriber>>
    BY <1>0, <2>1, <2>2, <2>5 DEF VizTypes, CanvasShowsItsRun
  <2>6. ASSUME NEW r \in Retries, SetRetrying(r) PROVE VizTypes' /\ CanvasShowsItsRun'
    <3>1. wsRetry' \in [attempts : Nat, timers : Int, kept : BOOLEAN]
      BY <2>6 DEF SetRetrying, Retries
    <3>2. subscriber' \in [life : {"new", "live", "disposed"}, url : BOOLEAN, conn : Connections]
      BY <1>0, <2>6 DEF SetRetrying, Retries, VizTypes
    <3> QED
      BY <1>0, <2>1, <2>2, <3>1, <3>2 DEF VizTypes, CanvasShowsItsRun
  <2> QED
    BY <2>4, <2>5, <2>6
<1>12. ASSUME NEW i \in DOMAIN sockets, NEW n \in Endpoints, SocketFrame(i, n, "step.completed")
       PROVE  VizTypes' /\ CanvasShowsItsRun'
  <2>3. canvas' \in Canvases /\ told' \in [Endpoints -> PipelineRuns \union {"none"}] /\ CanvasShowsItsRun'
    BY <1>0, <1>12, PublishKeepsRun DEF SocketFrame, VizTypes
  <2> QED
    BY <1>0, <1>12, <2>3 DEF SocketFrame, VizTypes
<1>13. ASSUME NEW last, SocketTimer(last) PROVE VizTypes' /\ CanvasShowsItsRun'
  <2>1. sockets' = Append(sockets, "connecting") \/ sockets' = sockets
    BY <1>13 DEF SocketTimer, SocketsAfterTimer
  <2>2. UNCHANGED <<subscriber, wanted, canvas, told>>
    BY <1>13 DEF SocketTimer
  <2>3. wsRetry' \in [attempts : Nat, timers : Int, kept : BOOLEAN]
    <3> DEFINE left == wsRetry.timers - 1
               kept == IF last THEN FALSE ELSE wsRetry.kept
    <3>1. wsRetry' = [wsRetry EXCEPT !.timers = left, !.kept = kept]
      BY <1>13, Zenon DEF SocketTimer, TimerSpent
    <3>2. left \in Int
      BY <1>0 DEF VizTypes
    <3>3. kept \in BOOLEAN
      BY <1>0 DEF VizTypes
    <3> HIDE DEF left, kept
    <3> QED
      BY <1>0, <3>1, <3>2, <3>3 DEF VizTypes
  <2>4. sockets' \in Seq({"connecting", "open", "closed"})
    BY <1>a, <2>1
  <2> QED
    BY <1>0, <2>2, <2>3, <2>4 DEF VizTypes, CanvasShowsItsRun
<1>14. CASE UNCHANGED vizVars
  BY <1>0, <1>14 DEF vizVars, VizTypes, CanvasShowsItsRun
<1> QED
  BY <1>1, <1>2, <1>3, <1>4, <1>5, <1>6, <1>7, <1>8, <1>9, <1>10, <1>11, <1>12, <1>13, <1>14
  DEF VizNext

\* Sources and registrations are accounted for after every step.
LEMMA AccountStep ==
  ASSUME VizInv, [VizNext]_vizVars
  PROVE  Accounted(sources, active)'
<1>0. VizTypes /\ Accounted(sources, active)
  BY DEF VizInv
<1>a. sources \in Seq(SourceRecords) /\ active \in [Endpoints -> Nat] /\ wanted \subseteq Endpoints
  BY <1>0 DEF Accounted, VizTypes
<1>b. ASSUME UNCHANGED <<sources, active>> PROVE Accounted(sources, active)'
  <2>1. Accounted(sources', active')
    BY <1>0, <1>b
  <2> QED
    BY <2>1 DEF Accounted, RegisteredIsOpen, OpenForAReason, LiveOf, LateTimers, AddsUp,
                TimersSet, TimersGone, Registered
<1>c. ASSUME Accounted(sources', active') PROVE Accounted(sources, active)'
  BY <1>c DEF Accounted, RegisteredIsOpen, OpenForAReason, LiveOf, LateTimers, AddsUp,
              TimersSet, TimersGone, Registered
<1>d. ASSUME sources' = Reconciled(sources, active).srcs, active' = Reconciled(sources, active).act
      PROVE  Accounted(sources, active)'
  <2>1. Accounted(sources', active')
    BY <1>0, <1>a, <1>d, ReconciledKeepsAccount
  <2> QED
    BY <1>c, <2>1
<1>e. ASSUME NEW i \in DOMAIN sources, NEW t \in SourceRecords, AddsUp(t),
             t.session = sources[i].session, t.open = sources[i].open,
             TimersGone(sources[i]) <= TimersGone(t),
             sources' = [sources EXCEPT ![i] = t], active' = active
      PROVE  Accounted(sources, active)'
  <2>1. sources' \in Seq(SourceRecords) /\ Len(sources') = Len(sources)
    BY <1>a, <1>e
  <2>2. ASSUME NEW j \in DOMAIN sources
        PROVE  /\ sources'[j].session = sources[j].session /\ sources'[j].open = sources[j].open
               /\ TimersGone(sources[j]) <= TimersGone(sources'[j]) /\ AddsUp(sources'[j])
    <3>1. sources[j] \in SourceRecords /\ AddsUp(sources[j])
      BY <1>0, <1>a DEF Accounted
    <3>2. TimersGone(sources[j]) \in Int
      BY <3>1, TimersCounted
    <3>3. CASE j = i
      <4>1. sources'[j] = t
        BY <1>a, <1>e, <3>3
      <4> QED
        BY <1>e, <3>3, <4>1
    <3>4. CASE j # i
      <4>1. sources'[j] = sources[j]
        BY <1>a, <1>e, <3>4
      <4> QED
        BY <3>1, <3>2, <4>1
    <3> QED
      BY <3>3, <3>4
  <2>3. Accounted(sources', active)
    BY <1>0, <2>1, <2>2, InPlaceKeepsAccount
  <2>4. Accounted(sources', active')
    BY <1>e, <2>3
  <2> QED
    BY <1>c, <2>4
<1>1. CASE StartSubscriber
  BY <1>1, <1>d DEF StartSubscriber
<1>2. CASE DisposeSubscriber
  <2> DEFINE D == {s \in Endpoints : active[s] # 0}
             new == [i \in DOMAIN sources |->
                       IF \E s \in D : active[s] = i THEN Dropped(sources[i]) ELSE sources[i]]
             none == [s \in Endpoints |-> IF s \in D THEN 0 ELSE active[s]]
  <2>1. \A i \in DOMAIN sources : (\E s \in D : active[s] = i) <=> \E s \in Endpoints : active[s] = i
    BY <1>a
  <2>2. sources' = new
    BY <1>2, <2>1 DEF DisposeSubscriber
  <2>3. active' = none
    BY <1>2, <1>a DEF DisposeSubscriber
  <2>4. D \in SUBSET Endpoints /\ \A s \in D : active[s] # 0
    OBVIOUS
  <2> HIDE DEF D
  <2>5. Accounted(new, none)
    BY <1>0, <2>4, DroppingKeepsAccount
  <2> HIDE DEF new, none
  <2>6. Accounted(sources', active')
    BY <2>2, <2>3, <2>5
  <2> QED
    BY <1>c, <2>6
<1>3. CASE Reconcile
  BY <1>3, <1>d DEF Reconcile
<1>4. CASE SessionsChange \/ Rehydrate \/ (\E r \in PipelineRuns : ShowRun(r))
           \/ (\E last \in BOOLEAN : SocketTimer(last)) \/ UNCHANGED vizVars
  BY <1>4, <1>b DEF SessionsChange, Rehydrate, ShowRun, SocketTimer, vizVars
<1>5. ASSUME NEW i \in DOMAIN sources, NEW t, SourceFrame(i, t) PROVE Accounted(sources, active)'
  BY <1>5, <1>b DEF SourceFrame
<1>6. ASSUME NEW i \in DOMAIN sources, SourceError(i) PROVE Accounted(sources, active)'
  <2> DEFINE h == sources[i]
             t == IF h.attempts + 1 > ATTEMPTS THEN [h EXCEPT !.attempts = h.attempts + 1]
                  ELSE [h EXCEPT !.attempts = h.attempts + 1, !.timers = h.timers + 1, !.kept = TRUE]
  <2>1. h \in SourceRecords /\ AddsUp(h)
    BY <1>0, <1>a DEF Accounted
  <2>2. h.open /\ h.attempts < REPEATS /\ active' = active
    BY <1>6 DEF SourceError
  <2>3. h.attempts \in Nat
    BY <2>1 DEF SourceRecords
  <2>4. sources' = [sources EXCEPT ![i] = t]
    <3>1. CASE h.attempts + 1 > ATTEMPTS
      <4>1. sources' = [sources EXCEPT ![i].attempts = sources[i].attempts + 1]
        BY <1>6, <3>1 DEF SourceError
      <4>2. t = [h EXCEPT !.attempts = h.attempts + 1]
        BY <3>1
      <4> HIDE DEF t
      <4> QED
        BY <4>1, <4>2, Zenon
    <3>2. CASE ~(h.attempts + 1 > ATTEMPTS)
      <4>1. sources' = [sources EXCEPT ![i].attempts = sources[i].attempts + 1,
                                       ![i].timers = @ + 1, ![i].kept = TRUE]
        BY <1>6, <3>2 DEF SourceError
      <4>2. t = [h EXCEPT !.attempts = h.attempts + 1, !.timers = h.timers + 1, !.kept = TRUE]
        BY <3>2
      <4> DEFINE tries == h.attempts + 1
                 more == h.timers + 1
      <4>3. /\ sources' = [sources EXCEPT ![i].attempts = tries, ![i].timers = more, ![i].kept = TRUE]
            /\ t = [h EXCEPT !.attempts = tries, !.timers = more, !.kept = TRUE]
        BY <1>a, <4>1, <4>2
      <4> HIDE DEF t, tries, more
      <4> QED
        BY <1>a, <2>1, <4>3 DEF SourceRecords
    <3> QED
      BY <3>1, <3>2
  <2>5. \/ h.attempts + 1 > ATTEMPTS /\ t = [h EXCEPT !.attempts = h.attempts + 1]
        \/ /\ h.attempts + 1 <= ATTEMPTS
           /\ t = [h EXCEPT !.attempts = h.attempts + 1, !.timers = h.timers + 1, !.kept = TRUE]
    BY <2>3, VizBounds
  <2> HIDE DEF t
  <2>6. /\ t \in SourceRecords /\ t.session = h.session /\ t.open = h.open /\ AddsUp(t)
        /\ TimersGone(h) <= TimersGone(t)
    BY <2>1, <2>2, <2>5, ErrorAddsUp
  <2> QED
    BY <1>e, <2>2, <2>4, <2>6
<1>7. ASSUME NEW i \in DOMAIN sources, NEW last \in BOOLEAN, SourceTimer(i, last)
      PROVE  Accounted(sources, active)'
  <2> DEFINE h == sources[i]
             t == TimerSpent(h, last)
  <2>1. h \in SourceRecords /\ AddsUp(h)
    BY <1>0, <1>a DEF Accounted
  <2>2. MayFire(h.timers, h.kept, last)
    BY <1>7 DEF SourceTimer
  <2>3. /\ t \in SourceRecords /\ t.session = h.session /\ t.open = h.open
        /\ t.disposed = h.disposed /\ AddsUp(t) /\ TimersGone(t) = TimersGone(h) + 1
        /\ TimersGone(t) \in 1..REPEATS /\ TimersGone(h) \in Int
    BY <2>1, <2>2, SpentAddsUp, TimersCounted
  <2> HIDE DEF t
  <2>4. CASE h.disposed \/ ~Alive
    <3>1. sources' = [sources EXCEPT ![i] = t] /\ active' = active
      BY <1>7, <2>4 DEF SourceTimer, t
    <3>2. TimersGone(h) <= TimersGone(t)
      BY <2>3
    <3> QED
      BY <1>e, <2>3, <3>1, <3>2
  <2>5. CASE ~h.disposed /\ Alive
    <3> DEFINE s == h.session
               u == [t EXCEPT !.open = FALSE]
               new == Append([sources EXCEPT ![i] = u], NewSource(s))
               act == [active EXCEPT ![s] = Len(sources) + 1]
    <3>1. u \in SourceRecords /\ u.session = s /\ u.open = FALSE /\ AddsUp(u) /\ TimersGone(u) = TimersGone(t)
      <4>1. /\ u \in SourceRecords /\ u.session = s /\ u.open = FALSE /\ u.attempts = t.attempts
            /\ u.timers = t.timers /\ u.kept = t.kept /\ u.disposed = t.disposed
        BY <2>3 DEF SourceRecords
      <4> HIDE DEF u
      <4>2. TimersSet(u) = TimersSet(t) /\ TimersGone(u) = TimersGone(t)
        BY <4>1 DEF TimersSet, TimersGone
      <4>3. TimersGone(u) > 0
        BY <2>3, <4>2, VizBounds
      <4>4. AddsUp(u)
        BY <2>3, <4>1, <4>2, <4>3, Zenon DEF AddsUp
      <4> QED
        BY <4>1, <4>2, <4>4
    <3>2. sources' = new /\ active' = act
      <4>1. sources' = Reopened(i, last).srcs /\ active' = Reopened(i, last).act
        BY <1>7, <2>5 DEF SourceTimer
      <4>2. Len([sources EXCEPT ![i] = u]) = Len(sources)
        BY <1>a
      <4>3. [[active EXCEPT ![s] = 0] EXCEPT ![s] = Len(sources) + 1] = act
        BY <1>a
      <4>4. [sources EXCEPT ![i] = [TimerSpent(@, last) EXCEPT !.open = FALSE]]
              = [sources EXCEPT ![i] = u]
        BY Zenon DEF t
      <4> HIDE DEF u
      <4> QED
        BY <4>1, <4>2, <4>3, <4>4 DEF Reopened, OpenSource
    <3> HIDE DEF u
    <3>3. TimersGone(u) = TimersGone(h) + 1 /\ TimersGone(u) \in 1..REPEATS /\ ~h.disposed
      BY <2>3, <2>5, <3>1
    <3>4. Accounted(new, act)
      BY <1>0, <2>5, <3>1, <3>3, ReopeningKeepsAccount
    <3> HIDE DEF new, act
    <3>5. Accounted(sources', active')
      BY <3>2, <3>4
    <3> QED
      BY <1>c, <3>5
  <2> QED
    BY <2>4, <2>5
<1>8. ASSUME NEW i \in DOMAIN sockets,
             \/ SocketOpens(i) \/ (\E failed \in BOOLEAN : SocketEnds(i, failed))
             \/ (\E n \in Endpoints : SocketFrame(i, n, "step.completed"))
      PROVE  Accounted(sources, active)'
  BY <1>8, <1>b DEF SocketOpens, SocketEnds, SocketFrame
<1> QED
  BY <1>1, <1>2, <1>3, <1>4, <1>5, <1>6, <1>7, <1>8 DEF VizNext

LEMMA VizInvStep == VizInv /\ [VizNext]_vizVars => VizInv'
  BY VizTypesStep, AccountStep DEF VizInv

LEMMA OneSourceFollows == VizInv => OneSourcePerSession
<1> SUFFICES ASSUME VizInv, NEW s \in Endpoints
             PROVE  Cardinality(LiveSources(s)) <= 1 + Cardinality(
                      {e \in (DOMAIN sources) \X (2..REPEATS) :
                         sources[e[1]].session = s /\ e[2] <= sources[e[1]].attempts})
  BY DEF OneSourcePerSession
<1> DEFINE again == {e \in (DOMAIN sources) \X (2..REPEATS) :
                       sources[e[1]].session = s /\ e[2] <= sources[e[1]].attempts}
<1>1. /\ sources \in Seq(SourceRecords) /\ (\A i \in DOMAIN sources : AddsUp(sources[i]))
      /\ Cardinality(LiveOf(sources, s)) <= Registered(active, s) + Cardinality(LateTimers(sources, s))
  BY DEF VizInv, Accounted, OpenForAReason
<1>2. LiveOf(sources, s) = LiveSources(s)
  BY DEF LiveOf, LiveSources
<1>3. LateTimers(sources, s) \subseteq again
  <2> SUFFICES ASSUME NEW i \in DOMAIN sources, NEW k \in 2..REPEATS, k <= TimersGone(sources[i])
               PROVE  k <= sources[i].attempts
    BY DEF LateTimers
  <2>1. sources[i] \in SourceRecords
    BY <1>1
  <2>2. sources[i].timers \in Nat /\ sources[i].attempts \in Nat
    BY <2>1 DEF SourceRecords
  <2>3. TimersSet(sources[i]) \in Nat /\ TimersSet(sources[i]) <= sources[i].attempts
    BY <2>1, TimersCounted
  <2> QED
    BY <2>2, <2>3, VizBounds DEF TimersGone
<1>4. IsFiniteSet(again)
  <2>1. DOMAIN sources = 1..Len(sources) /\ Len(sources) \in Nat
    BY <1>1
  <2>2. IsFiniteSet(DOMAIN sources) /\ IsFiniteSet(2..REPEATS)
    BY <2>1, VizBounds, FS_Interval
  <2>3. IsFiniteSet((DOMAIN sources) \X (2..REPEATS))
    BY <2>2, FS_Product
  <2> QED
    BY <2>3, FS_Subset
<1>5. /\ Cardinality(LateTimers(sources, s)) <= Cardinality(again)
      /\ Cardinality(again) \in Nat /\ Cardinality(LateTimers(sources, s)) \in Nat
  <2>1. IsFiniteSet(LateTimers(sources, s))
    BY <1>1, SourcesFinite
  <2> QED
    BY <1>3, <1>4, <2>1, FS_Subset, FS_CardinalityType
<1>6. Cardinality(LiveOf(sources, s)) \in Nat
  BY <1>1, SourcesFinite, FS_CardinalityType
<1>7. Registered(active, s) \in {0, 1}
  BY DEF Registered
<1> HIDE DEF again
<1>8. Cardinality(LiveOf(sources, s)) <= 1 + Cardinality(again)
  BY <1>1, <1>5, <1>6, <1>7
<1> QED
  BY <1>2, <1>8 DEF again

\* A session is read by one event source and one more for each error it reported while its
\* backoff timer was pending, and the canvas shows what was said of its own run, whatever the
\* order of errors, timers, reconciling and runs shown (stream_subscriber, PipelineCanvas).
THEOREM CanvasAgrees == VizSpec => []CanvasReadsItsRun
<1>1. VizInit => VizInv
  BY VizInvInit
<1>2. VizInv /\ [VizNext]_vizVars => VizInv'
  BY VizInvStep
<1>3. VizInv => CanvasReadsItsRun
  BY OneSourceFollows DEF VizInv, CanvasReadsItsRun
<1> QED
  BY <1>1, <1>2, <1>3, PTL DEF VizSpec

\* A subscriber that was disposed of opens no source and no socket any more, although timers
\* it does not know of still fire (dispose, the backoff timers of stream_subscriber).
THEOREM DisposedStaysQuiet == VizSpec => DisposedConnectsNothing
<1> DEFINE Quiet == ~Alive => Len(sources') = Len(sources) /\ Len(sockets') = Len(sockets)
<1>1. ASSUME VizInv, [VizNext]_vizVars PROVE Quiet
  <2> SUFFICES ASSUME subscriber.life = "disposed"
               PROVE  Len(sources') = Len(sources) /\ Len(sockets') = Len(sockets)
    BY DEF Alive
  <2>1. sources \in Seq(SourceRecords) /\ sockets \in Seq({"connecting", "open", "closed"})
    BY <1>1 DEF VizInv, VizTypes, Accounted
  <2>2. ~Alive
    BY DEF Alive
  <2>3. CASE StartSubscriber \/ DisposeSubscriber \/ Reconcile
    BY <2>3 DEF StartSubscriber, DisposeSubscriber, Reconcile
  <2>4. CASE SessionsChange \/ Rehydrate \/ (\E r \in PipelineRuns : ShowRun(r)) \/ UNCHANGED vizVars
    BY <2>4 DEF SessionsChange, Rehydrate, ShowRun, vizVars
  <2>5. ASSUME NEW i \in DOMAIN sources,
               \/ \E t \in MaTopics : SourceFrame(i, t)
               \/ SourceError(i)
        PROVE  FALSE
    BY <2>2, <2>5 DEF SourceFrame, SourceError
  <2>6. ASSUME NEW i \in DOMAIN sources, NEW last \in BOOLEAN, SourceTimer(i, last)
        PROVE  Len(sources') = Len(sources) /\ Len(sockets') = Len(sockets)
    <3>1. sources' = [sources EXCEPT ![i] = TimerSpent(sources[i], last)] /\ sockets' = sockets
      BY <2>2, <2>6 DEF SourceTimer
    <3> QED
      BY <2>1, <3>1
  <2>7. ASSUME NEW i \in DOMAIN sockets, SocketOpens(i)
        PROVE  Len(sources') = Len(sources) /\ Len(sockets') = Len(sockets)
    BY <2>1, <2>7 DEF SocketOpens
  <2>8. ASSUME NEW i \in DOMAIN sockets, NEW failed, SocketEnds(i, failed)
        PROVE  Len(sources') = Len(sources) /\ Len(sockets') = Len(sockets)
    BY <2>1, <2>8 DEF SocketEnds
  <2>9. ASSUME NEW i \in DOMAIN sockets, NEW n, SocketFrame(i, n, "step.completed") PROVE FALSE
    BY <2>2, <2>9 DEF SocketFrame
  <2>10. ASSUME NEW last, SocketTimer(last)
         PROVE  Len(sources') = Len(sources) /\ Len(sockets') = Len(sockets)
    BY <2>2, <2>10 DEF SocketTimer, SocketsAfterTimer
  <2> QED
    BY <1>1, <2>3, <2>4, <2>5, <2>6, <2>7, <2>8, <2>9, <2>10 DEF VizNext
<1>2. VizInv /\ [VizNext]_vizVars => [Quiet]_vizVars
  BY <1>1
<1> QED
  BY <1>2, VizInvInit, VizInvStep, PTL DEF VizSpec, DisposedConnectsNothing

-----------------------------------------------------------------------------
(* The predictions of a run.                                               *)

Severities == {"none", "advisory", "review_recommended", "halt_recommended"}
WarningRecords == [topic : Severities, scan : Nat, on : Specialists]
EntryRecords == [on : Specialists, score : Scores]
ScanRecords ==
  [kind : {"pre_execution", "re_simulation", "final"}, targets : SUBSET Specialists,
   phase : {"trigger", "start", "passes", "completing", "warning", "returned", "threw"},
   entries : SUBSET EntryRecords, degraded : SUBSET Specialists, left : SUBSET EntryRecords]

CassandraTypes ==
  /\ engine \in [known : BOOLEAN, completed : SUBSET Specialists, latest : Nat,
                 warnings : Seq(WarningRecords)]
  /\ scans \in Seq(ScanRecords)
  /\ untold \in SUBSET Nat

\* A scan has looked at the steps before those it has before it, at each once; and has told
\* the entries before those it has still to tell.
CrossingOf(s) == {e \in s.entries : e.score < THRESHOLD}
InStepOrder(s) ==
  /\ s.phase \in {"trigger", "start"} => s.entries = {} /\ s.degraded = {}
  /\ \A t \in s.targets : (\A e \in s.entries : e.on < t) /\ (\A d \in s.degraded : d < t)
  /\ \A e, f \in s.entries : e.on = f.on => e = f
  /\ s.left \subseteq CrossingOf(s)
  /\ \A e \in CrossingOf(s) \ s.left, f \in s.left : e.on < f.on
  /\ s.phase # "warning" => s.left = {}

\* What a scan has warned of so far: the entries it told and the passes that failed.
ToldOf(s) == IF s.phase \in {"warning", "returned"} THEN CrossingOf(s) \ s.left ELSE {}
WarningsOf(n, s) ==
  {Said("advisory", n, d) : d \in s.degraded} \union {Said(Severity(e.score), n, e.on) : e \in ToldOf(s)}
Remembered(n) == {engine.warnings[i] : i \in Warned(n)}
RememberedInOrder(n) ==
  \A i, j \in Warned(n) : i < j => Precedes(engine.warnings[i], engine.warnings[j])

WarningsInv ==
  /\ CassandraTypes /\ UntoldEndsItsScan
  /\ \A i \in DOMAIN engine.warnings : engine.warnings[i].scan \in DOMAIN scans
  /\ \A n \in DOMAIN scans : RememberedInOrder(n)
  /\ \A n \in DOMAIN scans : scans[n].phase # "threw" =>
       InStepOrder(scans[n]) /\ Remembered(n) = WarningsOf(n, scans[n])

LEMMA SeverityOfScore ==
  ASSUME NEW x \in Scores
  PROVE  /\ Severity(x) \in Severities \ {"advisory"}
         /\ Severity(x) # "none" <=> x < THRESHOLD
BY CassandraAssumption DEF Severity, Severities, THRESHOLD

\* A scan that begins has warned of nothing.
LEMMA BegunScanKeeps ==
  ASSUME WarningsInv, NEW s \in ScanRecords, s.entries = {}, s.degraded = {}, s.left = {},
         s.phase \in {"trigger", "start"}, scans' = Append(scans, s),
         engine' \in [known : BOOLEAN, completed : SUBSET Specialists, latest : Nat,
                      warnings : Seq(WarningRecords)],
         engine'.warnings = engine.warnings, untold' = untold
  PROVE  WarningsInv'
<1> DEFINE k == Len(scans) + 1
<1>1. scans \in Seq(ScanRecords) /\ Len(scans) \in Nat /\ DOMAIN scans = 1 .. Len(scans)
  BY DEF WarningsInv, CassandraTypes
<1>2. /\ scans' \in Seq(ScanRecords) /\ DOMAIN scans' = DOMAIN scans \union {k}
      /\ scans'[k] = s /\ \A n \in DOMAIN scans : scans'[n] = scans[n]
      /\ k \notin DOMAIN scans
  BY <1>1
<1>3. \A n : Warned(n)' = Warned(n)
  BY DEF Warned
<1>4. \A n : Remembered(n)' = Remembered(n) /\ (RememberedInOrder(n)' <=> RememberedInOrder(n))
  BY <1>3 DEF Remembered, RememberedInOrder
<1>5. Warned(k) = {}
  BY <1>2 DEF Warned, WarningsInv
<1>6. Remembered(k) = {} /\ RememberedInOrder(k)
  BY <1>5 DEF Remembered, RememberedInOrder
<1>7. InStepOrder(s) /\ WarningsOf(k, s) = {}
  BY DEF InStepOrder, CrossingOf, WarningsOf, ToldOf
<1>8. CassandraTypes' /\ UntoldEndsItsScan'
  <2>1. CassandraTypes'
    BY <1>2 DEF CassandraTypes, WarningsInv
  <2>2. UntoldEndsItsScan'
    BY <1>2, <1>3 DEF WarningsInv, UntoldEndsItsScan
  <2> QED
    BY <2>1, <2>2
<1>9. \A i \in DOMAIN engine'.warnings : engine'.warnings[i].scan \in DOMAIN scans'
  BY <1>2 DEF WarningsInv
<1>10. \A n \in DOMAIN scans' : RememberedInOrder(n)'
  BY <1>2, <1>4, <1>6 DEF WarningsInv
<1>11. ASSUME NEW n \in DOMAIN scans', scans'[n].phase # "threw"
       PROVE  InStepOrder(scans'[n]) /\ Remembered(n)' = WarningsOf(n, scans'[n])
  <2>1. CASE n = k
    BY <1>2, <1>4, <1>6, <1>7, <2>1
  <2>2. CASE n # k
    BY <1>2, <1>4, <1>11, <2>2 DEF WarningsInv
  <2> QED
    BY <2>1, <2>2
<1> QED
  BY <1>8, <1>9, <1>10, <1>11 DEF WarningsInv

\* A scan that moves without a warning, or throws.
LEMMA QuietStepKeeps ==
  ASSUME WarningsInv, NEW n \in DOMAIN scans, NEW s \in ScanRecords,
         scans' = [scans EXCEPT ![n] = s],
         engine' \in [known : BOOLEAN, completed : SUBSET Specialists, latest : Nat,
                      warnings : Seq(WarningRecords)],
         engine'.warnings = engine.warnings, untold' = untold,
         scans[n].phase # "threw",
         s.phase # "threw" => /\ InStepOrder(s)
                              /\ WarningsOf(n, s) = WarningsOf(n, scans[n])
  PROVE  WarningsInv'
<1>1. scans \in Seq(ScanRecords) /\ Len(scans) \in Nat /\ DOMAIN scans = 1 .. Len(scans)
  BY DEF WarningsInv, CassandraTypes
<1>2. /\ scans' \in Seq(ScanRecords) /\ DOMAIN scans' = DOMAIN scans
      /\ scans'[n] = s /\ \A m \in DOMAIN scans : m # n => scans'[m] = scans[m]
  BY <1>1
<1>3. \A m : Warned(m)' = Warned(m)
  BY DEF Warned
<1>4. \A m : Remembered(m)' = Remembered(m) /\ (RememberedInOrder(m)' <=> RememberedInOrder(m))
  BY <1>3 DEF Remembered, RememberedInOrder
<1>5. CassandraTypes' /\ UntoldEndsItsScan'
  <2>1. CassandraTypes'
    BY <1>2 DEF CassandraTypes, WarningsInv
  <2>2. ASSUME NEW i \in untold
        PROVE  /\ i \in DOMAIN engine.warnings
               /\ engine.warnings[i].scan # n /\ engine.warnings[i].scan \in DOMAIN scans
               /\ scans[engine.warnings[i].scan].phase = "threw"
               /\ \A j \in Warned(engine.warnings[i].scan) : j <= i
    BY DEF WarningsInv, UntoldEndsItsScan
  <2>3. UntoldEndsItsScan'
    BY <1>2, <1>3, <2>2 DEF UntoldEndsItsScan
  <2> QED
    BY <2>1, <2>3
<1>6. \A i \in DOMAIN engine'.warnings : engine'.warnings[i].scan \in DOMAIN scans'
  BY <1>2 DEF WarningsInv
<1>7. \A m \in DOMAIN scans' : RememberedInOrder(m)'
  BY <1>2, <1>4 DEF WarningsInv
<1>8. ASSUME NEW m \in DOMAIN scans', scans'[m].phase # "threw"
      PROVE  InStepOrder(scans'[m]) /\ Remembered(m)' = WarningsOf(m, scans'[m])
  <2>1. CASE m = n
    <3>1. Remembered(n) = WarningsOf(n, scans[n])
      BY <1>2, <1>8, <2>1 DEF WarningsInv
    <3> QED
      BY <1>2, <1>4, <1>8, <2>1, <3>1
  <2>2. CASE m # n
    BY <1>2, <1>4, <1>8, <2>2 DEF WarningsInv
  <2> QED
    BY <2>1, <2>2
<1> QED
  BY <1>5, <1>6, <1>7, <1>8 DEF WarningsInv

\* A scan that warns adds one to what it has warned of, after all of it.
LEMMA WarningStepKeeps ==
  ASSUME WarningsInv, NEW n \in DOMAIN scans, NEW s \in ScanRecords, NEW w \in WarningRecords,
         scans' = [scans EXCEPT ![n] = s], w.scan = n,
         engine' = [engine EXCEPT !.warnings = Append(@, w)],
         NEW arrived \in BOOLEAN,
         untold' = IF arrived THEN untold ELSE untold \union {Len(engine.warnings) + 1},
         ~arrived => s.phase = "threw",
         scans[n].phase # "threw",
         arrived => InStepOrder(s) /\ WarningsOf(n, s) = WarningsOf(n, scans[n]) \union {w},
         \A v \in WarningsOf(n, scans[n]) : Precedes(v, w)
  PROVE  WarningsInv'
<1> DEFINE ws == engine.warnings
           k == Len(ws) + 1
<1>1. scans \in Seq(ScanRecords) /\ Len(scans) \in Nat /\ DOMAIN scans = 1 .. Len(scans)
  BY DEF WarningsInv, CassandraTypes
<1>2. /\ scans' \in Seq(ScanRecords) /\ DOMAIN scans' = DOMAIN scans
      /\ scans'[n] = s /\ \A m \in DOMAIN scans : m # n => scans'[m] = scans[m]
  BY <1>1
<1>3. ws \in Seq(WarningRecords) /\ Len(ws) \in Nat /\ DOMAIN ws = 1 .. Len(ws)
  BY DEF WarningsInv, CassandraTypes
<1>4. engine'.warnings = Append(ws, w)
  BY DEF WarningsInv, CassandraTypes
<1>5. /\ engine'.warnings \in Seq(WarningRecords)
      /\ DOMAIN engine'.warnings = DOMAIN ws \union {k} /\ k \notin DOMAIN ws
      /\ engine'.warnings[k] = w /\ \A i \in DOMAIN ws : engine'.warnings[i] = ws[i] /\ i < k
  BY <1>3, <1>4
<1>6. CassandraTypes'
  <2>1. engine' \in [known : BOOLEAN, completed : SUBSET Specialists, latest : Nat,
                     warnings : Seq(WarningRecords)]
    BY <1>4, <1>5 DEF WarningsInv, CassandraTypes
  <2>2. untold' \in SUBSET Nat
    BY <1>3 DEF WarningsInv, CassandraTypes
  <2> QED
    BY <1>2, <2>1, <2>2 DEF CassandraTypes
<1>7. \A i \in DOMAIN engine'.warnings : engine'.warnings[i].scan \in DOMAIN scans'
  BY <1>2, <1>5 DEF WarningsInv
<1> HIDE DEF k
<1>8. Warned(n)' = Warned(n) \union {k}
  BY <1>5 DEF Warned
<1>9. \A m : m # n => Warned(m)' = Warned(m)
  BY <1>5 DEF Warned
<1>10. \A m : Warned(m) \subseteq DOMAIN ws
  BY DEF Warned
<1>11. Remembered(n)' = Remembered(n) \union {w}
  BY <1>5, <1>8, <1>10 DEF Remembered
<1>12. \A m : m # n => Remembered(m)' = Remembered(m)
  BY <1>5, <1>9, <1>10 DEF Remembered
<1>13. Remembered(n) = WarningsOf(n, scans[n])
  BY DEF WarningsInv
<1>14. ASSUME NEW m \in DOMAIN scans' PROVE RememberedInOrder(m)'
  <2>1. RememberedInOrder(m)
    BY <1>2 DEF WarningsInv
  <2>2. CASE m # n
    BY <1>5, <1>9, <1>10, <2>1, <2>2 DEF RememberedInOrder
  <2>3. CASE m = n
    <3> SUFFICES ASSUME NEW i \in Warned(n)', NEW j \in Warned(n)', i < j
                 PROVE  Precedes(engine'.warnings[i], engine'.warnings[j])
      BY <2>3 DEF RememberedInOrder
    <3>1. CASE j \in DOMAIN ws
      <4>1. i \in Warned(n) /\ j \in Warned(n)
        <5>1. j # k
          BY <1>5, <3>1
        <5>2. i # k
          BY <1>3, <1>5, <3>1 DEF k
        <5> QED
          BY <1>8, <5>1, <5>2
      <4> QED
        BY <1>5, <1>10, <2>1, <2>3, <4>1 DEF RememberedInOrder
    <3>2. CASE j = k
      <4>1. i \in Warned(n)
        BY <1>3, <1>8, <3>2 DEF k
      <4>2. ws[i] \in Remembered(n)
        BY <4>1 DEF Remembered
      <4> QED
        BY <1>5, <1>10, <1>13, <3>2, <4>1, <4>2
    <3> QED
      BY <1>8, <1>10, <3>1, <3>2
  <2> QED
    BY <2>2, <2>3
<1>15. ASSUME NEW m \in DOMAIN scans', scans'[m].phase # "threw"
       PROVE  InStepOrder(scans'[m]) /\ Remembered(m)' = WarningsOf(m, scans'[m])
  <2>1. CASE m = n
    BY <1>2, <1>11, <1>13, <1>15, <2>1
  <2>2. CASE m # n
    BY <1>2, <1>12, <1>15, <2>2 DEF WarningsInv
  <2> QED
    BY <2>1, <2>2
<1>16. UntoldEndsItsScan'
  <2>1. ASSUME NEW i \in untold
        PROVE  /\ i \in DOMAIN ws /\ ws[i].scan # n /\ ws[i].scan \in DOMAIN scans
               /\ scans[ws[i].scan].phase = "threw"
               /\ \A j \in Warned(ws[i].scan) : j <= i
    BY DEF WarningsInv, UntoldEndsItsScan
  <2>2. ASSUME NEW i \in untold
        PROVE  /\ i \in DOMAIN engine'.warnings
               /\ scans'[engine'.warnings[i].scan].phase = "threw"
               /\ \A j \in DOMAIN engine'.warnings :
                    engine'.warnings[j].scan = engine'.warnings[i].scan => j <= i
    <3>1. \A j \in DOMAIN ws : ws[j].scan = ws[i].scan => j <= i
      BY <2>1 DEF Warned
    <3> QED
      BY <1>2, <1>5, <2>1, <3>1
  <2>3. ~arrived => /\ k \in DOMAIN engine'.warnings
                    /\ scans'[engine'.warnings[k].scan].phase = "threw"
                    /\ \A j \in DOMAIN engine'.warnings : j <= k
    <3>1. engine'.warnings[k].scan = n /\ k \in Nat
      BY <1>3, <1>5 DEF k
    <3>2. \A j \in DOMAIN engine'.warnings : j <= k
      BY <1>3, <1>5, <3>1
    <3> QED
      BY <1>2, <1>5, <3>1, <3>2
  <2>4. untold' = IF arrived THEN untold ELSE untold \union {k}
    BY DEF k
  <2> QED
    BY <2>2, <2>3, <2>4 DEF UntoldEndsItsScan, Warned
<1> QED
  BY <1>6, <1>7, <1>14, <1>15, <1>16 DEF WarningsInv

LEMMA WarningsInvInit == CassandraInit => WarningsInv
BY DEF CassandraInit, WarningsInv, CassandraTypes, UntoldEndsItsScan, NoScan, Warned

LEMMA WarningsInvStep == WarningsInv /\ [CassandraNext]_cassandraVars => WarningsInv'
<1> SUFFICES ASSUME WarningsInv, [CassandraNext]_cassandraVars PROVE WarningsInv'
  OBVIOUS
<1>1. /\ scans \in Seq(ScanRecords)
      /\ engine \in [known : BOOLEAN, completed : SUBSET Specialists, latest : Nat,
                     warnings : Seq(WarningRecords)]
  BY DEF WarningsInv, CassandraTypes
<1>2. \A n \in DOMAIN scans : n \in Nat /\ scans[n] \in ScanRecords
  BY <1>1
<1>3. ASSUME NEW kind \in {"pre_execution", "re_simulation", "final"},
             NEW targets \in SUBSET Specialists, NEW phase \in {"trigger", "start"},
             Begin(kind, targets, phase), UNCHANGED untold,
             NEW done \in SUBSET Specialists, NEW known \in BOOLEAN,
             engine' = [engine EXCEPT !.known = known, !.completed = done]
      PROVE  WarningsInv'
  <2> DEFINE s == [kind |-> kind, targets |-> targets, phase |-> phase,
                   entries |-> {}, degraded |-> {}, left |-> {}]
  <2>1. s \in ScanRecords
    BY DEF ScanRecords
  <2>2. /\ s.entries = {} /\ s.degraded = {} /\ s.left = {} /\ s.phase \in {"trigger", "start"}
        /\ scans' = Append(scans, s)
    BY <1>3 DEF Begin
  <2>3. /\ engine' \in [known : BOOLEAN, completed : SUBSET Specialists, latest : Nat,
                        warnings : Seq(WarningRecords)]
        /\ engine'.warnings = engine.warnings
    BY <1>1, <1>3
  <2> HIDE DEF s
  <2> QED
    BY <1>3, <2>1, <2>2, <2>3, BegunScanKeeps
<1>4. CASE RunPreExecutionScan
  <2>1. engine' = [engine EXCEPT !.known = TRUE, !.completed = {}]
    BY <1>4 DEF RunPreExecutionScan
  <2> QED
    BY <1>3, <1>4, <2>1 DEF RunPreExecutionScan
<1>5. ASSUME NEW p \in Specialists, ReSimulate(p) PROVE WarningsInv'
  <2> DEFINE done == engine.completed \union {p}
             remaining == Specialists \ done
             kind == IF remaining = {} THEN "final" ELSE "re_simulation"
             targets == IF remaining = {} THEN Specialists ELSE remaining
             phase == IF engine.latest = NoScan THEN "start" ELSE "trigger"
  <2>1. done \in SUBSET Specialists /\ engine.known \in BOOLEAN
    BY <1>1
  <2>2. /\ kind \in {"pre_execution", "re_simulation", "final"}
        /\ targets \in SUBSET Specialists /\ phase \in {"trigger", "start"}
    OBVIOUS
  <2>3. /\ engine' = [engine EXCEPT !.known = engine.known, !.completed = done]
        /\ Begin(kind, targets, phase) /\ UNCHANGED untold
    BY <1>1, <1>5 DEF ReSimulate
  <2> HIDE DEF done, kind, targets, phase
  <2> QED
    BY <1>3, <2>1, <2>2, <2>3
<1>6. ASSUME NEW n \in DOMAIN scans, NEW s \in ScanRecords, scans' = [scans EXCEPT ![n] = s],
             engine' = engine, untold' = untold, scans[n].phase # "threw",
             s.phase # "threw" => /\ InStepOrder(s)
                                  /\ WarningsOf(n, s) = WarningsOf(n, scans[n])
      PROVE  WarningsInv'
  BY <1>1, <1>6, QuietStepKeeps
<1>7. ASSUME NEW n \in DOMAIN scans, ScanStarts(n) PROVE WarningsInv'
  <2> DEFINE s == [scans[n] EXCEPT !.phase = IF @ = "trigger" THEN "start" ELSE "passes"]
  <2>1. s \in ScanRecords
    BY <1>2 DEF ScanRecords
  <2>2. InStepOrder(scans[n]) /\ scans[n].phase \in {"trigger", "start"}
    BY <1>7 DEF ScanStarts, WarningsInv
  <2>3. /\ s.entries = scans[n].entries /\ s.degraded = scans[n].degraded
        /\ s.left = scans[n].left /\ s.targets = scans[n].targets
        /\ s.phase \in {"start", "passes"}
    BY <1>2, <2>2 DEF ScanRecords
  <2>4. /\ scans' = [scans EXCEPT ![n] = s] /\ engine' = engine /\ untold' = untold
    BY <1>7 DEF ScanStarts
  <2> HIDE DEF s
  <2>5. InStepOrder(s)
    BY <2>2, <2>3 DEF InStepOrder, CrossingOf
  <2>6. WarningsOf(n, s) = WarningsOf(n, scans[n])
    BY <2>2, <2>3 DEF WarningsOf, ToldOf
  <2> QED
    BY <1>6, <2>1, <2>2, <2>4, <2>5, <2>6
<1>8. ASSUME NEW n \in DOMAIN scans, NEW p \in Specialists, PassesDone(n, p) PROVE WarningsInv'
  <2>1. PICK outcome \in Outcomes, arrived \in BOOLEAN :
          /\ arrived \/ MostlyFailed(outcome[1])
          /\ scans' = [scans EXCEPT
               ![n].phase = After(arrived, @),
               ![n].targets = @ \ {p},
               ![n].entries = @ \union Entry(p, outcome),
               ![n].degraded = IF MostlyFailed(outcome[1]) THEN @ \union {p} ELSE @]
          /\ IF MostlyFailed(outcome[1]) THEN EmitEarlyWarning(n, p, "advisory", arrived)
             ELSE UNCHANGED <<engine, untold>>
    BY <1>8 DEF PassesDone
  <2> DEFINE old == scans[n]
             es == old.entries \union Entry(p, outcome)
             ds == IF MostlyFailed(outcome[1]) THEN old.degraded \union {p} ELSE old.degraded
             s == [old EXCEPT !.phase = After(arrived, @), !.targets = @ \ {p}, !.entries = es,
                              !.degraded = ds]
  <2>2. /\ old.phase = "passes" /\ p \in old.targets /\ \A r \in old.targets : p <= r
        /\ InStepOrder(old) /\ old \in ScanRecords
    BY <1>2, <1>8 DEF PassesDone, WarningsInv
  <2>3. Entry(p, outcome) \subseteq EntryRecords /\ \A e \in Entry(p, outcome) : e.on = p
    BY DEF Entry, EntryRecords, Outcomes
  <2>4. es \in SUBSET EntryRecords /\ ds \in SUBSET Specialists
    BY <2>2, <2>3 DEF ScanRecords
  <2>5. scans' = [scans EXCEPT ![n] = s]
    BY <2>1
  <2>6. /\ s \in ScanRecords /\ s.entries = es /\ s.degraded = ds /\ s.left = old.left
        /\ s.targets = old.targets \ {p} /\ s.phase = (IF arrived THEN "passes" ELSE "threw")
    BY <2>2, <2>4 DEF ScanRecords, After
  <2>7. /\ old.targets \subseteq Nat /\ \A e \in es : e.on \in Nat
        /\ \A d \in ds : d \in Nat
    BY <2>2, <2>4 DEF ScanRecords, EntryRecords, Specialists
  <2>8. \A t \in old.targets \ {p} : p < t
    BY <2>2, <2>7
  <2>9. /\ \A e \in old.entries : e.on < p
        /\ \A d \in old.degraded : d < p
        /\ \A e, f \in old.entries : e.on = f.on => e = f
    BY <2>2 DEF InStepOrder
  <2>10. old.left = {}
    BY <2>2 DEF InStepOrder
  <2> HIDE DEF s
  <2>11. InStepOrder(s)
    <3>1. \A t \in s.targets : (\A e \in s.entries : e.on < t) /\ (\A d \in s.degraded : d < t)
      <4> SUFFICES ASSUME NEW t \in old.targets \ {p}
                   PROVE  (\A e \in es : e.on < t) /\ (\A d \in ds : d < t)
        BY <2>6
      <4>1. p < t /\ t \in Nat /\ p \in Nat
        BY <2>2, <2>7, <2>8
      <4>2. ASSUME NEW e \in es PROVE e.on < t
        <5>1. e.on \in Nat /\ e.on <= p
          BY <2>3, <2>7, <2>9, <4>1
        <5> QED
          BY <4>1, <5>1
      <4>3. ASSUME NEW d \in ds PROVE d < t
        <5>1. d \in Nat /\ d <= p
          BY <2>7, <2>9, <4>1
        <5> QED
          BY <4>1, <5>1
      <4> QED
        BY <4>2, <4>3
    <3>2. \A e, f \in s.entries : e.on = f.on => e = f
      BY <2>3, <2>6, <2>7, <2>9 DEF Entry
    <3> QED
      BY <2>6, <2>10, <3>1, <3>2 DEF InStepOrder
  <2>12. CASE MostlyFailed(outcome[1])
    <3> DEFINE w == Said("advisory", n, p)
    <3>1. w \in WarningRecords /\ w.scan = n
      BY <1>2 DEF Said, WarningRecords, Severities
    <3>2. /\ engine' = [engine EXCEPT !.warnings = Append(@, w)]
          /\ untold' = IF arrived THEN untold ELSE untold \union {Len(engine.warnings) + 1}
      BY <2>1, <2>12 DEF EmitEarlyWarning
    <3>3. arrived => WarningsOf(n, s) = WarningsOf(n, old) \union {w}
      BY <2>2, <2>6, <2>12 DEF WarningsOf, ToldOf
    <3>4. \A v \in WarningsOf(n, old) : Precedes(v, w)
      BY <2>2, <2>9 DEF WarningsOf, ToldOf, Said, Precedes
    <3> HIDE DEF w
    <3> QED
      BY <2>2, <2>5, <2>6, <2>11, <3>1, <3>2, <3>3, <3>4, WarningStepKeeps
  <2>13. CASE ~MostlyFailed(outcome[1])
    <3>1. engine' = engine /\ untold' = untold /\ arrived
      BY <2>1, <2>13
    <3>2. WarningsOf(n, s) = WarningsOf(n, old)
      BY <2>2, <2>6, <2>13, <3>1 DEF WarningsOf, ToldOf
    <3> QED
      BY <1>6, <2>2, <2>5, <2>6, <2>11, <3>1, <3>2
  <2> QED
    BY <2>12, <2>13
<1>9. ASSUME NEW n \in DOMAIN scans, Aggregated(n) PROVE WarningsInv'
  <2> DEFINE s == [scans[n] EXCEPT !.phase = "completing"]
  <2>1. s \in ScanRecords
    BY <1>2 DEF ScanRecords
  <2>2. InStepOrder(scans[n]) /\ scans[n].phase = "passes"
    BY <1>9 DEF Aggregated, WarningsInv
  <2>3. /\ s.entries = scans[n].entries /\ s.degraded = scans[n].degraded
        /\ s.left = scans[n].left /\ s.targets = scans[n].targets
        /\ s.phase = "completing"
    BY <1>2 DEF ScanRecords
  <2>4. scans' = [scans EXCEPT ![n] = s] /\ untold' = untold
    BY <1>9 DEF Aggregated
  <2>5. /\ engine' \in [known : BOOLEAN, completed : SUBSET Specialists, latest : Nat,
                        warnings : Seq(WarningRecords)]
        /\ engine'.warnings = engine.warnings
    BY <1>1, <1>2, <1>9 DEF Aggregated
  <2> HIDE DEF s
  <2>6. InStepOrder(s)
    BY <2>2, <2>3 DEF InStepOrder, CrossingOf
  <2>7. WarningsOf(n, s) = WarningsOf(n, scans[n])
    BY <2>2, <2>3 DEF WarningsOf, ToldOf
  <2> QED
    BY <2>1, <2>2, <2>4, <2>5, <2>6, <2>7, QuietStepKeeps
<1>10. ASSUME NEW n \in DOMAIN scans, ScanCompleted(n) PROVE WarningsInv'
  <2> DEFINE s == [scans[n] EXCEPT !.phase = "warning", !.left = Crossing(n)]
  <2>1. InStepOrder(scans[n]) /\ scans[n].phase = "completing" /\ scans[n] \in ScanRecords
    BY <1>2, <1>10 DEF ScanCompleted, WarningsInv
  <2>2. Crossing(n) = CrossingOf(scans[n])
    <3>1. \A e \in scans[n].entries : Severity(e.score) # "none" <=> e.score < THRESHOLD
      BY <2>1, SeverityOfScore DEF ScanRecords, EntryRecords
    <3> QED
      BY <3>1 DEF Crossing, MapOf, CrossingOf
  <2>3. s \in ScanRecords
    BY <2>1, <2>2 DEF ScanRecords, CrossingOf
  <2>4. /\ s.entries = scans[n].entries /\ s.degraded = scans[n].degraded
        /\ s.left = CrossingOf(scans[n]) /\ s.targets = scans[n].targets
        /\ s.phase = "warning"
    BY <2>1, <2>2 DEF ScanRecords
  <2>5. scans' = [scans EXCEPT ![n] = s] /\ engine' = engine /\ untold' = untold
    BY <1>10 DEF ScanCompleted
  <2> HIDE DEF s
  <2>6. InStepOrder(s)
    BY <2>1, <2>4 DEF InStepOrder, CrossingOf
  <2>7. WarningsOf(n, s) = WarningsOf(n, scans[n])
    BY <2>1, <2>4 DEF WarningsOf, ToldOf, CrossingOf
  <2> QED
    BY <1>6, <2>1, <2>3, <2>5, <2>6, <2>7
<1>11. ASSUME NEW n \in DOMAIN scans, NEW e \in scans[n].left, NEW arrived \in BOOLEAN,
              IssueThresholdWarning(n, e, arrived)
       PROVE  WarningsInv'
  <2> DEFINE old == scans[n]
             s == [old EXCEPT !.left = @ \ {e}, !.phase = After(arrived, @)]
             w == Said(Severity(e.score), n, e.on)
  <2>1. /\ old.phase = "warning" /\ \A f \in old.left : e.on <= f.on
        /\ InStepOrder(old) /\ old \in ScanRecords
    BY <1>2, <1>11 DEF IssueThresholdWarning, WarningsInv
  <2>2. /\ s \in ScanRecords /\ s.entries = old.entries /\ s.degraded = old.degraded
        /\ s.left = old.left \ {e} /\ s.targets = old.targets
        /\ s.phase = (IF arrived THEN "warning" ELSE "threw")
    BY <2>1 DEF ScanRecords, After
  <2>3. e \in CrossingOf(old) /\ e \in EntryRecords /\ \A f \in CrossingOf(old) : f \in EntryRecords
    BY <2>1 DEF InStepOrder, CrossingOf, ScanRecords
  <2>4. Severity(e.score) \in Severities \ {"advisory"}
    BY <2>3, SeverityOfScore DEF EntryRecords
  <2>5. w \in WarningRecords /\ w.scan = n
    BY <1>2, <2>3, <2>4 DEF Said, WarningRecords, EntryRecords
  <2>6. /\ scans' = [scans EXCEPT ![n] = s]
        /\ engine' = [engine EXCEPT !.warnings = Append(@, w)]
        /\ untold' = IF arrived THEN untold ELSE untold \union {Len(engine.warnings) + 1}
    BY <1>11 DEF IssueThresholdWarning, EmitEarlyWarning
  <2>7. arrived => ToldOf(s) = ToldOf(old) \union {e}
    BY <2>1, <2>2, <2>3 DEF ToldOf, CrossingOf
  <2>8. arrived => WarningsOf(n, s) = WarningsOf(n, old) \union {w}
    BY <2>2, <2>7 DEF WarningsOf
  <2>9. \A f \in ToldOf(old) : f.on < e.on /\ Severity(f.score) # "advisory"
    <3>1. \A f \in CrossingOf(old) : Severity(f.score) # "advisory"
      BY <2>3, SeverityOfScore DEF EntryRecords
    <3> QED
      BY <2>1, <3>1 DEF ToldOf, InStepOrder
  <2>10. \A v \in WarningsOf(n, old) : Precedes(v, w)
    BY <2>4, <2>9 DEF WarningsOf, Said, Precedes
  <2> HIDE DEF s, w
  <2>11. arrived => InStepOrder(s)
    <3>1. CrossingOf(s) = CrossingOf(old)
      BY <2>2 DEF CrossingOf
    <3>2. \A f \in old.left \ {e} : e.on < f.on
      <4> SUFFICES ASSUME NEW f \in old.left \ {e} PROVE e.on < f.on
        OBVIOUS
      <4>1. f \in old.entries /\ e \in old.entries /\ f # e /\ f \in EntryRecords
        BY <2>1, <2>3 DEF InStepOrder, CrossingOf
      <4>2. f.on # e.on
        BY <2>1, <4>1 DEF InStepOrder
      <4> QED
        BY <2>1, <2>3, <4>1, <4>2 DEF EntryRecords, Specialists
    <3>3. \A g \in CrossingOf(s) \ s.left, f \in s.left : g.on < f.on
      BY <2>1, <2>2, <3>1, <3>2 DEF InStepOrder
    <3> QED
      BY <2>1, <2>2, <3>1, <3>3 DEF InStepOrder
  <2> QED
    BY <2>1, <2>2, <2>5, <2>6, <2>8, <2>10, <2>11, WarningStepKeeps
<1>12. ASSUME NEW n \in DOMAIN scans, ScanReturns(n) PROVE WarningsInv'
  <2> DEFINE s == [scans[n] EXCEPT !.phase = "returned"]
  <2>1. s \in ScanRecords
    BY <1>2 DEF ScanRecords
  <2>2. InStepOrder(scans[n]) /\ scans[n].phase = "warning" /\ scans[n].left = {}
    BY <1>12 DEF ScanReturns, WarningsInv
  <2>3. /\ s.entries = scans[n].entries /\ s.degraded = scans[n].degraded
        /\ s.left = scans[n].left /\ s.targets = scans[n].targets /\ s.phase = "returned"
    BY <1>2 DEF ScanRecords
  <2>4. scans' = [scans EXCEPT ![n] = s] /\ engine' = engine /\ untold' = untold
    BY <1>12 DEF ScanReturns
  <2> HIDE DEF s
  <2>5. InStepOrder(s)
    BY <2>2, <2>3 DEF InStepOrder, CrossingOf
  <2>6. WarningsOf(n, s) = WarningsOf(n, scans[n])
    BY <2>2, <2>3 DEF WarningsOf, ToldOf, CrossingOf
  <2> QED
    BY <1>6, <2>1, <2>2, <2>4, <2>5, <2>6
<1>13. ASSUME NEW n \in DOMAIN scans, PublishRejects(n) PROVE WarningsInv'
  <2> DEFINE s == [scans[n] EXCEPT !.phase = "threw"]
  <2>1. s \in ScanRecords /\ s.phase = "threw"
    BY <1>2 DEF ScanRecords
  <2>2. scans' = [scans EXCEPT ![n] = s] /\ engine' = engine /\ untold' = untold
        /\ scans[n].phase # "threw"
    BY <1>13 DEF PublishRejects
  <2> HIDE DEF s
  <2> QED
    BY <1>6, <2>1, <2>2
<1>14. CASE UNCHANGED cassandraVars
  BY <1>14 DEF cassandraVars, WarningsInv, CassandraTypes, UntoldEndsItsScan, Warned,
               Remembered, RememberedInOrder
<1> QED
  BY <1>4, <1>5, <1>7, <1>8, <1>9, <1>10, <1>11, <1>12, <1>13, <1>14 DEF CassandraNext

\* What is remembered of a run was told, but for the last warning of a scan that threw, and a
\* scan that returned warned of each step whose passes mostly failed and of each entry below
\* the threshold, once, in the order of the steps: for any topology, any scores and any
\* number of scans that interleave (CassandraPredictionEngine).
THEOREM WarningsAgree == CassandraSpec => []WarningsToldOnce
<1>1. WarningsInv => WarningsToldOnce
  <2> SUFFICES ASSUME WarningsInv, NEW n \in DOMAIN scans, scans[n].phase = "returned"
               PROVE  /\ {engine.warnings[i] : i \in Warned(n)}
                           = {Said("advisory", n, s) : s \in scans[n].degraded}
                               \union {Said(Severity(e.score), n, e.on) :
                                         e \in {x \in scans[n].entries : x.score < THRESHOLD}}
                      /\ \A i, j \in Warned(n) :
                           i < j => Precedes(engine.warnings[i], engine.warnings[j])
    BY DEF WarningsInv, WarningsToldOnce, ReturnedScanWarnedOnce
  <2>1. InStepOrder(scans[n]) /\ Remembered(n) = WarningsOf(n, scans[n]) /\ RememberedInOrder(n)
    BY DEF WarningsInv
  <2>2. ToldOf(scans[n]) = {x \in scans[n].entries : x.score < THRESHOLD}
    BY <2>1 DEF ToldOf, CrossingOf, InStepOrder
  <2> QED
    BY <2>1, <2>2 DEF Remembered, RememberedInOrder, WarningsOf
<1> QED
  BY <1>1, WarningsInvInit, WarningsInvStep, PTL DEF CassandraSpec
=============================================================================
