------------------------------- MODULE Browse --------------------------------
(***************************************************************************)
(* /marketplace: BrowseCanvas with its sidebar and its lists. The filter   *)
(* and the sort belong to the page, the chosen vendors to the canvas; each *)
(* change of them asks the catalogue again, and the rows come later.       *)
(***************************************************************************)
EXTENDS Integers, Sequences, FiniteSets, SequencesExt

CONSTANTS Listings,      \* the catalogue
          TagsOf(_), VendorOf(_), TierOf(_),
          TrustOf(_),    \* trustById of the creator
          UpdatedAt(_),  \* updated_at, as a number
          CuratedIds,    \* CURATED_FEATURED_IDS, a sequence
          Tags, Vendors, PriceTiers,
          Anything,      \* undefined
          NAV_VISIBLE,   \* INITIAL_VISIBLE_COUNT, 6 in the code
          CHOICES        \* bound: user choices in one behaviour

ASSUME BrowseAssumption ==
  /\ Anything \notin Tags \union Vendors \union PriceTiers
  /\ IsFiniteSet(Tags) /\ IsFiniteSet(Vendors)
  /\ ToSet(CuratedIds) \subseteq Listings /\ NAV_VISIBLE \in Nat \ {0} /\ CHOICES \in Nat

VARIABLES filter,    \* the page's filter
          sort,      \* the page's sort, and the user's pick since the latch
          vendors,   \* selectedVendors
          latched,   \* hasFilteredRef
          fetches,   \* listByExtended calls in flight and whether cleaned up
          rows,      \* visibleListings, and error, which hides them for good
          sidebar,   \* CategoryNav: expanded, and the entry with the focus
          choices    \* bound

browseVars == <<filter, sort, vendors, latched, fetches, rows, sidebar, choices>>

SortKinds == {"curator_picked", "trust_weighted", "recent", "popular"}
NoFilter == [tag |-> Anything, vendor |-> Anything, tier |-> Anything]

----------------------------------------------------------------------------
(* The catalogue.                                                          *)

MatchesFilter(l, key) ==
  /\ key.tag = Anything \/ key.tag \in TagsOf(l)
  /\ key.vendors = {} \/ VendorOf(l) \in key.vendors
  /\ key.tier = Anything \/ TierOf(l) = key.tier

ByTrust(l, k) ==
  \/ TrustOf(l) > TrustOf(k)
  \/ TrustOf(l) = TrustOf(k) /\ UpdatedAt(l) > UpdatedAt(k)
CuratedAt(l) == CHOOSE i \in DOMAIN CuratedIds : CuratedIds[i] = l
Curated(l) == l \in ToSet(CuratedIds)

\* listByExtended's comparators: 'popular' is sorted by trust as well.
ComesBefore(kind, l, k) ==
  CASE kind = "recent" -> UpdatedAt(l) > UpdatedAt(k)
    [] kind = "curator_picked" /\ (Curated(l) \/ Curated(k)) ->
         Curated(l) /\ (Curated(k) => CuratedAt(l) < CuratedAt(k))
    [] OTHER -> ByTrust(l, k)

ListBy(key) ==
  SetToSortSeq({l \in Listings : MatchesFilter(l, key)},
               LAMBDA l, k : ComesBefore(key.sort, l, k))

----------------------------------------------------------------------------
(* What a change of filter, vendors or sort does.                          *)

KeyOf(f, vs, kind) == [tag |-> f.tag, tier |-> f.tier, vendors |-> vs, sort |-> kind]

\* The listing effect depends on the tag, the tier, the vendors and the sort.
Refetch(f, vs, kind) ==
  IF KeyOf(f, vs, kind) = KeyOf(filter, vendors, sort.kind) THEN UNCHANGED fetches
  ELSE fetches' = {[c EXCEPT !.live = FALSE] : c \in fetches}
                    \union {[key |-> KeyOf(f, vs, kind), live |-> TRUE]}

\* maybeSwitchDefaultSort: on the first filter only, and only from the default.
SwitchedSort ==
  IF ~latched /\ sort.kind = "curator_picked" THEN "trust_weighted" ELSE sort.kind

Choose == choices < CHOICES /\ choices' = choices + 1

Filter(f, vs) ==
  /\ Choose
  /\ filter' = f /\ vendors' = vs
  /\ latched' = TRUE
  /\ sort' = [sort EXCEPT !.kind = SwitchedSort]
  /\ Refetch(f, vs, SwitchedSort)
  /\ UNCHANGED <<rows, sidebar>>

HandleTagSelect(t) == Filter([filter EXCEPT !.tag = t], vendors)
HandlePricingSelect(p) == Filter([filter EXCEPT !.tier = p], vendors)

\* One vendor chosen is the page's vendor; none or several are not.
SoleVendor(v, vs) == IF Cardinality(vs) = 1 THEN CHOOSE w \in vs : TRUE ELSE Anything
HandleVendorToggle(v) ==
  LET vs == IF v \in vendors THEN vendors \ {v} ELSE vendors \union {v}
  IN Filter([filter EXCEPT !.vendor = SoleVendor(v, vs)], vs)

\* Clear all keeps the latch: the default sort comes back and stays.
HandleClearAll ==
  /\ Choose
  /\ filter # NoFilter \/ vendors # {} \/ sort.kind # "curator_picked"
  /\ filter' = NoFilter /\ vendors' = {}
  /\ sort' = [kind |-> "curator_picked", picked |-> Anything]
  /\ Refetch(NoFilter, {}, "curator_picked")
  /\ UNCHANGED <<latched, rows, sidebar>>

HandleSortChange(kind) ==
  /\ Choose
  /\ kind # sort.kind
  /\ sort' = [kind |-> kind, picked |-> IF latched THEN kind ELSE Anything]
  /\ Refetch(filter, vendors, kind)
  /\ UNCHANGED <<filter, vendors, latched, rows, sidebar>>

\* The rows arrive, or the call fails; a cleaned-up effect drops either.
TakenAnyway(c) == TRUE
Taken(c) == c.live
RowsArrive(c) ==
  /\ fetches' = fetches \ {c}
  /\ rows' = IF Taken(c) THEN [rows EXCEPT !.list = ListBy(c.key)] ELSE rows
  /\ UNCHANGED <<filter, sort, vendors, latched, sidebar, choices>>

RowsFail(c) == \* setError; nothing but another mount takes it back
  /\ fetches' = fetches \ {c}
  /\ rows' = IF Taken(c) THEN [rows EXCEPT !.error = TRUE] ELSE rows
  /\ UNCHANGED <<filter, sort, vendors, latched, sidebar, choices>>

----------------------------------------------------------------------------
(* The category list: the All entry, then the tags that have listings.     *)

ShownTags ==
  LET counted == Cardinality({t \in Tags : \E l \in Listings : t \in TagsOf(l)})
  IN IF sidebar.expanded \/ counted < NAV_VISIBLE THEN counted ELSE NAV_VISIBLE

NextEntry(i) == (i + 1) % (ShownTags + 1)
NextFocus(i) == NextEntry(i)
FocusMoves(to) ==
  /\ sidebar.focus # -1
  /\ sidebar' = [sidebar EXCEPT !.focus =
       CASE to = "down" -> NextFocus(sidebar.focus)
         [] to = "up"   -> (sidebar.focus + ShownTags) % (ShownTags + 1)
         [] to = "home" -> 0
         [] OTHER       -> ShownTags]
  /\ UNCHANGED <<filter, sort, vendors, latched, fetches, rows, choices>>

FocusEntry(i) ==
  /\ sidebar' = [sidebar EXCEPT !.focus = i]
  /\ UNCHANGED <<filter, sort, vendors, latched, fetches, rows, choices>>

\* The toggle takes the focus from the list.
ToggleExpanded ==
  /\ sidebar' = [expanded |-> ~sidebar.expanded, focus |-> -1]
  /\ UNCHANGED <<filter, sort, vendors, latched, fetches, rows, choices>>

BrowseInit ==
  /\ filter = NoFilter /\ vendors = {} /\ latched = FALSE /\ choices = 0
  /\ sort = [kind |-> "curator_picked", picked |-> Anything]
  /\ fetches = {[key |-> KeyOf(NoFilter, {}, "curator_picked"), live |-> TRUE]}
  /\ rows = [list |-> <<>>, error |-> FALSE]
  /\ sidebar = [expanded |-> FALSE, focus |-> -1]

BrowseNext ==
  \/ \E t \in Tags \union {Anything} : HandleTagSelect(t)
  \/ \E p \in PriceTiers \union {Anything} : HandlePricingSelect(p)
  \/ \E v \in Vendors : HandleVendorToggle(v)
  \/ HandleClearAll
  \/ \E kind \in SortKinds : HandleSortChange(kind)
  \/ \E c \in fetches : RowsArrive(c) \/ RowsFail(c)
  \/ \E to \in {"down", "up", "home", "end"} : FocusMoves(to)
  \/ \E i \in 0..ShownTags : FocusEntry(i)
  \/ ToggleExpanded

BrowseSpec == BrowseInit /\ [][BrowseNext]_browseVars

----------------------------------------------------------------------------
(* Properties.                                                             *)

\* However the rows of several choices overtake each other, the list ends with
\* the rows of the choices on the screen, or the page says that it has none.
RowsAreOfTheChoices ==
  (\A c \in fetches : ~c.live) /\ ~rows.error => rows.list = ListBy(KeyOf(filter, vendors, sort.kind))

\* The page's single vendor and the canvas's chosen vendors agree: one vendor
\* chosen is the page's, and none or several leave it empty.
PageKnowsTheVendor ==
  IF Cardinality(vendors) = 1 THEN filter.vendor \in vendors ELSE filter.vendor = Anything

\* "After the first transition the ref latches so an explicit user sort pick is
\* never overwritten by a subsequent filter change" (BrowseCanvas.tsx:269-270).
PickedSortStays == sort.picked # Anything => sort.kind = sort.picked

\* The arrow keys walk over the entries that are shown, and wrap.
FocusOnAnEntry == sidebar.focus \in -1..ShownTags
=============================================================================
