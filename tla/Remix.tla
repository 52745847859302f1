-------------------------------- MODULE Remix --------------------------------
(***************************************************************************)
(* The ranked result list of the marketplace and the customize chat it     *)
(* opens: SimpleSearchRanker, ResultList with its pages, and               *)
(* LivingTemplateChat, which resolves a listing, collects its parameters   *)
(* and sends a remix request. No page mounts them yet: what the parent     *)
(* does (searching, mounting, showing another listing) is modelled from    *)
(* their props.                                                            *)
(***************************************************************************)
EXTENDS Integers, Sequences, FiniteSets, SequencesExt

CONSTANTS Catalog,      \* listings
          Asked,        \* queries the parent may rank for
          Score(_, _),  \* the weighted score of a listing for a query
          Recency(_),   \* recency_normalized
          Order(_),     \* place of the listing id in localeCompare order
          Parametric,   \* listings with living template parameters
          PAGE_SIZE,    \* 20 in the code
          CHATS,        \* bound: chats opened or shown another listing
          SENDS         \* bound: remix requests

ASSUME RemixAssumption ==
  /\ Parametric \subseteq Catalog /\ PAGE_SIZE \in Nat \ {0} /\ CHATS \in Nat /\ SENDS \in Nat
  /\ \A l, k \in Catalog : Order(l) = Order(k) => l = k
  /\ IsFiniteSet(Catalog) /\ "none" \notin Catalog

VARIABLES items,     \* the ranked items ResultList is given
          atPage,    \* ResultList's page state
          chat,      \* LivingTemplateChat
          resolves,  \* resolveListing calls and whether their effect was cleaned up
          remixes,   \* onRemixRequest calls in flight
          turn,      \* history: chats so far, the one mounted last
          sent       \* remix requests so far

remixVars == <<items, atPage, chat, resolves, remixes, turn, sent>>

----------------------------------------------------------------------------
(* The ranking.                                                            *)

\* rank's comparator: score, then recency, then the listing id.
RanksBefore(q, l, k) ==
  \/ Score(q, l) > Score(q, k)
  \/ Score(q, l) = Score(q, k) /\ Recency(l) > Recency(k)
  \/ Score(q, l) = Score(q, k) /\ Recency(l) = Recency(k) /\ Order(l) < Order(k)

\* ranked.sort: the i-th item is the listing that i - 1 others rank before.
ItemAt(q, ls, i) == CHOOSE l \in ls : Cardinality({k \in ls : RanksBefore(q, k, l)}) = i - 1
RankedFor(q, ls) == [i \in 1..Cardinality(ls) |-> ItemAt(q, ls, i)]

\* The parent ranks some listings for a query and passes them as items.
RankResults(q, ls) ==
  /\ items' = RankedFor(q, ls)
  /\ items' # items
  /\ UNCHANGED <<atPage, chat, resolves, remixes, turn, sent>>

----------------------------------------------------------------------------
(* The pages of the list.                                                  *)

TotalPages == IF items = <<>> THEN 1 ELSE (Len(items) + PAGE_SIZE - 1) \div PAGE_SIZE
ClampedPage == IF atPage >= TotalPages THEN 0 ELSE atPage
VisibleItems ==
  SubSeq(items, ClampedPage * PAGE_SIZE + 1,
         LET end == (ClampedPage + 1) * PAGE_SIZE IN IF end < Len(items) THEN end ELSE Len(items))

\* Next and Prev step the page state, not the page that is shown.
NextPage ==
  /\ ClampedPage < TotalPages - 1
  /\ atPage' = IF atPage + 1 < TotalPages - 1 THEN atPage + 1 ELSE TotalPages - 1
  /\ UNCHANGED <<items, chat, resolves, remixes, turn, sent>>
PrevPage ==
  /\ ClampedPage > 0
  /\ atPage' = atPage - 1
  /\ UNCHANGED <<items, chat, resolves, remixes, turn, sent>>

----------------------------------------------------------------------------
(* The customize chat.                                                     *)

NoFields == [of |-> "none", value |-> "none"]
ClosedChat == [open |-> FALSE, source |-> "none", loading |-> FALSE, error |-> FALSE,
               listing |-> "none", form |-> NoFields, submitting |-> FALSE, said |-> <<>>]

\* initFieldState: the defaults the listing declares, valid or not.
FormOf(l, value) == IF l \in Parametric THEN [of |-> l, value |-> value] ELSE NoFields

Cancelled(rs) == {[r EXCEPT !.live = FALSE] : r \in rs}

\* Customize on a visible card. A parent that has no chat mounts one; one that
\* shows a chat passes it the other listing, and the effect runs again.
OpenCustomize(l) ==
  /\ turn < CHATS
  /\ l \in ToSet(VisibleItems) \intersect Parametric
  /\ l # chat.source
  /\ turn' = IF chat.open THEN turn ELSE turn + 1
  /\ chat' = IF chat.open
             THEN [chat EXCEPT !.source = l, !.loading = TRUE, !.error = FALSE]
             ELSE [ClosedChat EXCEPT !.open = TRUE, !.source = l, !.loading = TRUE]
  /\ resolves' = Cancelled(resolves) \union {[of |-> l, live |-> TRUE]}
  /\ UNCHANGED <<items, atPage, remixes, sent>>

CloseChat ==
  /\ chat.open
  /\ chat' = ClosedChat
  /\ resolves' = Cancelled(resolves)
  /\ UNCHANGED <<items, atPage, remixes, turn, sent>>

\* The answers to resolveListing; a cleaned-up effect hears none.
HeededAlways(r) == chat.open
Heeded(r) == r.live

ResolveFinds(r, value) ==
  /\ resolves' = resolves \ {r}
  /\ chat' = IF Heeded(r)
             THEN [chat EXCEPT !.listing = r.of, !.form = FormOf(r.of, value),
                               !.said = <<"welcome">>, !.loading = FALSE]
             ELSE chat
  /\ UNCHANGED <<items, atPage, remixes, turn, sent>>

\* null forgets the listing; a rejection keeps the one resolved before.
ResolveRefuses(r, gone) ==
  /\ resolves' = resolves \ {r}
  /\ chat' = IF ~Heeded(r) THEN chat
             ELSE IF gone
                  THEN [chat EXCEPT !.error = TRUE, !.loading = FALSE,
                                    !.listing = "none", !.form = NoFields]
                  ELSE [chat EXCEPT !.error = TRUE, !.loading = FALSE]
  /\ UNCHANGED <<items, atPage, remixes, turn, sent>>

\* The form is on the screen once its listing is.
FormShown == /\ chat.open /\ ~chat.loading /\ ~chat.error
             /\ chat.listing # "none" /\ chat.form # NoFields

UpdateField(value) ==
  /\ FormShown
  /\ chat' = [chat EXCEPT !.form.value = value]
  /\ UNCHANGED <<items, atPage, resolves, remixes, turn, sent>>

\* runSubmit: all fields valid, no request under way.
MaySend == FormShown /\ chat.form.value = "valid" /\ ~chat.submitting

SubmitRemix ==
  /\ MaySend
  /\ sent < SENDS
  /\ chat' = [chat EXCEPT !.submitting = TRUE, !.said = Append(@, "user")]
  /\ remixes' = remixes \union {[of |-> chat.listing, form |-> chat.form.of, by |-> turn,
                                 no |-> sent]}
  /\ sent' = sent + 1
  /\ UNCHANGED <<items, atPage, resolves, turn>>

\* The answer is appended to the transcript there is now, and submitting ends,
\* whatever listing the chat shows by then.
RemixAnswers(r) ==
  /\ remixes' = remixes \ {r}
  /\ chat' = IF chat.open /\ r.by = turn
             THEN [chat EXCEPT !.submitting = FALSE, !.said = Append(@, "advisor")]
             ELSE chat
  /\ UNCHANGED <<items, atPage, resolves, turn, sent>>

RemixInit ==
  /\ items = <<>> /\ atPage = 0 /\ chat = ClosedChat
  /\ resolves = {} /\ remixes = {} /\ turn = 0 /\ sent = 0

RemixNext ==
  \/ \E q \in Asked, ls \in SUBSET Catalog : RankResults(q, ls)
  \/ NextPage \/ PrevPage \/ CloseChat \/ SubmitRemix
  \/ \E l \in Catalog : OpenCustomize(l)
  \/ \E r \in resolves : \/ \E v \in {"valid", "invalid"} : ResolveFinds(r, v)
                         \/ \E gone \in BOOLEAN : ResolveRefuses(r, gone)
  \/ \E v \in {"valid", "invalid"} : UpdateField(v)
  \/ \E r \in remixes : RemixAnswers(r)

RemixSpec == RemixInit /\ [][RemixNext]_remixVars

----------------------------------------------------------------------------
(* Properties.                                                             *)

\* A list with items shows some of them, whatever page the list before it was
\* left at.
PageShowsItems == items # <<>> => VisibleItems # <<>>

\* However late a listing resolves, the form on the screen is the one of the
\* listing the chat is for, and what was sent was filled in for its listing.
FormOfItsListing ==
  /\ FormShown => chat.listing = chat.source /\ chat.form.of = chat.source
  /\ \A r \in remixes : r.form = r.of

\* A chat has one remix request under way, and waits for it: another listing
\* shown meanwhile sends nothing until the answer is there.
OneRemixAtATime ==
  /\ \A r, s \in remixes : r.by = s.by => r = s
  /\ chat.open => (chat.submitting <=> \E r \in remixes : r.by = turn)
=============================================================================
