------------------------------- MODULE MCSite -------------------------------
(***************************************************************************)
(* The pages of the site where creators publish, buyers look around and    *)
(* runs are watched: the constants their components are checked with, and  *)
(* one specification that runs any one of them, as in MCGame.              *)
(***************************************************************************)
EXTENDS Submission, Wizard, Search, Browse, Remix, Viz, Cassandra,
        Replay, Reveal, Tower

CONSTANT Parts    \* the components a run checks
VARIABLE part     \* the one that moves

----------------------------------------------------------------------------
(* Values of the constants.                                                *)

TypedNames == {"", "Agent"}
TypedSlugs == {"", "agent"}
GoodSlugs == {"agent"}
SlugOfName == [n \in TypedNames |-> IF n = "Agent" THEN "agent" ELSE ""]

SearchTexts == {"", "chili", "chili ", "farm"}
Trimmed(t) == IF t = "chili " THEN "chili" ELSE t
SubtypeTable(c) == IF c = "content" THEN {"prompt"} ELSE {"dataset"}
SearchLinks ==
  {[query |-> "", category |-> Unset, subtype |-> Unset, price |-> Unset, written |-> TRUE],
   [query |-> "chili ", category |-> "content", subtype |-> "prompt", price |-> Unset,
    written |-> FALSE]}

ThreeOnSale == {"x", "y", "z"}
TagTable(l) == IF l = "x" THEN {"t1", "t2"} ELSE {"t2"}
VendorTable(l) == IF l = "z" THEN "v2" ELSE "v1"
TierTable(l) == IF l = "y" THEN "free" ELSE "mid"
TrustTable(l) == IF l = "x" THEN 1 ELSE 2
UpdatedTable(l) == CASE l = "x" -> 3 [] l = "y" -> 1 [] OTHER -> 2
OneCurated == <<"z">>

ThreeListings == {"a", "b", "c"}
TwoParametric == {"a", "b"}
ScoreTable(q, l) == IF q = "first" THEN (IF l = "a" THEN 2 ELSE 1) ELSE (IF l = "c" THEN 2 ELSE 0)
RecencyTable(l) == IF l = "b" THEN 1 ELSE 0
OrderTable(l) == CASE l = "a" -> 1 [] l = "b" -> 2 [] OTHER -> 3

BothSides == {3, 8}

ThreeStarts == <<0, 2, 4>>
ThreeEnds == <<2, 4, 5>>
FourEvents == <<0, 2, 2, 5>>

TwoShots == <<[from |-> 2, to |-> 4], [from |-> 0, to |-> 2], [from |-> 5, to |-> 5]>>
TwoBeats == <<[from |-> 0, to |-> 3], [from |-> 2, to |-> 3]>>
OneOrTwo == {1, 2}

----------------------------------------------------------------------------
(* The composition.                                                        *)

siteVars == <<part, submissionVars, wizardVars, assetVars, searchVars, browseVars,
              remixVars, vizVars, cassandraVars, replayVars, revealVars, towerVars>>

\* The part p moves and no other does.
Only(p) ==
  /\ part = p /\ UNCHANGED part
  /\ p # "submission" => UNCHANGED submissionVars
  /\ p # "wizard" => UNCHANGED wizardVars
  /\ p # "assets" => UNCHANGED assetVars
  /\ p # "search" => UNCHANGED searchVars
  /\ p # "browse" => UNCHANGED browseVars
  /\ p # "remix" => UNCHANGED remixVars
  /\ p # "canvas" => UNCHANGED vizVars
  /\ p # "predictions" => UNCHANGED cassandraVars
  /\ p # "replay" => UNCHANGED replayVars
  /\ p # "reveal" => UNCHANGED revealVars
  /\ p # "tower" => UNCHANGED towerVars

\* Parts that may start in several states start in one of them when they do not move.
SiteInit ==
  /\ part \in Parts
  /\ SearchInit /\ (part # "search" => address.written)
  /\ VizInit /\ (part # "canvas" => wanted = {} /\ subscriber.url)
  /\ ReplayInit /\ (part # "replay" => player.auto)
  /\ TowerInit /\ (part # "tower" => tower.world = CHOOSE w \in TowerWorlds : TRUE)
  /\ SubmissionInit /\ WizardInit /\ AssetsInit /\ BrowseInit /\ RemixInit
  /\ CassandraInit /\ RevealInit

SiteNext ==
  \/ Only("submission") /\ SubmissionNext
  \/ Only("wizard") /\ WizardNext
  \/ Only("assets") /\ AssetsNext
  \/ Only("search") /\ SearchNext
  \/ Only("browse") /\ BrowseNext
  \/ Only("remix") /\ RemixNext
  \/ Only("canvas") /\ VizNext
  \/ Only("predictions") /\ CassandraNext
  \/ Only("replay") /\ ReplayNext
  \/ Only("reveal") /\ RevealNext
  \/ Only("tower") /\ TowerNext

SiteSpec == SiteInit /\ [][SiteNext]_siteVars

----------------------------------------------------------------------------
(* Properties, of one component or of several with one promise.            *)

\* What a creator publishes is what the forms checked and showed: a complete listing, with a
\* reference for each file on screen (SubmissionForm, step-assets).
ListingIsWhatWasShown ==
  PublishedListingComplete /\ PreviewNeverRefuses /\ RowsAreTheReferences

\* A draft of the wizard loses no edit, on this machine or at the server, across reloads,
\* saves in flight and a listing that is created meanwhile (store.ts, autosave.ts).
DraftKeepsEdits == ReloadKeepsEdits /\ SavedMeansSaved

\* The search page says one thing: its bar, its address and its results are of one query
\* once debounce, replace and requests are over.
SearchSaysOneThing == ResultsMatchThePage /\ AddressMatchesThePage /\ BarShowsTheQuery

\* The browse page shows the rows, the vendor, the order and the focus of the choices made,
\* whichever answer comes last (BrowseCanvas, CategoryNav).
BrowseFollowsTheChoices ==
  RowsAreOfTheChoices /\ PageKnowsTheVendor /\ PickedSortStays /\ FocusOnAnEntry

\* A remix is of the listing on screen and sent once, and a page of results is never empty
\* (ResultList, LivingTemplateChat).
RemixOfTheListingShown == PageShowsItems /\ FormOfItsListing /\ OneRemixAtATime

\* The canvas reads each session once and shows its own run (stream_subscriber,
\* PipelineCanvas).
CanvasReadsItsRun == OneSourcePerSession /\ CanvasShowsItsRun

\* Each warning of a scan is remembered and told once, in order, and one that does not arrive
\* is its scan's last (cassandra.ts).
WarningsToldOnce == UntoldEndsItsScan /\ ReturnedScanWarnedOnce

\* The demonstrations play on one clock and end with everything shown, through pauses, seeks,
\* late effects and rebuilds that overlap (LumioReplay, BlueprintReveal,
\* ConstructionAnimation).
DemonstrationsAddUp ==
  /\ OneReplayAtATime /\ CompletesWithEverything
  /\ PausedTimeNotCounted /\ CompletedAtMostOnce /\ BeatToldIsShown
  /\ EveryFloorIsDrawn
=============================================================================
